------------------------ MODULE GraphSampling_proofs ------------------------
(***************************************************************************)
(* What the graphs of graph_operation are worth, for any resources,        *)
(* listings and requests, however long the call goes on.                   *)
(***************************************************************************)
EXTENDS GraphSampling, FiniteSetTheorems, WellFoundedInduction, SequenceTheorems, TLAPS

(***************************************************************************)
(* The inductive invariant.                                                *)
(***************************************************************************)
RowType     == [RowFields -> Texts \cup Nat]
StampedType == [RowFields \cup {"timestamp", "sample"} -> Texts \cup Nat]
SourceType  == [resource : Resources, sample : Nat, sent : Nat, resets : Nat]

Types ==
    /\ sent \in [Resources -> Nat]
    /\ counter \in [Resources -> Nat]
    /\ resets \in [Resources -> Nat]
    /\ time \in Nat
    /\ setBacks \in Nat
    /\ request \in Requests
    /\ sample \in Nat
    /\ reply \in Seq(RowType)
    /\ records \in Seq(StampedType)
    /\ source \in Seq(SourceType)
    /\ Len(source) = Len(records) + Len(reply)

(* Where the call stands. *)
Progress ==
    /\ pc \in {"checking", "executing", "stamping", "sleeping", "drawing",
              "done", "failed"}
    /\ pc # "stamping" => reply = <<>>
    /\ pc = "checking" => sample = 0
    /\ pc \in {"executing", "stamping", "sleeping"} => sample < request.samples
    /\ pc \in {"drawing", "done"} => sample = request.samples

(* The row that was read with a source. *)
Row(i) == IF i <= Len(records) THEN records[i] ELSE reply[i - Len(records)]

Count(i) == Row(i)["rx-byte"]

(* Each row says what its resource was. *)
Rows ==
    /\ \A i \in DOMAIN source :
          Row(i)["name"] = Name[source[i].resource] /\ Count(i) \in Nat
    /\ \A i \in DOMAIN records :
          /\ records[i]["timestamp"] \in Nat
          /\ records[i]["sample"] = source[i].sample

(* What a resource, of which c, s and n are the counter, the traffic and   *)
(* the resets, may be later: if there was no reset, the counter has grown  *)
(* with the traffic, else it has started again.                            *)
Follows(c, s, n, c2, s2, n2) ==
    /\ s <= s2 /\ n <= n2
    /\ n = n2 => c2 - c = s2 - s
    /\ n < n2 => c2 <= s2 - s

Readings ==
    /\ \A r \in Resources : counter[r] <= sent[r]
    /\ \A i \in DOMAIN source :
          LET r == source[i].resource
          IN  Follows(Count(i), source[i].sent, source[i].resets, counter[r], sent[r], resets[r])
    /\ \A i, j \in DOMAIN source :
          i < j /\ source[i].resource = source[j].resource =>
              Follows(Count(i), source[i].sent, source[i].resets,
                      Count(j), source[j].sent, source[j].resets)

(* Samples follow one another, and hold a resource once. *)
Samples ==
    /\ \A i \in DOMAIN source :
          IF i <= Len(records) THEN source[i].sample < sample ELSE source[i].sample = sample
    /\ \A i, j \in DOMAIN source : i < j => source[i].sample <= source[j].sample
    /\ \A i, j \in DOMAIN source :
          i < j /\ source[i].resource = source[j].resource => source[i].sample < source[j].sample

(* A clock that is not set back stamps the rows in their order. *)
Stamps ==
    setBacks = 0 =>
        /\ \A i \in DOMAIN records : records[i]["timestamp"] <= time
        /\ \A i, j \in DOMAIN records : i < j => records[i]["timestamp"] <= records[j]["timestamp"]

IInv == Types /\ Progress /\ Rows /\ Readings /\ Samples /\ Stamps

-----------------------------------------------------------------------------
(***************************************************************************)
(* Rows.                                                                   *)
(***************************************************************************)
LEMMA RowOfIs ==
    ASSUME Types, NEW r \in Resources
    PROVE  /\ RowOf(r) \in RowType
           /\ RowOf(r)["name"] = Name[r]
           /\ RowOf(r)["rx-byte"] = counter[r]
  <1>1. Name[r] \in Texts /\ counter[r] \in Nat
    BY ResourcesAssumption DEF Types
  <1>2. \A f \in RowFields : RowOf(r)[f] \in Texts \cup Nat
    BY <1>1 DEF RowOf, RowFields
  <1>3. RowOf(r) = [f \in RowFields |-> RowOf(r)[f]]
    BY DEF RowOf, RowFields
  <1>4. RowOf(r) \in RowType
    BY <1>2, <1>3 DEF RowType
  <1> QED BY <1>4 DEF RowOf

LEMMA StampedIs ==
    ASSUME Types, NEW row \in RowType
    PROVE  /\ Stamped(row) \in StampedType
           /\ \A f \in RowFields : Stamped(row)[f] = row[f]
           /\ Stamped(row)["timestamp"] = time
           /\ Stamped(row)["sample"] = sample
  <1> DEFINE stamp == [timestamp |-> time, sample |-> sample]
             all == RowFields \cup {"timestamp", "sample"}
  <1>1. Stamped(row) = [f \in all |-> IF f \in DOMAIN stamp THEN stamp[f] ELSE row[f]]
    BY DEF Stamped, Update, RowType
  <1>2. DOMAIN stamp = {"timestamp", "sample"}
    OBVIOUS
  <1>3. \A f \in all : Stamped(row)[f] \in Texts \cup Nat
    BY <1>1, <1>2 DEF RowType, Types
  <1>4. Stamped(row) \in StampedType
    BY <1>1, <1>3 DEF StampedType
  <1>5. RowFields \cap {"timestamp", "sample"} = {}
    BY DEF RowFields
  <1> QED BY <1>1, <1>2, <1>4, <1>5

(* What is appended to a sequence, and what is left of it. *)
LEMMA Appended ==
    ASSUME NEW T, NEW s \in Seq(T), NEW t \in Seq(T)
    PROVE  /\ s \o t \in Seq(T)
           /\ Len(s \o t) = Len(s) + Len(t)
           /\ \A i \in 1..Len(s) : (s \o t)[i] = s[i]
           /\ \A i \in DOMAIN (s \o t) : i > Len(s) =>
                 i - Len(s) \in DOMAIN t /\ (s \o t)[i] = t[i - Len(s)]
  <1>1. s \o t \in Seq(T) /\ Len(s \o t) = Len(s) + Len(t)
    BY ConcatProperties
  <1>2. \A i \in 1..(Len(s) + Len(t)) : (s \o t)[i] = IF i <= Len(s) THEN s[i] ELSE t[i - Len(s)]
    BY ConcatProperties
  <1>3. Len(s) \in Nat /\ Len(t) \in Nat /\ DOMAIN t = 1..Len(t)
        /\ DOMAIN (s \o t) = 1..(Len(s) + Len(t))
    BY <1>1, LenProperties
  <1> QED BY <1>1, <1>2, <1>3

-----------------------------------------------------------------------------
(***************************************************************************)
(* Every step keeps the invariant.                                         *)
(***************************************************************************)
LEMMA InitInv == Init => IInv
  <1> SUFFICES ASSUME Init PROVE IInv
    OBVIOUS
  <1>1. <<>> \in Seq(RowType) /\ <<>> \in Seq(StampedType) /\ <<>> \in Seq(SourceType)
    OBVIOUS
  <1>2. Len(<<>>) = 0 /\ DOMAIN <<>> = {}
    OBVIOUS
  <1>3. Types /\ Progress
    BY <1>1, <1>2 DEF Init, Types, Progress
  <1>4. Rows /\ Readings /\ Samples /\ Stamps
    BY <1>2 DEF Init, Rows, Readings, Samples, Stamps
  <1> QED BY <1>3, <1>4 DEF IInv

(* What is read and collected stays true as long as it is left alone. *)
LEMMA LeftAlone ==
    ASSUME IInv, UNCHANGED <<request, sample, reply, records, source, device, clock>>
    PROVE  (Types /\ Rows /\ Readings /\ Samples /\ Stamps)'
  BY DEF IInv, Types, Rows, Row, Count, Readings, Follows, Samples, Stamps, device, clock

LEMMA ControlStep ==
    ASSUME IInv,
           RefuseRequest \/ AcceptRequest \/ ExecuteFails \/ Wake
              \/ RefuseRate \/ RefuseAggregate \/ Draw
    PROVE  IInv'
  <1>1. UNCHANGED <<request, sample, reply, records, source, device, clock>>
    BY DEF RefuseRequest, AcceptRequest, ExecuteFails, Wake, RefuseRate, RefuseAggregate,
           Draw, Fail
  <1>2. Progress'
    <2>1. request.samples \in Int /\ sample \in Nat
      BY RequestsAssumption DEF IInv, Types
    <2> QED BY <1>1, <2>1 DEF IInv, Progress, RefuseRequest, AcceptRequest, ExecuteFails, Wake,
                RefuseRate, RefuseAggregate, Draw, Fail
  <1> QED BY <1>1, <1>2, LeftAlone DEF IInv

LEMMA SourceTyped ==
    ASSUME Types, NEW i \in DOMAIN source
    PROVE  /\ source[i].resource \in Resources
           /\ source[i].sample \in Nat /\ source[i].sent \in Nat /\ source[i].resets \in Nat
  <1>1. source[i] \in SourceType
    BY DEF Types
  <1> QED BY <1>1 DEF SourceType

(* The device, as the operation is executed. *)
LEMMA DeviceStep ==
    ASSUME IInv, pc = "executing", Traffic \/ ResetCounter
    PROVE  IInv'
  <1>1. UNCHANGED <<request, pc, sample, reply, records, source, time, setBacks>>
    BY DEF Traffic, ResetCounter, call, clock
  <1>2. PICK r \in Resources :
            \/ /\ sent' = [sent EXCEPT ![r] = @ + 1]
               /\ counter' = [counter EXCEPT ![r] = @ + 1]
               /\ resets' = resets
            \/ /\ resets' = [resets EXCEPT ![r] = @ + 1]
               /\ counter' = [counter EXCEPT ![r] = 0]
               /\ sent' = sent
    BY DEF Traffic, ResetCounter
  <1>3. Types'
    <2>1. sent' \in [Resources -> Nat] /\ counter' \in [Resources -> Nat]
          /\ resets' \in [Resources -> Nat]
      <3>1. sent \in [Resources -> Nat] /\ counter \in [Resources -> Nat]
            /\ resets \in [Resources -> Nat]
        BY DEF IInv, Types
      <3>2. sent[r] + 1 \in Nat /\ counter[r] + 1 \in Nat /\ resets[r] + 1 \in Nat /\ 0 \in Nat
        BY <3>1
      <3> QED BY <1>2, <3>1, <3>2, Zenon
    <2> QED BY <1>1, <2>1 DEF IInv, Types
  <1>4. Progress' /\ Rows' /\ Samples' /\ Stamps'
    BY <1>1 DEF IInv, Progress, Rows, Row, Count, Samples, Stamps
  <1>5. ASSUME NEW q \in Resources
        PROVE  /\ counter'[q] <= sent'[q]
               /\ Follows(counter[q], sent[q], resets[q], counter'[q], sent'[q], resets'[q])
    <2>1. counter[q] \in Nat /\ sent[q] \in Nat /\ resets[q] \in Nat /\ counter[q] <= sent[q]
          /\ sent \in [Resources -> Nat] /\ counter \in [Resources -> Nat]
          /\ resets \in [Resources -> Nat]
      BY DEF IInv, Types, Readings
    <2>2. \/ counter'[q] = counter[q] /\ sent'[q] = sent[q] /\ resets'[q] = resets[q]
          \/ counter'[q] = counter[q] + 1 /\ sent'[q] = sent[q] + 1 /\ resets'[q] = resets[q]
          \/ counter'[q] = 0 /\ sent'[q] = sent[q] /\ resets'[q] = resets[q] + 1
      BY <1>2, <2>1
    <2> QED BY <2>1, <2>2 DEF Follows
  <1>6. ASSUME NEW i \in DOMAIN source, NEW q \in Resources, q = source[i].resource
        PROVE  Follows(Count(i), source[i].sent, source[i].resets,
                       counter'[q], sent'[q], resets'[q])
    <2>1. Count(i) \in Nat /\ source[i].sent \in Nat /\ source[i].resets \in Nat
      BY SourceTyped DEF IInv, Rows
    <2>2. Follows(Count(i), source[i].sent, source[i].resets, counter[q], sent[q], resets[q])
      BY <1>6 DEF IInv, Readings
    <2>3. counter[q] \in Nat /\ sent[q] \in Nat /\ resets[q] \in Nat
          /\ counter'[q] \in Nat /\ sent'[q] \in Nat /\ resets'[q] \in Nat
      BY <1>3 DEF IInv, Types
    <2>4. Follows(counter[q], sent[q], resets[q], counter'[q], sent'[q], resets'[q])
      BY <1>5
    <2>5. counter'[q] <= sent'[q] /\ counter[q] <= sent[q]
      BY <1>5 DEF IInv, Readings
    <2> QED BY <2>1, <2>2, <2>3, <2>4, <2>5 DEF Follows
  <1>7. \A i \in DOMAIN source : source[i].resource \in Resources
    BY SourceTyped DEF IInv
  <1>8. \A i \in DOMAIN source : Count(i)' = Count(i)
    BY <1>1 DEF Count, Row
  <1>9. Readings'
    BY <1>1, <1>5, <1>6, <1>7, <1>8 DEF IInv, Readings
  <1> QED BY <1>3, <1>4, <1>9 DEF IInv

LEMMA ClockStep ==
    ASSUME IInv, pc = "stamping", Tick \/ SetBack
    PROVE  IInv'
  <1>1. UNCHANGED <<request, pc, sample, reply, records, source, sent, counter, resets>>
    BY DEF Tick, SetBack, call, device
  <1>2. Types'
    BY <1>1 DEF IInv, Types, Tick, SetBack
  <1>3. Progress' /\ Rows' /\ Readings' /\ Samples'
    BY <1>1 DEF IInv, Progress, Rows, Row, Count, Readings, Follows, Samples
  <1>4. Stamps'
    <2>1. CASE Tick
      <3>1. setBacks' = setBacks /\ time' = time + 1
        BY <2>1 DEF Tick
      <3>2. \A i \in DOMAIN records : records[i]["timestamp"] \in Nat
        BY DEF IInv, Rows
      <3> QED BY <1>1, <3>1, <3>2 DEF IInv, Types, Stamps
    <2>2. CASE SetBack
      BY <2>2 DEF IInv, Types, Stamps, SetBack
    <2> QED BY <2>1, <2>2
  <1> QED BY <1>2, <1>3, <1>4 DEF IInv

(* The rows that come back are read at once, and each of another resource. *)
LEMMA ExecuteStep ==
    ASSUME IInv, Execute
    PROVE  IInv'
  <1> USE DEF IInv
  <1>1. PICK shown \in Listings :
            /\ reply' = [i \in DOMAIN shown |-> RowOf(shown[i])]
            /\ source' = source \o
                  [i \in DOMAIN shown |->
                      [resource |-> shown[i], sample |-> sample,
                       sent |-> sent[shown[i]], resets |-> resets[shown[i]]]]
    BY DEF Execute
  <1> DEFINE new == [i \in DOMAIN shown |->
                       [resource |-> shown[i], sample |-> sample,
                        sent |-> sent[shown[i]], resets |-> resets[shown[i]]]]
             n == Len(records)
  <1>2. /\ pc = "executing" /\ pc' = "stamping" /\ reply = <<>>
        /\ UNCHANGED <<request, sample, records, sent, counter, resets, time, setBacks>>
    BY DEF Execute, Progress, device, clock
  <1>3. shown \in Seq(Resources) /\ DOMAIN shown = 1..Len(shown) /\ Len(shown) \in Nat
        /\ \A i \in DOMAIN shown : shown[i] \in Resources
    BY ResourcesAssumption
  <1>4. reply' \in Seq(RowType) /\ Len(reply') = Len(shown)
    <2>1. \A i \in DOMAIN shown : RowOf(shown[i]) \in RowType
      BY <1>3, RowOfIs
    <2> QED BY <1>1, <1>3, <2>1
  <1>5. new \in Seq(SourceType) /\ Len(new) = Len(shown)
    <2>1. \A i \in DOMAIN shown : new[i] \in SourceType
      BY <1>3 DEF Types, SourceType
    <2>2. new \in [1..Len(shown) -> SourceType]
      BY <1>3, <2>1
    <2> QED BY <1>3, <2>2
  <1>6. n \in Nat /\ Len(source) = n /\ source \in Seq(SourceType) /\ DOMAIN source = 1..n
        /\ DOMAIN records = 1..n
    BY <1>2 DEF Types
  <1>7. /\ source' \in Seq(SourceType)
        /\ Len(source') = n + Len(shown)
        /\ DOMAIN source' = 1..(n + Len(shown))
        /\ \A i \in 1..n : source'[i] = source[i]
        /\ \A i \in DOMAIN source' : i > n =>
              i - n \in DOMAIN shown /\ source'[i] = new[i - n]
    <2> HIDE DEF new
    <2>1. source' = source \o new
      BY <1>1 DEF new
    <2>2. DOMAIN new = DOMAIN shown
      BY DEF new
    <2>3. /\ source \o new \in Seq(SourceType)
          /\ Len(source \o new) = Len(source) + Len(new)
          /\ \A i \in 1..Len(source) : (source \o new)[i] = source[i]
          /\ \A i \in DOMAIN (source \o new) : i > Len(source) =>
                i - Len(source) \in DOMAIN new /\ (source \o new)[i] = new[i - Len(source)]
      BY <1>5, <1>6, Appended
    <2>4. DOMAIN (source \o new) = 1..Len(source \o new)
      BY <2>3, LenProperties
    <2> QED BY <1>5, <1>6, <2>1, <2>2, <2>3, <2>4
  <1>8. Types'
    BY <1>2, <1>4, <1>6, <1>7 DEF Types
  <1>9. Progress'
    BY <1>2 DEF Progress
  <1> DEFINE old(i) == i \in 1..n
             at(i) == shown[i - n]
  <1>10. ASSUME NEW i \in DOMAIN source'
         PROVE  \/ /\ i \in 1..n /\ i \in DOMAIN source
                   /\ source'[i] = source[i]
                   /\ Row(i)' = Row(i) /\ Count(i)' = Count(i)
                \/ /\ i > n /\ i - n \in DOMAIN shown
                   /\ source'[i].resource = at(i) /\ at(i) \in Resources
                   /\ source'[i].sample = sample
                   /\ source'[i].sent = sent[at(i)] /\ source'[i].resets = resets[at(i)]
                   /\ Row(i)' = RowOf(at(i)) /\ Count(i)' = counter[at(i)]
    <2>1. i \in Nat /\ (i \in 1..n \/ i > n)
      BY <1>6, <1>7
    <2>2. CASE i \in 1..n
      <3>1. i <= n
        BY <2>2
      <3> QED BY <1>2, <1>6, <1>7, <2>2, <3>1 DEF Row, Count
    <2>3. CASE i > n
      <3>1. ~(i <= n)
        BY <1>6, <2>1, <2>3
      <3>2. i - n \in DOMAIN shown /\ source'[i] = new[i - n]
        BY <1>7, <2>3
      <3>3. Row(i)' = RowOf(at(i))
        BY <1>1, <1>2, <3>1, <3>2 DEF Row
      <3>4. Count(i)' = counter[at(i)]
        BY <1>3, <3>2, <3>3, RowOfIs DEF Count
      <3> QED BY <1>3, <2>3, <3>2, <3>3, <3>4
    <2> QED BY <2>1, <2>2, <2>3
  <1> HIDE DEF new, at
  <1>11. Rows'
    <2>1. ASSUME NEW i \in DOMAIN source'
          PROVE  Row(i)'["name"] = Name[source'[i].resource] /\ Count(i)' \in Nat
      BY <1>10, RowOfIs DEF Rows, Types
    <2>2. \A i \in DOMAIN records : source'[i] = source[i]
      BY <1>6, <1>7
    <2> QED BY <1>2, <2>1, <2>2 DEF Rows
  <1>12. Readings'
    <2>1. ASSUME NEW i \in DOMAIN source'
          PROVE  LET r == source'[i].resource
                 IN  Follows(Count(i)', source'[i].sent, source'[i].resets,
                             counter[r], sent[r], resets[r])
      <3>1. CASE i > n
        <4>1. ~(i \in 1..n)
          BY <1>6, <1>7, <3>1
        <4>2. at(i) \in Resources /\ source'[i].resource = at(i)
              /\ source'[i].sent = sent[at(i)] /\ source'[i].resets = resets[at(i)]
              /\ Count(i)' = counter[at(i)]
          BY <1>10, <4>1
        <4>3. counter[at(i)] \in Nat /\ sent[at(i)] \in Nat /\ resets[at(i)] \in Nat
          BY <4>2 DEF Types
        <4> QED BY <4>2, <4>3 DEF Follows
      <3>2. CASE i \in 1..n
        <4>1. ~(i > n)
          BY <1>6, <3>2
        <4> QED BY <1>10, <4>1 DEF Readings
      <3> QED BY <1>6, <1>7, <3>1, <3>2
    <2>2. ASSUME NEW i \in DOMAIN source', NEW j \in DOMAIN source',
                 i < j, source'[i].resource = source'[j].resource
          PROVE  Follows(Count(i)', source'[i].sent, source'[i].resets,
                         Count(j)', source'[j].sent, source'[j].resets)
      <3>1. CASE j \in 1..n
        <4>1. i \in 1..n
          BY <1>6, <1>7, <2>2, <3>1
        <4>2. ~(i > n) /\ ~(j > n)
          BY <1>6, <3>1, <4>1
        <4> QED BY <1>10, <2>2, <4>2 DEF Readings
      <3>2. CASE j > n
        <4>1. ~(j \in 1..n)
          BY <1>6, <1>7, <3>2
        <4>2. /\ Count(j)' = counter[source'[j].resource]
              /\ source'[j].sent = sent[source'[j].resource]
              /\ source'[j].resets = resets[source'[j].resource]
          BY <1>10, <4>1
        <4> QED BY <2>1, <2>2, <4>2
      <3> QED BY <1>6, <1>7, <3>1, <3>2
    <2> QED BY <1>2, <2>1, <2>2 DEF Readings
  <1>13. Samples'
    <2>1. ASSUME NEW i \in DOMAIN source'
          PROVE  IF i <= n THEN source'[i].sample < sample ELSE source'[i].sample = sample
      BY <1>6, <1>7, <1>10, <2>1 DEF Samples
    <2>2. ASSUME NEW i \in DOMAIN source', NEW j \in DOMAIN source', i < j
          PROVE  /\ source'[i].sample <= source'[j].sample
                 /\ source'[i].resource = source'[j].resource => source'[i].sample < source'[j].sample
      <3>1. CASE j \in 1..n
        <4>1. i \in 1..n
          BY <1>6, <1>7, <2>2, <3>1
        <4>2. ~(i > n) /\ ~(j > n)
          BY <1>6, <3>1, <4>1
        <4> QED BY <1>10, <2>2, <4>2 DEF Samples
      <3>2. CASE j > n /\ i \in 1..n
        <4>1. ~(j <= n) /\ i <= n
          BY <1>6, <1>7, <3>2
        <4>2. source'[i].sample < sample /\ source'[j].sample = sample
          BY <2>1, <4>1
        <4>3. source'[i].sample \in Nat /\ sample \in Nat
          BY <1>6, <1>7, <3>2, SourceTyped DEF Types
        <4> QED BY <4>2, <4>3
      <3>3. CASE i > n
        <4>1. ~(i \in 1..n) /\ ~(j \in 1..n)
          BY <1>6, <1>7, <2>2, <3>3
        <4>2. source'[i].sample = sample /\ source'[j].sample = sample /\ sample \in Nat
          BY <1>10, <4>1 DEF Types
        <4>3. at(i) # at(j)
          <5>1. i - n \in DOMAIN shown /\ j - n \in DOMAIN shown /\ i - n # j - n
            BY <1>6, <1>7, <1>10, <2>2, <4>1
          <5> QED BY <5>1, ResourcesAssumption DEF at
        <4>4. source'[i].resource = at(i) /\ source'[j].resource = at(j)
          BY <1>10, <4>1
        <4> QED BY <4>2, <4>3, <4>4
      <3> QED BY <1>6, <1>7, <3>1, <3>2, <3>3
    <2> QED BY <1>2, <2>1, <2>2 DEF Samples
  <1>14. Stamps'
    BY <1>2 DEF Stamps
  <1> QED BY <1>8, <1>9, <1>11, <1>12, <1>13, <1>14

(* The rows are stamped where they are. *)
LEMMA StampStep ==
    ASSUME IInv, Stamp
    PROVE  IInv'
  <1> USE DEF IInv
  <1> DEFINE new == [i \in DOMAIN reply |-> Stamped(reply[i])]
             n == Len(records)
  <1>1. /\ records' = records \o new /\ reply' = <<>>
        /\ sample' = sample + 1
        /\ pc = "stamping"
        /\ pc' = IF sample + 1 < request.samples THEN "sleeping" ELSE "drawing"
        /\ UNCHANGED <<request, source, sent, counter, resets, time, setBacks>>
    BY DEF Stamp, device, clock
  <1>2. /\ n \in Nat /\ records \in Seq(StampedType) /\ DOMAIN records = 1..n
        /\ reply \in Seq(RowType) /\ Len(reply) \in Nat /\ DOMAIN reply = 1..Len(reply)
        /\ Len(source) = n + Len(reply) /\ DOMAIN source = 1..(n + Len(reply))
    BY DEF Types
  <1>3. ASSUME NEW k \in DOMAIN reply
        PROVE  /\ reply[k] \in RowType /\ new[k] = Stamped(reply[k])
               /\ new[k] \in StampedType
               /\ new[k]["name"] = reply[k]["name"]
               /\ new[k]["rx-byte"] = reply[k]["rx-byte"]
               /\ new[k]["timestamp"] = time /\ new[k]["sample"] = sample
    <2>1. reply[k] \in RowType
      BY <1>2
    <2>2. "name" \in RowFields /\ "rx-byte" \in RowFields
      BY DEF RowFields
    <2> QED BY <2>1, <2>2, StampedIs
  <1>4. new \in Seq(StampedType) /\ Len(new) = Len(reply) /\ DOMAIN new = DOMAIN reply
    <2>1. new \in [1..Len(reply) -> StampedType]
      BY <1>2, <1>3
    <2> QED BY <1>2, <2>1
  <1>5. /\ records' \in Seq(StampedType)
        /\ Len(records') = n + Len(reply)
        /\ DOMAIN records' = DOMAIN source
        /\ \A i \in 1..n : records'[i] = records[i]
        /\ \A i \in DOMAIN source : i > n =>
              i - n \in DOMAIN reply /\ records'[i] = new[i - n]
    <2> HIDE DEF new
    <2>0. records \in Seq(StampedType) /\ new \in Seq(StampedType)
      BY <1>2, <1>4
    <2>1. /\ records \o new \in Seq(StampedType)
          /\ Len(records \o new) = Len(records) + Len(new)
          /\ \A i \in 1..Len(records) : (records \o new)[i] = records[i]
          /\ \A i \in DOMAIN (records \o new) : i > Len(records) =>
                i - Len(records) \in DOMAIN new /\ (records \o new)[i] = new[i - Len(records)]
      BY <2>0, Appended
    <2>2. DOMAIN (records \o new) = 1..Len(records \o new)
      BY <2>1, LenProperties
    <2> QED BY <1>1, <1>2, <1>4, <2>1, <2>2
  <1>6. Types'
    <2>1. sample + 1 \in Nat /\ <<>> \in Seq(RowType) /\ Len(<<>>) = 0
      BY DEF Types
    <2> QED BY <1>1, <1>2, <1>5, <2>1 DEF Types
  <1>7. Progress'
    <2>1. request.samples \in Int /\ sample \in Nat /\ sample < request.samples
      BY <1>1, RequestsAssumption DEF Types, Progress
    <2> QED BY <1>1, <2>1 DEF Progress
  <1>8. ASSUME NEW i \in DOMAIN source
        PROVE  /\ Row(i)' = records'[i]
               /\ records'[i]["name"] = Row(i)["name"]
               /\ records'[i]["rx-byte"] = Row(i)["rx-byte"]
               /\ Count(i)' = Count(i)
               /\ \/ i <= n /\ i \in DOMAIN records /\ records'[i] = records[i]
                  \/ i > n /\ records'[i]["timestamp"] = time /\ records'[i]["sample"] = sample
    <2>1. i <= Len(records') /\ i \in Nat
      BY <1>2, <1>5
    <2>2. Row(i)' = records'[i]
      BY <2>1 DEF Row
    <2>3. CASE i <= n
      <3>1. i \in 1..n /\ records'[i] = records[i]
        BY <1>2, <1>5, <2>3
      <3> QED BY <1>2, <2>2, <2>3, <3>1 DEF Row, Count
    <2>4. CASE i > n
      <3>1. i - n \in DOMAIN reply /\ records'[i] = new[i - n] /\ ~(i <= n)
        <4>1. ~(i <= n)
          BY <1>2, <2>1, <2>4
        <4> QED BY <1>5, <2>4, <4>1
      <3>2. Row(i) = reply[i - n]
        BY <3>1 DEF Row
      <3> QED BY <1>3, <2>2, <2>4, <3>1, <3>2 DEF Count
    <2> QED BY <1>2, <2>1, <2>3, <2>4
  <1> HIDE DEF new
  <1>9. Rows'
    <2>1. \A i \in DOMAIN source : Row(i)'["name"] = Name[source[i].resource] /\ Count(i)' \in Nat
      BY <1>8 DEF Rows
    <2>2. ASSUME NEW i \in DOMAIN source
          PROVE  records'[i]["timestamp"] \in Nat /\ records'[i]["sample"] = source[i].sample
      <3>1. CASE i <= n
        BY <1>2, <1>8, <3>1 DEF Rows
      <3>2. CASE i > n
        BY <1>2, <1>8, <3>2 DEF Types, Samples
      <3> QED BY <1>2, <3>1, <3>2
    <2> QED BY <1>1, <1>5, <2>1, <2>2 DEF Rows
  <1>10. Readings'
    BY <1>1, <1>8 DEF Readings
  <1>11. Samples'
    <2>1. ASSUME NEW i \in DOMAIN source
          PROVE  i <= Len(records') /\ source[i].sample < sample + 1
      <3>1. source[i].sample \in Nat /\ sample \in Nat
        BY SourceTyped DEF Types
      <3> QED BY <1>2, <1>5, <3>1 DEF Samples
    <2> QED BY <1>1, <2>1 DEF Samples
  <1>12. Stamps'
    <2> SUFFICES ASSUME setBacks = 0
                 PROVE  /\ \A i \in DOMAIN source : records'[i]["timestamp"] <= time
                        /\ \A i, j \in DOMAIN source : i < j =>
                              records'[i]["timestamp"] <= records'[j]["timestamp"]
      BY <1>1, <1>5 DEF Stamps
    <2>1. ASSUME NEW i \in DOMAIN source
          PROVE  records'[i]["timestamp"] <= time
      <3>1. time \in Nat /\ \A k \in DOMAIN records : records[k]["timestamp"] <= time
        BY DEF Stamps, Types
      <3> QED BY <1>8, <3>1
    <2>2. ASSUME NEW i \in DOMAIN source, NEW j \in DOMAIN source, i < j
          PROVE  records'[i]["timestamp"] <= records'[j]["timestamp"]
      <3>1. CASE j <= n
        <4>1. i <= n /\ ~(i > n) /\ ~(j > n)
          BY <1>2, <2>2, <3>1
        <4> QED BY <1>8, <2>2, <4>1 DEF Stamps
      <3>2. CASE j > n
        <4>1. ~(j <= n)
          BY <1>2, <3>2
        <4> QED BY <1>8, <2>1, <4>1
      <3> QED BY <1>2, <3>1, <3>2
    <2> QED BY <2>1, <2>2
  <1> QED BY <1>6, <1>7, <1>9, <1>10, <1>11, <1>12

LEMMA NextInv == IInv /\ [Next]_vars => IInv'
  <1> SUFFICES ASSUME IInv, [Next]_vars PROVE IInv'
    OBVIOUS
  <1>1. CASE CallStep
    BY <1>1, ControlStep, ExecuteStep, StampStep DEF CallStep
  <1>2. CASE Environment
    BY <1>2, DeviceStep, ClockStep DEF Environment
  <1>3. CASE UNCHANGED vars
    <2>1. UNCHANGED <<request, sample, reply, records, source, device, clock>> /\ pc' = pc
      BY <1>3 DEF vars, call
    <2>2. Progress'
      BY <2>1 DEF IInv, Progress
    <2> QED BY <2>1, <2>2, LeftAlone DEF IInv
  <1> QED BY <1>1, <1>2, <1>3 DEF Next

LEMMA Invariance == Spec => []IInv
  <1>1. Init => IInv
    BY InitInv
  <1>2. IInv /\ [Next]_vars => IInv'
    BY NextInv
  <1> QED BY <1>1, <1>2, PTL DEF Spec

(* Every variable keeps its type, and each row has the source it was read  *)
(* from.                                                                   *)
THEOREM TypeCorrect == Spec => []TypeOK
  <1>1. IInv => TypeOK
    <2> SUFFICES ASSUME IInv PROVE TypeOK
      OBVIOUS
    <2>1. \A r \in Resources : 0 <= counter[r] /\ counter[r] <= sent[r]
      BY DEF IInv, Types, Readings
    <2>2. sample \in Nat /\ (pc # "checking" => sample <= request.samples \/ pc = "failed")
      <3>1. request.samples \in Int /\ sample \in Nat
        BY RequestsAssumption DEF IInv, Types
      <3> QED BY <3>1 DEF IInv, Progress
    <2> QED BY <2>1, <2>2 DEF IInv, Types, Progress, Rows, TypeOK
  <1> QED BY <1>1, Invariance, PTL

-----------------------------------------------------------------------------
(***************************************************************************)
(* What a row has to say of a field.                                       *)
(***************************************************************************)
LEMMA Least ==
    ASSUME NEW S, S \subseteq Nat, S # {}
    PROVE  \E m \in S : \A n \in S : m <= n
  <1> DEFINE T == {0..n : n \in S}
  <1>1. T \subseteq FiniteSubsetsOf(Nat) /\ T # {}
    <2>1. \A n \in S : 0..n \subseteq Nat /\ IsFiniteSet(0..n)
      BY FS_Interval
    <2> QED BY <2>1 DEF FiniteSubsetsOf
  <1>2. \E x \in T : \A y \in T : ~ (<<y, x>> \in StrictSubsetOrdering(Nat))
    <2> HIDE DEF T
    <2> QED BY <1>1, FS_StrictSubsetOrderingWellFounded, WFMin
  <1>3. PICK m \in S : \A n \in S : <<0..n, 0..m>> \notin StrictSubsetOrdering(Nat)
    BY <1>2
  <1>4. ASSUME NEW n \in S PROVE ~(n < m)
    <2>1. n < m => 0..n \subseteq 0..m /\ m \in 0..m /\ m \notin 0..n
      OBVIOUS
    <2>2. 0..n \in SUBSET Nat /\ 0..m \in SUBSET Nat
      OBVIOUS
    <2> QED BY <1>3, <2>1, <2>2 DEF StrictSubsetOrdering
  <1> QED BY <1>4

LEMMA MinIsIn ==
    ASSUME NEW S, S \subseteq Nat, S # {}
    PROVE  Min(S) \in S
  BY Least DEF Min

(* The positions of a spelling that a row has. *)
There(row, name) ==
    {i \in DOMAIN Spellings[name] : Spellings[name][i] \in DOMAIN row}

LEMMA SingleValueIs ==
    ASSUME NEW field \in DOMAIN Names, NEW i \in DOMAIN Names[field],
           NEW row, DOMAIN row \subseteq AllFields
    PROVE  LET name == Names[field][i]
           IN  /\ There(row, name) = {} => SingleValue(row, name) = Null
               /\ There(row, name) # {} =>
                     \E f \in Keys(field) \cap DOMAIN row : SingleValue(row, name) = row[f]
  <1> DEFINE name == Names[field][i]
             there == There(row, name)
  <1>1. SingleValue(row, name) =
           IF there = {} THEN Null ELSE row[Spellings[name][Min(there)]]
    BY DEF SingleValue, There
  <1>2. CASE there # {}
    <2>1. name \in DOMAIN Spellings
      BY SpellingsAssumption
    <2>2. Spellings[name] \in Seq(STRING)
      BY <2>1, SpellingsAssumption
    <2>3. DOMAIN Spellings[name] \subseteq Nat
      BY <2>2
    <2>4. there \subseteq Nat
      BY <2>3 DEF There
    <2>5. Min(there) \in there
      <3> HIDE DEF there
      <3> QED BY <1>2, <2>4, MinIsIn
    <2>6. Min(there) \in DOMAIN Spellings[name] /\ Spellings[name][Min(there)] \in DOMAIN row
      BY <2>5 DEF There
    <2>7. Spellings[name][Min(there)] \in Keys(field)
      BY <2>6 DEF Keys
    <2> QED BY <1>1, <1>2, <2>6, <2>7
  <1> QED BY <1>1, <1>2

(* A field that is looked up under one field of the row has its value. *)
LEMMA FieldValueIs ==
    ASSUME NEW field \in DOMAIN Names, NEW row, DOMAIN row \subseteq AllFields,
           NEW k, Keys(field) \cap DOMAIN row \subseteq {k}
    PROVE  FieldValue(row, field) =
              IF k \in Keys(field) /\ k \in DOMAIN row THEN row[k] ELSE Null
  <1> DEFINE values == [i \in DOMAIN Names[field] |-> SingleValue(row, Names[field][i])]
             known == {i \in DOMAIN values : values[i] # Null}
  <1>1. FieldValue(row, field) = IF known = {} THEN Null ELSE values[Min(known)]
    BY DEF FieldValue
  <1>2. \A i \in DOMAIN Names[field] :
           /\ There(row, Names[field][i]) = {} => values[i] = Null
           /\ There(row, Names[field][i]) # {} =>
                 k \in Keys(field) /\ k \in DOMAIN row /\ values[i] = row[k]
    BY SingleValueIs
  <1>3. known # {} => Min(known) \in known
    <2>1. DOMAIN Names[field] \subseteq Nat
      BY SpellingsAssumption
    <2>2. known \subseteq Nat
      BY <2>1
    <2> HIDE DEF known
    <2> QED BY <2>2, MinIsIn
  <1>4. k \in Keys(field) /\ k \in DOMAIN row =>
           \E i \in DOMAIN Names[field] : There(row, Names[field][i]) # {}
    BY DEF Keys, There
  <1>5. CASE k \in Keys(field) /\ k \in DOMAIN row
    <2>1. CASE row[k] = Null
      BY <1>1, <1>2, <1>5, <2>1
    <2>2. CASE row[k] # Null
      <3>1. known # {}
        BY <1>2, <1>4, <1>5, <2>2
      <3>2. Min(known) \in DOMAIN Names[field] /\ values[Min(known)] # Null
        BY <1>3, <3>1
      <3> QED BY <1>1, <1>2, <1>5, <3>1, <3>2
    <2> QED BY <2>1, <2>2
  <1>6. CASE ~(k \in Keys(field) /\ k \in DOMAIN row)
    BY <1>1, <1>2, <1>6
  <1> QED BY <1>5, <1>6

(* Rows that agree where a field is looked up agree on the field. *)
LEMMA SameFieldValue ==
    ASSUME NEW field \in DOMAIN Names, NEW row, NEW row2,
           DOMAIN row \subseteq AllFields, DOMAIN row2 \subseteq AllFields,
           \A f \in Keys(field) : f \in DOMAIN row <=> f \in DOMAIN row2,
           \A f \in Keys(field) \cap DOMAIN row : row[f] = row2[f]
    PROVE  FieldValue(row, field) = FieldValue(row2, field)
  <1>1. ASSUME NEW i \in DOMAIN Names[field]
        PROVE  SingleValue(row, Names[field][i]) = SingleValue(row2, Names[field][i])
    <2> DEFINE name == Names[field][i]
    <2>1. name \in DOMAIN Spellings
      BY SpellingsAssumption
    <2>2. \A k \in DOMAIN Spellings[name] :
             Spellings[name][k] \in AllFields => Spellings[name][k] \in Keys(field)
      BY DEF Keys
    <2>3. There(row, name) = There(row2, name)
      BY <2>2 DEF There
    <2>4. CASE There(row, name) = {}
      BY <2>3, <2>4 DEF SingleValue, There
    <2>5. CASE There(row, name) # {}
      <3>1. Spellings[name] \in Seq(STRING)
        BY <2>1, SpellingsAssumption
      <3>2. DOMAIN Spellings[name] \subseteq Nat
        BY <3>1
      <3>3. Min(There(row, name)) \in There(row, name)
        <4>1. There(row, name) \subseteq Nat
          BY <3>2 DEF There
        <4> QED BY <2>5, <4>1, MinIsIn
      <3>4. Spellings[name][Min(There(row, name))] \in Keys(field) \cap DOMAIN row
        BY <2>2, <3>3 DEF There
      <3>5. row[Spellings[name][Min(There(row, name))]] = row2[Spellings[name][Min(There(row, name))]]
        BY <3>4
      <3>6. SingleValue(row, name) = row[Spellings[name][Min(There(row, name))]]
        BY <2>5 DEF SingleValue, There
      <3>7. SingleValue(row2, name) = row2[Spellings[name][Min(There(row2, name))]]
        BY <2>3, <2>5 DEF SingleValue, There
      <3> QED BY <2>3, <3>5, <3>6, <3>7
    <2> QED BY <2>4, <2>5
  <1>2. [i \in DOMAIN Names[field] |-> SingleValue(row, Names[field][i])]
           = [i \in DOMAIN Names[field] |-> SingleValue(row2, Names[field][i])]
    BY <1>1
  <1> QED BY <1>2 DEF FieldValue

-----------------------------------------------------------------------------
(***************************************************************************)
(* The rates of a call.                                                    *)
(***************************************************************************)
StampOf(i) == records[i]["timestamp"]

(* The readings that row i could be rated by, the last of them, and the    *)
(* rates that it makes.                                                    *)
Prior(i) == {j \in DOMAIN records : Before(records, j, i) /\ GroupOf(j) = GroupOf(i)}

LastPrior(i) == {j \in Prior(i) : \A k \in Prior(i) \ {j} : Before(records, k, j)}

Made(i) ==
    {<<Count(i) - Count(j), StampOf(i) - StampOf(j)>> : j \in
        {k \in LastPrior(i) : StampOf(i) - StampOf(k) > 0 /\ Count(i) - Count(k) >= 0}}

(* The fields that rates go to. *)
Drawn == {CounterFields[c] : c \in Counters}

LEMMA CountersAre ==
    /\ Counters \subseteq DOMAIN CounterFields
    /\ Drawn \subseteq DOMAIN RateFields
    /\ \A m \in Drawn : m \in OutputMetrics(Metrics, Kind, request.samples, request.rate)
  <1> DEFINE converted == Converted(Metrics, Kind, request.samples, request.rate)
  <1>1. converted \subseteq DOMAIN CounterFields
    BY DEF Converted
  <1>2. Counters = {RateFields[m] : m \in Metrics \cap DOMAIN RateFields} \cup converted
    BY DEF Counters, CountersOf
  <1>3. Counters \subseteq DOMAIN CounterFields
    BY <1>1, <1>2, RatesAssumption
  <1>4. ASSUME NEW c \in Counters
        PROVE  CounterFields[c] \in OutputMetrics(Metrics, Kind, request.samples, request.rate)
    <2>1. CASE c \in converted
      BY <2>1 DEF OutputMetrics
    <2>2. CASE c \notin converted
      <3>1. PICK m \in Metrics \cap DOMAIN RateFields : c = RateFields[m]
        BY <1>2, <2>2
      <3>2. CounterFields[c] = m /\ m \notin DOMAIN CounterFields
        BY <3>1, RatesAssumption
      <3> QED BY <1>1, <3>1, <3>2 DEF OutputMetrics
    <2> QED BY <2>1, <2>2
  <1>5. Drawn \subseteq DOMAIN RateFields
    BY <1>3, RatesAssumption DEF Drawn
  <1> QED BY <1>3, <1>4, <1>5 DEF Drawn

LEMMA RecordIs ==
    ASSUME IInv, NEW i \in DOMAIN records
    PROVE  /\ i \in Nat /\ i \in DOMAIN source
           /\ DOMAIN records[i] = RowFields \cup {"timestamp", "sample"}
           /\ DOMAIN records[i] \subseteq AllFields
           /\ records[i] \in StampedType
           /\ Count(i) = records[i]["rx-byte"] /\ Count(i) \in Nat
           /\ records[i]["name"] = Name[source[i].resource]
           /\ StampOf(i) \in Nat
  <1>1. records[i] \in StampedType /\ i \in Nat /\ i \in 1..Len(records)
    BY DEF IInv, Types
  <1>2. i \in DOMAIN source
    <2>1. source \in Seq(SourceType) /\ Len(source) = Len(records) + Len(reply)
          /\ reply \in Seq(RowType) /\ records \in Seq(StampedType)
      BY DEF IInv, Types
    <2> QED BY <1>1, <2>1
  <1>3. Row(i) = records[i]
    BY <1>1 DEF Row
  <1>4. DOMAIN records[i] = RowFields \cup {"timestamp", "sample"}
    BY <1>1 DEF StampedType
  <1> QED BY <1>1, <1>2, <1>3, <1>4 DEF IInv, Rows, Count, StampOf, AllFields

LEMMA CounterIs ==
    ASSUME IInv, NEW i \in DOMAIN records, NEW c \in DOMAIN CounterFields
    PROVE  Number(records[i], c) = Count(i) /\ Number(records[i], c) # Null
  <1>1. c \in DOMAIN Names /\ Keys(c) = {"rx-byte"}
    BY KeysAssumption
  <1>2. "rx-byte" \in DOMAIN records[i] /\ DOMAIN records[i] \subseteq AllFields
    BY RecordIs DEF RowFields
  <1>3. FieldValue(records[i], c) = records[i]["rx-byte"]
    BY <1>1, <1>2, FieldValueIs
  <1>4. Count(i) = records[i]["rx-byte"] /\ Count(i) \in Nat
    BY RecordIs
  <1> QED BY <1>3, <1>4, ValuesAssumption DEF Number

LEMMA RatesAre ==
    ASSUME IInv, NEW i \in DOMAIN records, NEW c \in DOMAIN CounterFields
    PROVE  Rates(records, c, Group, i) = Made(i)
  <1>1. Earlier(records, c, Group, i) = Prior(i)
    BY CounterIs DEF Earlier, Prior, GroupOf
  <1>2. Previous(records, c, Group, i) = LastPrior(i)
    BY <1>1 DEF Previous, LastPrior
  <1>3. \A j \in LastPrior(i) : j \in DOMAIN records /\ Number(records[j], c) = Count(j)
    BY CounterIs DEF LastPrior, Prior
  <1>4. Number(records[i], c) = Count(i) /\ Number(records[i], c) # Null
    BY CounterIs
  <1>5. Rates(records, c, Group, i) =
          {<<Number(records[i], c) - Number(records[j], c), StampOf(i) - StampOf(j)>> : j \in
             {k \in LastPrior(i) : StampOf(i) - StampOf(k) > 0
                                    /\ Number(records[i], c) - Number(records[k], c) >= 0}}
    BY <1>2, <1>4 DEF Rates, StampOf
  <1> QED BY <1>3, <1>4, <1>5 DEF Made

(* A rate is of one earlier reading, the last of its group. *)
LEMMA MadeIs ==
    ASSUME IInv, NEW i \in DOMAIN records, NEW rate \in Made(i)
    PROVE  \E j \in LastPrior(i) :
              /\ j \in DOMAIN records /\ GroupOf(j) = GroupOf(i)
              /\ rate = <<Count(i) - Count(j), StampOf(i) - StampOf(j)>>
              /\ StampOf(j) < StampOf(i) /\ Count(j) <= Count(i)
              /\ rate \in Int \X Int
  <1>1. PICK j \in LastPrior(i) :
            /\ StampOf(i) - StampOf(j) > 0 /\ Count(i) - Count(j) >= 0
            /\ rate = <<Count(i) - Count(j), StampOf(i) - StampOf(j)>>
    BY DEF Made
  <1>2. j \in DOMAIN records /\ GroupOf(j) = GroupOf(i)
    BY DEF LastPrior, Prior
  <1>3. Count(i) \in Nat /\ Count(j) \in Nat /\ StampOf(i) \in Nat /\ StampOf(j) \in Nat
    BY <1>2, RecordIs
  <1>4. StampOf(j) < StampOf(i) /\ Count(j) <= Count(i)
    BY <1>1, <1>3
  <1>5. rate \in Int \X Int
    BY <1>1, <1>3
  <1> QED BY <1>1, <1>2, <1>4, <1>5

(* Of the rows of one group that have one stamp, one makes a rate. *)
LEMMA OneAtATime ==
    ASSUME IInv, NEW i \in DOMAIN records, NEW k \in DOMAIN records,
           Made(i) # {}, Made(k) # {}, GroupOf(i) = GroupOf(k), StampOf(i) = StampOf(k)
    PROVE  i = k
  <1>1. ASSUME NEW a \in DOMAIN records, NEW b \in DOMAIN records, a < b,
               Made(b) # {}, GroupOf(a) = GroupOf(b), StampOf(a) = StampOf(b)
        PROVE  FALSE
    <2>1. PICK j \in LastPrior(b) : j \in DOMAIN records /\ StampOf(j) < StampOf(b)
      BY <1>1, MadeIs
    <2>2. a \in Prior(b)
      BY <1>1 DEF Prior, Before, StampOf
    <2>3. a = j \/ Before(records, a, j)
      BY <2>2 DEF LastPrior
    <2>4. StampOf(a) \in Nat /\ StampOf(j) \in Nat /\ StampOf(b) \in Nat
      BY <2>1, RecordIs
    <2>5. StampOf(a) <= StampOf(j)
      BY <2>3, <2>4 DEF Before, StampOf
    <2> QED BY <1>1, <2>1, <2>4, <2>5
  <1>2. i \in Nat /\ k \in Nat
    BY RecordIs
  <1> QED BY <1>1, <1>2

-----------------------------------------------------------------------------
(***************************************************************************)
(* The rows that lines are drawn of.                                       *)
(***************************************************************************)
LEMMA AllRatesAre ==
    ASSUME IInv, NEW t
    PROVE  t \in AllRates(records, Counters, Group, CounterFields) <=>
              \E i \in DOMAIN records, c \in Counters :
                 \E rate \in Made(i) : t = <<i, CounterFields[c], rate>>
  <1> DEFINE made(i, c) == {<<i, CounterFields[c], rate>> : rate \in Rates(records, c, Group, i)}
             sets == {made(i, c) : i \in DOMAIN records, c \in Counters}
  <1>1. t \in AllRates(records, Counters, Group, CounterFields) <=>
           \E i \in DOMAIN records, c \in Counters : t \in made(i, c)
    <2>1. AllRates(records, Counters, Group, CounterFields) = UNION sets
      BY DEF AllRates
    <2>2. \A S : S \in sets <=> \E i \in DOMAIN records, c \in Counters : S = made(i, c)
      OBVIOUS
    <2> HIDE DEF made, sets
    <2>3. t \in UNION sets <=> \E S \in sets : t \in S
      OBVIOUS
    <2> QED BY <2>1, <2>2, <2>3
  <1>2. \A i \in DOMAIN records, c \in Counters : Rates(records, c, Group, i) = Made(i)
    BY CountersAre, RatesAre
  <1> QED BY <1>1, <1>2

(* A row is kept if it makes a rate, with that rate for each counter.      *)
LEMMA PreparedIs ==
    ASSUME IInv, Counters # {}
    PROVE  /\ DOMAIN Prepared = {i \in DOMAIN records : Made(i) # {}}
           /\ \A i \in DOMAIN Prepared :
                 /\ DOMAIN Prepared[i] = DOMAIN records[i] \cup Drawn
                 /\ \A f \in Drawn : Prepared[i][f] \in Made(i)
                 /\ \A f \in DOMAIN records[i] \ Drawn : Prepared[i][f] = records[i][f]
  <1> DEFINE rates == AllRates(records, Counters, Group, CounterFields)
             fields(i) == {t[2] : t \in {u \in rates : u[1] = i}}
             made(i) == [f \in fields(i) |-> (CHOOSE t \in rates : t[1] = i /\ t[2] = f)[3]]
  <1>1. Prepared = [i \in {t[1] : t \in rates} |-> Update(records[i], made(i))]
    BY DEF Prepared, CounterRateRecords
  <1>2. \A t \in rates : \E i \in DOMAIN records, c \in Counters :
           \E rate \in Made(i) : t = <<i, CounterFields[c], rate>>
    BY AllRatesAre
  <1>3. \A i \in DOMAIN records, c \in Counters : \A rate \in Made(i) :
           <<i, CounterFields[c], rate>> \in rates
    BY AllRatesAre
  <1> HIDE DEF rates
  <1>4. {t[1] : t \in rates} = {i \in DOMAIN records : Made(i) # {}}
    <2>1. \A t \in rates : t[1] \in DOMAIN records /\ Made(t[1]) # {}
      BY <1>2
    <2>2. ASSUME NEW i \in DOMAIN records, Made(i) # {}
          PROVE  \E t \in rates : t[1] = i
      <3>1. PICK c \in Counters, rate \in Made(i) : TRUE
        BY <2>2
      <3>2. <<i, CounterFields[c], rate>> \in rates /\ <<i, CounterFields[c], rate>>[1] = i
        BY <1>3
      <3> QED BY <3>2
    <2> QED BY <2>1, <2>2
  <1>5. DOMAIN Prepared = {i \in DOMAIN records : Made(i) # {}}
    BY <1>1, <1>4
  <1>6. ASSUME NEW i \in DOMAIN records, Made(i) # {}
        PROVE  /\ fields(i) = Drawn
               /\ \A f \in Drawn : made(i)[f] \in Made(i)
    <2>1. PICK rate \in Made(i) : TRUE
      BY <1>6
    <2>2. ASSUME NEW f \in Drawn
          PROVE  \E t \in rates : t[1] = i /\ t[2] = f
      <3>1. PICK c \in Counters : f = CounterFields[c]
        BY DEF Drawn
      <3>2. <<i, f, rate>> \in rates
        BY <1>3, <2>1, <3>1
      <3> QED BY <3>2
    <2>3. ASSUME NEW t \in rates, t[1] = i
          PROVE  t[2] \in Drawn /\ t[3] \in Made(i)
      BY <1>2, <2>3 DEF Drawn
    <2>4. fields(i) = Drawn
      BY <2>2, <2>3
    <2>5. ASSUME NEW f \in Drawn
          PROVE  made(i)[f] \in Made(i)
      <3>1. (CHOOSE t \in rates : t[1] = i /\ t[2] = f) \in rates
            /\ (CHOOSE t \in rates : t[1] = i /\ t[2] = f)[1] = i
        BY <2>2
      <3> QED BY <2>3, <2>4, <3>1
    <2> QED BY <2>4, <2>5
  <1>7. ASSUME NEW i \in DOMAIN Prepared
        PROVE  /\ DOMAIN Prepared[i] = DOMAIN records[i] \cup Drawn
               /\ \A f \in Drawn : Prepared[i][f] \in Made(i)
               /\ \A f \in DOMAIN records[i] \ Drawn : Prepared[i][f] = records[i][f]
    <2>1. i \in DOMAIN records /\ Made(i) # {}
      BY <1>5
    <2>2. Prepared[i] = Update(records[i], made(i))
      BY <1>1, <1>4, <2>1
    <2>3. DOMAIN made(i) = Drawn /\ \A f \in Drawn : made(i)[f] \in Made(i)
      BY <1>6, <2>1
    <2> HIDE DEF made
    <2> QED BY <2>2, <2>3 DEF Update
  <1> QED BY <1>5, <1>7

(* Preparing a row leaves its stamp and its group as they are. *)
LEMMA PreparedKeeps ==
    ASSUME IInv, Counters # {}, NEW i \in DOMAIN Prepared
    PROVE  /\ i \in DOMAIN records /\ Made(i) # {}
           /\ Prepared[i]["timestamp"] = StampOf(i)
           /\ SeriesGroup(Prepared[i], Group) = GroupOf(i)
           /\ \A m \in DOMAIN RateFields :
                 /\ m \in DOMAIN Prepared[i] <=> m \in Drawn
                 /\ Number(Prepared[i], m) =
                       IF m \in Drawn THEN Prepared[i][m] ELSE Null
                 /\ m \in Drawn => Prepared[i][m] \in Made(i) /\ Prepared[i][m] # Null
  <1>1. i \in DOMAIN records /\ Made(i) # {}
    BY PreparedIs
  <1>2. /\ DOMAIN records[i] = RowFields \cup {"timestamp", "sample"}
        /\ DOMAIN records[i] \cap DOMAIN RateFields = {}
        /\ DOMAIN records[i] \subseteq AllFields
    BY <1>1, RecordIs, KeysAssumption
  <1>3. /\ DOMAIN Prepared[i] = DOMAIN records[i] \cup Drawn
        /\ \A f \in DOMAIN records[i] : Prepared[i][f] = records[i][f]
        /\ DOMAIN Prepared[i] \subseteq AllFields
    BY <1>2, PreparedIs, CountersAre DEF AllFields
  <1>4. Prepared[i]["timestamp"] = StampOf(i)
    BY <1>2, <1>3 DEF StampOf
  <1>5. SeriesGroup(Prepared[i], Group) = GroupOf(i)
    <2>1. CASE Group = Null
      BY <2>1 DEF SeriesGroup, GroupOf
    <2>2. CASE Group # Null
      <3>1. Group \in DOMAIN Names /\ Keys(Group) \cap DOMAIN RateFields = {}
        <4>1. request \in Requests
          BY DEF IInv, Types
        <4>2. "name" \notin DOMAIN RateFields
          BY KeysAssumption DEF RowFields
        <4> QED BY <2>2, <4>1, <4>2, RequestsAssumption, KeysAssumption DEF Group, DefaultGroup
      <3>2. \A f \in Keys(Group) : f \in DOMAIN Prepared[i] <=> f \in DOMAIN records[i]
        BY <1>3, <3>1, CountersAre
      <3>3. \A f \in Keys(Group) \cap DOMAIN Prepared[i] : Prepared[i][f] = records[i][f]
        BY <1>3, <3>2
      <3>4. FieldValue(Prepared[i], Group) = FieldValue(records[i], Group)
        BY <1>2, <1>3, <3>1, <3>2, <3>3, SameFieldValue
      <3> QED BY <3>4 DEF SeriesGroup, GroupOf
    <2> QED BY <2>1, <2>2
  <1>6. ASSUME NEW m \in DOMAIN RateFields
        PROVE  /\ m \in DOMAIN Prepared[i] <=> m \in Drawn
               /\ Number(Prepared[i], m) = IF m \in Drawn THEN Prepared[i][m] ELSE Null
               /\ m \in Drawn => Prepared[i][m] \in Made(i) /\ Prepared[i][m] # Null
    <2>1. m \in DOMAIN Names /\ Keys(m) = {m}
      BY KeysAssumption
    <2>2. FieldValue(Prepared[i], m) =
             IF m \in Keys(m) /\ m \in DOMAIN Prepared[i] THEN Prepared[i][m] ELSE Null
      BY <1>3, <2>1, FieldValueIs
    <2>3. m \in DOMAIN Prepared[i] <=> m \in Drawn
      BY <1>2, <1>3
    <2>4. m \in Drawn => Prepared[i][m] \in Made(i)
      BY PreparedIs
    <2>5. m \in Drawn => Prepared[i][m] \in Int \X Int
      BY <1>1, <2>4, MadeIs
    <2> QED BY <2>1, <2>2, <2>3, <2>4, <2>5, ValuesAssumption DEF Number
  <1> QED BY <1>1, <1>4, <1>5, <1>6

(* A point of a series is of the last row with its stamp. *)
SeriesIs(points, rows, g, s) ==
    /\ DOMAIN points = {rows[i]["timestamp"] : i \in Plotted(rows, g, s)}
    /\ \A t \in DOMAIN points :
          points[t] = Number(rows[Latest({i \in Plotted(rows, g, s) :
                                             rows[i]["timestamp"] = t}, rows)], s[2])

LEMMA LineGraphIs ==
    ASSUME NEW rows, NEW metrics, NEW g
    PROVE  LET line == LineGraph(rows, metrics, g)
           IN  /\ \A s : s \in DOMAIN line.series <=>
                     \E i \in DOMAIN rows : \E m \in metrics :
                         Number(rows[i], m) # Null /\ s = <<SeriesGroup(rows[i], g), m>>
               /\ \A s \in DOMAIN line.series : SeriesIs(line.series[s], rows, g, s)
  <1>1. \A s : s \in DOMAIN LineGraph(rows, metrics, g).series <=>
           \E i \in DOMAIN rows : \E m \in metrics :
               Number(rows[i], m) # Null /\ s = <<SeriesGroup(rows[i], g), m>>
    BY DEF LineGraph, SeriesName
  <1>2. ASSUME NEW s \in DOMAIN LineGraph(rows, metrics, g).series
        PROVE  LineGraph(rows, metrics, g).series[s] =
                  [t \in {rows[i]["timestamp"] : i \in Plotted(rows, g, s)} |->
                      Number(rows[Latest({i \in Plotted(rows, g, s) :
                                             rows[i]["timestamp"] = t}, rows)], s[2])]
    BY DEF LineGraph
  <1>3. ASSUME NEW s \in DOMAIN LineGraph(rows, metrics, g).series
        PROVE  SeriesIs(LineGraph(rows, metrics, g).series[s], rows, g, s)
    BY <1>2 DEF SeriesIs
  <1> QED BY <1>1, <1>3

(***************************************************************************)
(* The series of rates of a line.                                          *)
(***************************************************************************)
Dots(s) == {i \in DOMAIN Prepared : GroupOf(i) = s[1]}

LEMMA RateSeriesAre ==
    ASSUME IInv, Counters # {}, NEW line, line = LineOf(Prepared)
    PROVE  /\ \A s : s \in RateSeries(line) <=>
                 \E i \in DOMAIN Prepared, m \in Drawn : s = <<GroupOf(i), m>>
           /\ \A s \in RateSeries(line) :
                 /\ s[2] \in Drawn
                 /\ DOMAIN line.series[s] = {StampOf(i) : i \in Dots(s)}
                 /\ \A i \in Dots(s) :
                       line.series[s][StampOf(i)] \in Made(i)
  <1> DEFINE metrics == OutputMetrics(Metrics, Kind, request.samples, request.rate)
  <1>1. line = LineGraph(Prepared, metrics, Group)
    BY DEF LineOf
  <1>2. \A s : s \in DOMAIN line.series <=>
           \E i \in DOMAIN Prepared : \E m \in metrics :
               Number(Prepared[i], m) # Null /\ s = <<SeriesGroup(Prepared[i], Group), m>>
    BY <1>1, LineGraphIs
  <1>3. \A s \in DOMAIN line.series : SeriesIs(line.series[s], Prepared, Group, s)
    BY <1>1, LineGraphIs
  <1> HIDE DEF metrics
  <1>4. Drawn \subseteq metrics /\ Drawn \subseteq DOMAIN RateFields
    BY CountersAre DEF metrics
  <1>5. \A i \in DOMAIN Prepared : \A m \in DOMAIN RateFields :
           /\ SeriesGroup(Prepared[i], Group) = GroupOf(i)
           /\ Number(Prepared[i], m) # Null <=> m \in Drawn
    BY PreparedKeeps
  <1>6. ASSUME NEW s
        PROVE  s \in RateSeries(line) <=>
                  \E i \in DOMAIN Prepared, m \in Drawn : s = <<GroupOf(i), m>>
    <2>1. ASSUME s \in RateSeries(line)
          PROVE  \E i \in DOMAIN Prepared, m \in Drawn : s = <<GroupOf(i), m>>
      <3>1. s \in DOMAIN line.series /\ s[2] \in DOMAIN RateFields
        BY <2>1 DEF RateSeries
      <3>2. PICK i \in DOMAIN Prepared, m \in metrics :
                Number(Prepared[i], m) # Null /\ s = <<SeriesGroup(Prepared[i], Group), m>>
        BY <1>2, <3>1
      <3>3. m \in DOMAIN RateFields
        BY <3>1, <3>2
      <3> QED BY <1>5, <3>2, <3>3
    <2>2. ASSUME NEW i \in DOMAIN Prepared, NEW m \in Drawn, s = <<GroupOf(i), m>>
          PROVE  s \in RateSeries(line)
      <3>1. Number(Prepared[i], m) # Null /\ s = <<SeriesGroup(Prepared[i], Group), m>>
        BY <1>4, <1>5, <2>2
      <3>2. s \in DOMAIN line.series
        BY <1>2, <1>4, <3>1
      <3> QED BY <1>4, <2>2, <3>2 DEF RateSeries
    <2> QED BY <2>1, <2>2
  <1>7. ASSUME NEW s \in RateSeries(line)
        PROVE  /\ s[2] \in Drawn
               /\ DOMAIN line.series[s] = {StampOf(i) : i \in Dots(s)}
               /\ \A i \in Dots(s) : line.series[s][StampOf(i)] \in Made(i)
    <2>1. s \in DOMAIN line.series /\ s[2] \in Drawn
      BY <1>6 DEF RateSeries
    <2>2. \A i \in DOMAIN Prepared :
             /\ Prepared[i]["timestamp"] = StampOf(i)
             /\ i \in DOMAIN records /\ Made(i) # {}
      BY PreparedKeeps
    <2>3. Plotted(Prepared, Group, s) = Dots(s)
      BY <1>4, <1>5, <2>1 DEF Plotted, Dots
    <2>4. DOMAIN line.series[s] = {StampOf(i) : i \in Dots(s)}
      <3>1. DOMAIN line.series[s] = {Prepared[i]["timestamp"] : i \in Dots(s)}
        BY <1>3, <2>1, <2>3 DEF SeriesIs
      <3>2. \A i \in Dots(s) : Prepared[i]["timestamp"] = StampOf(i)
        BY <2>2 DEF Dots
      <3> QED BY <3>1, <3>2
    <2>5. ASSUME NEW i \in Dots(s)
          PROVE  line.series[s][StampOf(i)] \in Made(i)
      <3> DEFINE same == {j \in Dots(s) : Prepared[j]["timestamp"] = StampOf(i)}
      <3>1. \A j \in same : j = i
        <4>1. ASSUME NEW j \in same PROVE j = i
          <5>1. /\ j \in DOMAIN records /\ i \in DOMAIN records
                /\ Made(j) # {} /\ Made(i) # {}
                /\ GroupOf(j) = GroupOf(i) /\ StampOf(j) = StampOf(i)
            BY <2>2 DEF Dots
          <5> QED BY <5>1, OneAtATime
        <4> QED BY <4>1
      <3>2. same = {i}
        BY <2>2, <3>1 DEF Dots
      <3>3. Latest(same, Prepared) = i
        <4> HIDE DEF same
        <4> QED BY <3>2 DEF Latest
      <3>4. line.series[s][StampOf(i)] = Number(Prepared[Latest(same, Prepared)], s[2])
        <4>1. StampOf(i) \in DOMAIN line.series[s]
          BY <2>4
        <4>2. SeriesIs(line.series[s], Prepared, Group, s)
          BY <1>3, <2>1
        <4> QED BY <2>3, <4>1, <4>2 DEF SeriesIs
      <3>5. Number(Prepared[i], s[2]) \in Made(i)
        BY <1>4, <2>1, PreparedKeeps DEF Dots
      <3> QED BY <3>3, <3>4, <3>5
    <2> QED BY <2>1, <2>4, <2>5
  <1> QED BY <1>6, <1>7

(* Two readings of one group are of one resource, the earlier one first.   *)
LEMMA Ordered ==
    ASSUME IInv, setBacks = 0, NEW i \in DOMAIN records, NEW j \in DOMAIN records,
           StampOf(j) < StampOf(i)
    PROVE  j < i
  <1>1. i \in Nat /\ j \in Nat /\ StampOf(i) \in Nat /\ StampOf(j) \in Nat
    BY RecordIs
  <1>2. i < j => StampOf(i) <= StampOf(j)
    BY DEF IInv, Stamps, StampOf
  <1> QED BY <1>1, <1>2

LEMMA SameGroup ==
    ASSUME Identified, NEW i \in DOMAIN records, NEW j \in DOMAIN records
    PROVE  GroupOf(i) = GroupOf(j) <=> source[i].resource = source[j].resource
  <1> DEFINE pair(k) == <<GroupOf(k), source[k].resource>>
             pairs == {pair(k) : k \in DOMAIN records}
  <1>1. \A p, q \in pairs : p[1] = q[1] <=> p[2] = q[2]
    BY DEF Identified
  <1>2. pair(i) \in pairs /\ pair(j) \in pairs
    OBVIOUS
  <1> HIDE DEF pairs
  <1>3. pair(i)[1] = pair(j)[1] <=> pair(i)[2] = pair(j)[2]
    BY <1>1, <1>2
  <1> QED BY <1>3

(* Of two readings of a resource, the later one has counted no more than   *)
(* was sent in between, and as much if there was no reset.                 *)
LEMMA Between ==
    ASSUME IInv, NEW i \in DOMAIN records, NEW j \in DOMAIN records, j < i,
           source[i].resource = source[j].resource
    PROVE  /\ Count(i) - Count(j) <= source[i].sent - source[j].sent
           /\ source[i].resets = source[j].resets => Count(j) <= Count(i)
  <1>1. Follows(Count(j), source[j].sent, source[j].resets,
                Count(i), source[i].sent, source[i].resets)
    BY RecordIs DEF IInv, Readings
  <1>2. /\ Count(i) \in Nat /\ Count(j) \in Nat
        /\ source[i].sent \in Nat /\ source[j].sent \in Nat
        /\ source[i].resets \in Nat /\ source[j].resets \in Nat
    BY RecordIs, SourceTyped DEF IInv
  <1> QED BY <1>1, <1>2 DEF Follows

LEMMA NeverOverstatesState == IInv => RateNeverOverstates
  <1> SUFFICES ASSUME IInv, RatesDrawn, Identified, setBacks = 0,
                      NEW line, line = LineOf(Prepared), NEW s \in RateSeries(line),
                      NEW t \in DOMAIN line.series[s]
               PROVE  \E i, j \in DOMAIN records :
                         /\ GroupOf(i) = s[1]
                         /\ source[i].resource = source[j].resource
                         /\ records[i]["timestamp"] = t
                         /\ records[j]["timestamp"] = t - line.series[s][t][2]
                         /\ 0 <= line.series[s][t][1]
                         /\ line.series[s][t][1] <= source[i].sent - source[j].sent
    BY DEF RateNeverOverstates, Lines
  <1>1. Counters # {}
    BY DEF RatesDrawn
  <1>2. PICK i \in Dots(s) : t = StampOf(i) /\ line.series[s][t] \in Made(i)
    BY <1>1, RateSeriesAre
  <1>3. i \in DOMAIN records /\ GroupOf(i) = s[1]
    BY <1>1, PreparedIs DEF Dots
  <1> DEFINE rate == line.series[s][t]
  <1>4. PICK j \in DOMAIN records :
            /\ GroupOf(j) = GroupOf(i)
            /\ rate = <<Count(i) - Count(j), StampOf(i) - StampOf(j)>>
            /\ StampOf(j) < StampOf(i) /\ Count(j) <= Count(i)
    BY <1>2, <1>3, MadeIs
  <1> HIDE DEF rate
  <1>5. source[i].resource = source[j].resource
    BY <1>3, <1>4, SameGroup
  <1>6. j < i
    BY <1>3, <1>4, Ordered
  <1>7. Count(i) - Count(j) <= source[i].sent - source[j].sent
    BY <1>3, <1>5, <1>6, Between
  <1>8. Count(i) \in Nat /\ Count(j) \in Nat /\ StampOf(i) \in Nat /\ StampOf(j) \in Nat
    BY <1>3, RecordIs
  <1>9. 0 <= rate[1] /\ rate[1] <= source[i].sent - source[j].sent /\ StampOf(j) = t - rate[2]
    BY <1>2, <1>4, <1>7, <1>8
  <1>10. records[i]["timestamp"] = t /\ records[j]["timestamp"] = t - rate[2]
    BY <1>2, <1>9 DEF StampOf
  <1> QED BY <1>3, <1>5, <1>9, <1>10 DEF rate

(* A rate drawn is never more than the traffic there was between the two   *)
(* readings it is made from, for any resources, listings, resets and       *)
(* number of samples.                                                      *)
THEOREM NeverOverstates == Spec => []RateNeverOverstates
  BY NeverOverstatesState, Invariance, PTL

LEMMA ResumeState == IInv => RatesResume
  <1> SUFFICES ASSUME IInv, RatesDrawn, Identified, setBacks = 0,
                      NEW line, line = LineOf(Prepared),
                      NEW i \in DOMAIN records, NEW j \in DOMAIN records,
                      source[j].resource = source[i].resource,
                      source[j].resets = source[i].resets,
                      records[j]["timestamp"] < records[i]["timestamp"],
                      \A k \in j+1..i-1 : source[k].resource # source[i].resource
               PROVE  \E s \in RateSeries(line) :
                         /\ s[1] = GroupOf(i)
                         /\ records[i]["timestamp"] \in DOMAIN line.series[s]
    BY DEF RatesResume, Lines
  <1>1. Counters # {}
    BY DEF RatesDrawn
  <1>2. StampOf(j) < StampOf(i) /\ j < i
    <2>1. StampOf(j) < StampOf(i)
      BY DEF StampOf
    <2> QED BY <2>1, Ordered
  <1>3. GroupOf(j) = GroupOf(i)
    BY SameGroup
  <1>4. j \in LastPrior(i)
    <2>1. j \in Prior(i)
      BY <1>2, <1>3 DEF Prior, Before, StampOf
    <2>2. ASSUME NEW k \in Prior(i), k # j
          PROVE  Before(records, k, j)
      <3>1. k \in DOMAIN records /\ GroupOf(k) = GroupOf(i) /\ Before(records, k, i)
        BY DEF Prior
      <3>2. source[k].resource = source[i].resource
        BY <3>1, SameGroup
      <3>3. i \in Nat /\ j \in Nat /\ k \in Nat
        BY <3>1, RecordIs
      <3>4. k < i
        BY <3>1, <3>3, Ordered DEF Before, StampOf
      <3>5. k < j
        BY <2>2, <3>2, <3>3, <3>4
      <3>6. records[k]["timestamp"] <= records[j]["timestamp"]
        BY <3>1, <3>5 DEF IInv, Stamps
      <3>7. records[k]["timestamp"] \in Nat /\ records[j]["timestamp"] \in Nat
        BY <3>1, RecordIs DEF StampOf
      <3> QED BY <3>5, <3>6, <3>7 DEF Before
    <2> QED BY <2>1, <2>2 DEF LastPrior
  <1>5. Count(j) <= Count(i)
    BY <1>2, Between
  <1>6. Made(i) # {}
    <2>1. Count(i) \in Nat /\ Count(j) \in Nat /\ StampOf(i) \in Nat /\ StampOf(j) \in Nat
      BY RecordIs
    <2>2. StampOf(i) - StampOf(j) > 0 /\ Count(i) - Count(j) >= 0
      BY <1>2, <1>5, <2>1
    <2>3. <<Count(i) - Count(j), StampOf(i) - StampOf(j)>> \in Made(i)
      BY <1>4, <2>2 DEF Made
    <2> QED BY <2>3
  <1>7. i \in DOMAIN Prepared
    BY <1>1, <1>6, PreparedIs
  <1>8. PICK m \in Drawn : TRUE
    BY <1>1 DEF Drawn
  <1> DEFINE s == <<GroupOf(i), m>>
  <1>9. s \in RateSeries(line) /\ s[1] = GroupOf(i)
    BY <1>1, <1>7, RateSeriesAre
  <1> HIDE DEF s
  <1>10. i \in Dots(s)
    BY <1>7, <1>9 DEF Dots
  <1>11. StampOf(i) \in DOMAIN line.series[s]
    BY <1>1, <1>9, <1>10, RateSeriesAre
  <1> QED BY <1>9, <1>11 DEF StampOf

(* A reset costs one rate at most: two readings in a row with no reset in  *)
(* between make a rate, whatever was before them.                          *)
THEOREM Resume == Spec => []RatesResume
  BY ResumeState, Invariance, PTL

LEMMA SameCount ==
    ASSUME NEW S, IsFiniteSet(S), NEW T, NEW f \in [S -> T],
           \A x, y \in S : f[x] = f[y] => x = y,
           \A z \in T : \E x \in S : f[x] = z
    PROVE  Cardinality(T) = Cardinality(S)
  <1>1. f \in Bijection(S, T)
    BY DEF Bijection, Injection, Surjection, IsInjective
  <1> QED BY <1>1, FS_Bijection DEF ExistsBijection

LEMMA NoRateHiddenState == IInv => NoRateHidden
  <1> SUFFICES ASSUME IInv, RatesDrawn,
                      NEW line, line = LineOf(Prepared), NEW s \in RateSeries(line)
               PROVE  Cardinality(DOMAIN line.series[s]) =
                         Cardinality({i \in DOMAIN Prepared :
                                        GroupOf(i) = s[1] /\ s[2] \in DOMAIN Prepared[i]})
    BY DEF NoRateHidden
  <1>1. Counters # {}
    BY DEF RatesDrawn
  <1>2. s[2] \in Drawn /\ DOMAIN line.series[s] = {StampOf(i) : i \in Dots(s)}
    BY <1>1, RateSeriesAre
  <1>3. {i \in DOMAIN Prepared : GroupOf(i) = s[1] /\ s[2] \in DOMAIN Prepared[i]} = Dots(s)
    BY <1>1, <1>2, PreparedIs DEF Dots
  <1>4. IsFiniteSet(Dots(s))
    <2>1. records \in Seq(StampedType)
      BY DEF IInv, Types
    <2>2. DOMAIN records = 1..Len(records) /\ Len(records) \in Nat
      BY <2>1
    <2>3. Dots(s) \subseteq DOMAIN records
      BY <1>1, PreparedIs DEF Dots
    <2>4. 1..Len(records) \in SUBSET Int /\ IsFiniteSet(1..Len(records))
      BY <2>2, FS_Interval
    <2> QED BY <2>2, <2>3, <2>4, FS_Subset
  <1> DEFINE stamps == [i \in Dots(s) |-> StampOf(i)]
  <1>5. stamps \in [Dots(s) -> DOMAIN line.series[s]]
    BY <1>2
  <1>6. \A i, k \in Dots(s) : stamps[i] = stamps[k] => i = k
    <2>1. \A i \in Dots(s) : i \in DOMAIN records /\ Made(i) # {} /\ GroupOf(i) = s[1]
      BY <1>1, PreparedIs DEF Dots
    <2> QED BY <2>1, OneAtATime
  <1>7. \A t \in DOMAIN line.series[s] : \E i \in Dots(s) : stamps[i] = t
    BY <1>2
  <1> HIDE DEF stamps
  <1>8. Cardinality(DOMAIN line.series[s]) = Cardinality(Dots(s))
    BY <1>4, <1>5, <1>6, <1>7, SameCount
  <1> QED BY <1>3, <1>8

LEMMA LatestBarsState ==
    ASSUME IInv, LatestBars, NEW i \in DOMAIN records, LastSample(i)
    PROVE  Bars.bars[FieldValue(records[i], "interface")] = Number(records[i], request.metrics[1])
  <1> DEFINE metric == request.metrics[1]
             label(k) == FieldValue(records[k], "interface")
  <1>1. /\ metric \in DOMAIN CounterFields /\ metric # Null
        /\ "interface" \in DOMAIN Names /\ "interface" # Null
        /\ Identified /\ Group = "interface" /\ ~request.count /\ request.aggregate = Null
    BY KeysAssumption, SpellingsAssumption, ValuesAssumption DEF LatestBars
  <1>2. BarField = "interface" /\ BarMetric = metric /\ BarAggregate = "latest"
    BY <1>1 DEF BarField, BarMetric, BarAggregate
  <1>3. ASSUME NEW k \in DOMAIN records
        PROVE  /\ label(k) # Null /\ GroupOf(k) = label(k)
               /\ Number(records[k], metric) # Null
    <2>1. FieldValue(records[k], "interface") = records[k]["name"]
      <3>1. Keys("interface") = {"name"} /\ "name" \in DOMAIN records[k]
            /\ DOMAIN records[k] \subseteq AllFields
        BY KeysAssumption, RecordIs DEF RowFields
      <3> QED BY <1>1, <3>1, FieldValueIs
    <2>2. records[k]["name"] # Null
      <3>1. records[k]["name"] = Name[source[k].resource] /\ source[k].resource \in Resources
        BY RecordIs, SourceTyped DEF IInv
      <3> QED BY <3>1, ResourcesAssumption, ValuesAssumption
    <2>3. GroupOf(k) = label(k)
      BY <1>1, <2>1, <2>2 DEF GroupOf, SeriesGroup
    <2> QED BY <1>1, <2>1, <2>2, <2>3, CounterIs
  <1>4. Barred(records, BarField, BarMetric) = DOMAIN records
    BY <1>1, <1>2, <1>3 DEF Barred, BarValue
  <1> DEFINE rows == {k \in DOMAIN records : label(k) = label(i)}
             values == [k \in rows |-> Number(records[k], metric)]
  <1>5. Bars.bars[label(i)] = Aggregate("latest", values)
    <2>1. Bars.bars = [l \in {FieldValue(records[k], BarField) :
                                 k \in Barred(records, BarField, BarMetric)} |->
                         Aggregate(BarAggregate,
                            [k \in {k \in Barred(records, BarField, BarMetric) :
                                       FieldValue(records[k], BarField) = l} |->
                               BarValue(records[k], BarMetric)])]
      BY DEF Bars, BarGraph
    <2>2. label(i) \in {FieldValue(records[k], "interface") : k \in DOMAIN records}
      OBVIOUS
    <2>3. \A k \in rows : BarValue(records[k], metric) = Number(records[k], metric)
      BY <1>1 DEF BarValue
    <2>4. [k \in rows |-> BarValue(records[k], metric)] = values
      BY <2>3
    <2> QED BY <1>2, <1>4, <2>1, <2>2, <2>4
  <1>6. Aggregate("latest", values) = values[Max(rows)]
    BY DEF Aggregate
  <1>7. Max(rows) = i
    <2>1. ASSUME NEW k \in rows PROVE i >= k
      <3>1. source[k].resource = source[i].resource
        BY <1>1, <1>3, SameGroup
      <3>2. source[k].sample <= source[i].sample
        BY <3>1 DEF LastSample
      <3>3. k \in DOMAIN source /\ i \in DOMAIN source /\ k \in Nat /\ i \in Nat
        BY RecordIs
      <3>4. i < k => source[i].sample < source[k].sample
        BY <3>1, <3>3 DEF IInv, Samples
      <3>5. source[i].sample \in Nat /\ source[k].sample \in Nat
        BY <3>3, SourceTyped DEF IInv
      <3> QED BY <3>2, <3>3, <3>4, <3>5
    <2>2. i \in rows /\ rows \subseteq Nat
      BY RecordIs
    <2> HIDE DEF rows
    <2> QED BY <2>1, <2>2 DEF Max
  <1> QED BY <1>5, <1>6, <1>7

(* A point never hides another: as many points as rates, and the last      *)
(* sample for each bar, for any clock, listings and groups.                *)
THEOREM NothingIsHidden == Spec => []NothingHidden
  <1>1. IInv => NothingHidden
    BY NoRateHiddenState, LatestBarsState DEF NothingHidden
  <1> QED BY <1>1, Invariance, PTL
=============================================================================
