------------------------ MODULE FlowCollector_proofs ------------------------
(***************************************************************************)
(* The safety of FlowCollector for any datagrams, buffer, mode and bounds. *)
(* The invariant is built in layers: types and the numbers of datagrams,   *)
(* then what the main loop has still to write, then what is in the file.   *)
(***************************************************************************)
EXTENDS FlowCollector, TLAPS, SequenceTheorems, FiniteSetTheorems

(* A process that is down has lost everything but its file, and may be     *)
(* started once more.                                                      *)
Down ==
    ~up =>
        /\ run < MaxRuns
        /\ socket = <<>> /\ pc = "reading" /\ batch = <<>>
        /\ current = Nothing /\ count = Zero /\ encoder = "ok"
        /\ loads = <<>> /\ printed = <<>>

(* Datagrams wait in the order in which they were sent, behind the one in  *)
(* the buffer.                                                             *)
Numbered ==
    /\ \A i \in DOMAIN socket : socket[i].number \in 1..sent
    /\ \A i, j \in DOMAIN socket : i < j => socket[i].number < socket[j].number
    /\ \A i \in DOMAIN socket : current.number < socket[i].number
    /\ current.number <= sent
    /\ pc # "reading" => current.number >= 1
    /\ pc = "counting" => batch # <<>>

Typed == TypeOK /\ Down /\ Numbered

LEMMA QueueType ==
    ASSUME NEW D, NEW s \in Seq(D), s # <<>>
    PROVE  /\ Head(s) = s[1] /\ Head(s) \in D
           /\ Tail(s) \in Seq(D)
           /\ Len(s) \in Nat \ {0}
           /\ Len(Tail(s)) = Len(s) - 1
           /\ DOMAIN s = 1 .. Len(s)
           /\ DOMAIN Tail(s) = 1 .. Len(s) - 1
           /\ \A i \in DOMAIN Tail(s) : Tail(s)[i] = s[i + 1]
  BY HeadTailProperties, LenProperties, EmptySeq

LEMMA AppendType ==
    ASSUME NEW D, NEW s \in Seq(D), NEW e \in D
    PROVE  /\ Append(s, e) \in Seq(D)
           /\ Len(s) \in Nat
           /\ Len(Append(s, e)) = Len(s) + 1
           /\ DOMAIN s = 1 .. Len(s)
           /\ DOMAIN Append(s, e) = 1 .. Len(s) + 1
           /\ \A i \in 1 .. Len(s) : Append(s, e)[i] = s[i]
           /\ Append(s, e)[Len(s) + 1] = e
  BY AppendProperties, LenProperties

(* The records of a datagram, for every mode.                              *)
LEMMA DeviceRecordsType ==
    ASSUME NEW d \in Datagram, d.number >= 1
    PROVE  /\ DeviceRecords(d) \in Seq(Record)
           /\ \A k \in DOMAIN DeviceRecords(d) :
                 /\ DeviceRecords(d)[k].packet = d.number
                 /\ DeviceRecords(d)[k].index = k
                 /\ DeviceRecords(d)[k].flow \in 1 .. d.count
  <1> DEFINE n == Len(Directions)
             R(k) == [packet |-> d.number, index |-> k,
                      flow |-> ((k - 1) \div n) + 1,
                      direction |-> Directions[((k - 1) % n) + 1]]
             m == d.count * n
  <1>1. n \in 0..2 /\ \A i \in 1..n : Directions[i] \in {"src", "dst"}
    BY DEF Directions
  <1>2. d.count \in Nat /\ d.number \in 1..MaxPackets
    BY DEF Datagram
  <1>3. m \in Nat
    BY <1>1, <1>2
  <1>4. ASSUME NEW k \in 1..m
        PROVE  /\ ((k - 1) \div n) + 1 \in 1 .. d.count
               /\ ((k - 1) % n) + 1 \in 1 .. n
    <2>1. CASE n = 0
      BY <1>2, <2>1
    <2>2. CASE n = 1
      BY <1>2, <2>2
    <2>3. CASE n = 2
      BY <1>2, <2>3
    <2> QED BY <1>1, <2>1, <2>2, <2>3
  <1>5. \A k \in 1..m : R(k) \in Record
    BY <1>1, <1>2, <1>3, <1>4 DEF Record
  <1>6. DeviceRecords(d) = [k \in 1..m |-> R(k)]
    BY DEF DeviceRecords
  <1> HIDE DEF n, m
  <1>7. [k \in 1..m |-> R(k)] \in Seq(Record)
    BY <1>3, <1>5, IsASeq
  <1> QED BY <1>4, <1>6, <1>7

LEMMA TypedInit == Init => Typed
  BY CollectorAssumption
  DEF Init, Typed, TypeOK, Down, Numbered, Nothing, Zero, Counters, Datagram

LEMMA BumpType ==
    ASSUME NEW k \in Counters, count \in [Counters -> Nat], Bump(k)
    PROVE  /\ count' \in [Counters -> Nat]
           /\ count'[k] = count[k] + 1
           /\ \A j \in Counters \ {k} : count'[j] = count[j]
  BY DEF Bump, Counters

(* What a status line shows is what was loaded for it. *)
LEMMA PrintedType ==
    ASSUME TypeOK, PrintStatus
    PROVE  /\ printed' \in [Counters -> Nat]
           /\ printed'["packets"] = loads[1] /\ printed'["decoded"] = loads[2]
           /\ printed'["records"] = loads[3] /\ printed'["errors"] = loads[4]
  <1> DEFINE At(k) == CHOOSE i \in DOMAIN LoadOrder : LoadOrder[i] = k
  <1>1. At("packets") = 1 /\ At("decoded") = 2 /\ At("records") = 3 /\ At("errors") = 4
    BY DEF LoadOrder
  <1>2. \A i \in 1..4 : loads[i] \in Nat
    BY LenProperties DEF PrintStatus, LoadOrder, TypeOK
  <1>3. printed' = [k \in Counters |-> loads[At(k)]]
    BY DEF PrintStatus
  <1> HIDE DEF At
  <1> QED BY <1>1, <1>2, <1>3 DEF Counters

(* What comes from the kernel: nothing, or the datagram sent. *)
LEMMA ArriveSocket ==
    ASSUME TypeOK, Arrive
    PROVE  \E e \in Datagram :
              /\ e.number = sent + 1
              /\ \/ socket' = socket
                 \/ Len(socket) < QueueLimit /\ socket' = Append(socket, e)
  <1>1. PICK d \in Datagrams :
          socket' = IF up /\ Len(socket) < QueueLimit
                    THEN Append(socket, [number |-> sent + 1, length |-> d.length,
                                         version |-> d.version, count |-> d.count])
                    ELSE socket
    BY DEF Arrive
  <1> DEFINE e == [number |-> sent + 1, length |-> d.length,
                   version |-> d.version, count |-> d.count]
  <1>2. sent + 1 \in 0..MaxPackets
    BY CollectorAssumption DEF Arrive, TypeOK
  <1>3. d.length \in Nat /\ d.version \in Nat /\ d.count \in Nat
    BY CollectorAssumption
  <1>4. e \in Datagram /\ e.number = sent + 1
    BY <1>2, <1>3 DEF Datagram
  <1>5. \/ socket' = socket
        \/ Len(socket) < QueueLimit /\ socket' = Append(socket, e)
    BY <1>1
  <1> QED BY <1>4, <1>5

LEMMA TypedNext == Typed /\ [Next]_vars => Typed'
  <1> SUFFICES ASSUME Typed, [Next]_vars PROVE Typed'
    OBVIOUS
  <1> USE CollectorAssumption
  <1>t. TypeOK /\ Down /\ Numbered
    BY DEF Typed
  <1>1. CASE Receive
    <2>1. socket \in Seq(Datagram) /\ socket # <<>>
      BY <1>1, <1>t DEF Receive, TypeOK
    <2>2. current' = socket[1] /\ socket' = Tail(socket)
      BY <1>1, <2>1, QueueType DEF Receive
    <2>3. count' \in [Counters -> Nat]
      BY <1>1, <1>t, BumpType DEF Receive, TypeOK, Counters
    <2>4. TypeOK'
      BY <1>1, <1>t, <2>1, <2>3, QueueType DEF Receive, TypeOK, diskVars, statusVars
    <2>5. Numbered'
      <3>1. /\ Len(socket) \in Nat \ {0}
            /\ DOMAIN socket = 1 .. Len(socket)
            /\ DOMAIN socket' = 1 .. Len(socket) - 1
            /\ \A i \in DOMAIN socket' : socket'[i] = socket[i + 1]
        BY <2>1, <2>2, QueueType
      <3>2. \A i \in DOMAIN socket : socket[i].number \in 1..sent
        BY <1>t DEF Numbered
      <3>3. sent' = sent /\ pc' = "decoding" /\ sent \in Nat
        BY <1>1, <1>t DEF Receive, TypeOK
      <3>4. \A i \in DOMAIN socket' :
              i + 1 \in DOMAIN socket /\ 1 < i + 1 /\ i \in Int
        BY <3>1
      <3>5. \A i \in DOMAIN socket' : socket'[i].number \in 1..sent'
        BY <3>1, <3>2, <3>3, <3>4
      <3>6. \A i, j \in DOMAIN socket' : i < j => socket'[i].number < socket'[j].number
        BY <1>t, <3>1, <3>4 DEF Numbered
      <3>7. 1 \in DOMAIN socket
        BY <3>1
      <3>8. \A i \in DOMAIN socket' : current'.number < socket'[i].number
        BY <1>t, <2>2, <3>1, <3>4, <3>7 DEF Numbered
      <3>9. current'.number <= sent' /\ current'.number >= 1
        BY <2>2, <3>2, <3>3, <3>7
      <3> QED BY <3>3, <3>5, <3>6, <3>8, <3>9 DEF Numbered
    <2> QED BY <1>1, <2>4, <2>5 DEF Receive, Down, Typed
  <1>2. CASE DecodeError
    BY <1>2, <1>t, BumpType
    DEF DecodeError, Typed, TypeOK, Down, Numbered, Counters, statusVars, diskVars
  <1>3. CASE Decode
    <2>1. current \in Datagram /\ current.number >= 1
      BY <1>3, <1>t DEF Decode, TypeOK, Numbered
    <2>2. batch' \in Seq(Record)
      BY <1>3, <2>1, DeviceRecordsType DEF Decode
    <2> QED
      BY <1>3, <1>t, <2>2, BumpType
      DEF Decode, Typed, TypeOK, Down, Numbered, Counters, statusVars, diskVars
  <1>4. CASE Encode
    <2>1. Head(batch) \in Record
      BY <1>4, <1>t, QueueType DEF Encode, TypeOK
    <2>2. Piece(FALSE) \in Line
      BY <2>1, <1>t DEF Piece, Record, Line, TypeOK
    <2>3. file' \in Seq(Line)
      BY <1>4, <1>t, <2>2, AppendType DEF Encode, TypeOK
    <2> QED
      BY <1>4, <1>t, <2>3
      DEF Encode, Typed, TypeOK, Down, Numbered, statusVars, diskVars
  <1>5. CASE CountRecord
    <2>1. batch' \in Seq(Record)
      BY <1>5, <1>t, QueueType DEF CountRecord, TypeOK, Numbered
    <2> QED
      BY <1>5, <1>t, <2>1, BumpType
      DEF CountRecord, Typed, TypeOK, Down, Numbered, Counters, statusVars, diskVars
  <1>6. CASE WriteError
    <2>1. Head(batch) \in Record
      BY <1>6, <1>t, QueueType DEF WriteError, TypeOK
    <2>2. Piece(TRUE) \in Line
      BY <2>1, <1>t DEF Piece, Record, Line, TypeOK
    <2>3. file' \in Seq(Line)
      <3>1. file \in Seq(Line)
        BY <1>t DEF TypeOK
      <3>2. file' = file \/ file' = Append(file, Piece(TRUE))
        BY <1>6 DEF WriteError
      <3>3. Append(file, Piece(TRUE)) \in Seq(Line)
        BY <2>2, <3>1, AppendType
      <3> QED BY <3>1, <3>2, <3>3
    <2> QED
      BY <1>6, <1>t, <2>3
      DEF WriteError, Break, Typed, TypeOK, Down, Numbered, statusVars, diskVars
  <1>7. CASE EncoderError
    BY <1>7, <1>t
    DEF EncoderError, Break, Typed, TypeOK, Down, Numbered, statusVars, diskVars
  <1>8. CASE PacketDone
    BY <1>8, <1>t DEF PacketDone, Typed, TypeOK, Down, Numbered, statusVars, diskVars
  <1>9. CASE Load
    <2>1. Len(loads) \in Nat /\ Len(LoadOrder) = 4
      BY <1>t DEF TypeOK, LoadOrder
    <2>2. count[LoadOrder[Len(loads) + 1]] \in Nat
      <3>1. Len(loads) + 1 \in {1, 2, 3, 4}
        BY <1>9, <2>1 DEF Load
      <3>2. \A i \in {1, 2, 3, 4} : LoadOrder[i] \in Counters
        BY DEF LoadOrder, Counters
      <3> QED BY <1>t, <3>1, <3>2 DEF TypeOK
    <2>3. loads' \in Seq(Nat) /\ Len(loads') <= 4
      BY <1>9, <1>t, <2>1, <2>2, AppendType DEF Load, TypeOK
    <2> QED
      BY <1>9, <1>t, <2>3 DEF Load, Typed, TypeOK, Down, Numbered, mainVars, diskVars
  <1>10. CASE PrintStatus
    <2>1. printed' \in [Counters -> Nat]
      BY <1>10, <1>t, PrintedType
    <2>2. loads' \in Seq(Nat) /\ Len(loads') <= 4
      BY <1>10, EmptySeq DEF PrintStatus
    <2> QED
      BY <1>10, <1>t, <2>1, <2>2
      DEF PrintStatus, Typed, TypeOK, Down, Numbered, mainVars, diskVars
  <1>11. CASE Arrive
    <2>1. sent \in Nat /\ (socket' = socket \/ up)
      BY <1>11, <1>t DEF Arrive, TypeOK
    <2>2. PICK e \in Datagram :
            /\ e.number = sent + 1
            /\ \/ socket' = socket
               \/ Len(socket) < QueueLimit /\ socket' = Append(socket, e)
      BY <1>11, <1>t, ArriveSocket
    <2>3. \/ socket' = socket
          \/ Len(socket) < QueueLimit /\ socket' = Append(socket, e)
      BY <2>2
    <2>4. TypeOK'
      BY <1>11, <1>t, <2>1, <2>2, <2>3, AppendType
      DEF Arrive, TypeOK, mainVars, statusVars, diskVars
    <2>5. Numbered'
      <3>1. /\ socket \in Seq(Datagram)
            /\ \A i \in DOMAIN socket : socket[i] \in Datagram
            /\ current \in Datagram
        BY <1>t, LenProperties DEF TypeOK
      <3>2. sent' = sent + 1 /\ UNCHANGED <<current, pc, batch>>
        BY <1>11 DEF Arrive, mainVars
      <3>3. CASE socket' = socket
        <4>1. \A i \in DOMAIN socket : socket[i].number \in 1..sent'
          BY <1>t, <2>1, <3>2 DEF Numbered
        <4>2. current.number <= sent'
          BY <1>t, <2>1, <2>2, <3>1, <3>2 DEF Numbered, Datagram
        <4> QED BY <1>t, <3>2, <3>3, <4>1, <4>2 DEF Numbered
      <3>4. CASE socket' = Append(socket, e)
        <4>1. /\ Len(socket) \in Nat
              /\ DOMAIN socket = 1 .. Len(socket)
              /\ DOMAIN socket' = 1 .. Len(socket) + 1
              /\ \A i \in 1 .. Len(socket) : socket'[i] = socket[i]
              /\ socket'[Len(socket) + 1] = e
          BY <2>2, <3>1, <3>4, AppendType
        <4>2. \A i \in DOMAIN socket' :
                \/ i \in DOMAIN socket /\ i < Len(socket) + 1 /\ socket'[i] = socket[i]
                \/ i = Len(socket) + 1 /\ socket'[i] = e
          BY <4>1
        <4>3. \A i \in DOMAIN socket : socket[i].number \in 1..sent
          BY <1>t DEF Numbered
        <4>4. \A i \in DOMAIN socket' : socket'[i].number \in 1..sent'
          BY <2>1, <2>2, <3>2, <4>2, <4>3
        <4>5. ASSUME NEW i \in DOMAIN socket', NEW j \in DOMAIN socket', i < j
              PROVE  socket'[i].number < socket'[j].number
          <5>1. i \in DOMAIN socket /\ socket'[i] = socket[i]
            BY <4>1, <4>5
          <5>2. CASE j \in DOMAIN socket
            BY <1>t, <4>1, <4>5, <5>1, <5>2 DEF Numbered
          <5>3. CASE j = Len(socket) + 1
            BY <2>1, <2>2, <4>1, <4>3, <5>1, <5>3
          <5> QED BY <4>2, <5>2, <5>3
        <4>6. \A i \in DOMAIN socket' : current'.number < socket'[i].number
          BY <1>t, <2>1, <2>2, <3>1, <3>2, <4>2 DEF Numbered, Datagram
        <4>7. current'.number <= sent'
          BY <1>t, <2>1, <2>2, <3>1, <3>2 DEF Numbered, Datagram
        <4> QED BY <1>t, <3>2, <4>4, <4>5, <4>6, <4>7 DEF Numbered
      <3> QED BY <2>3, <3>3, <3>4
    <2> QED
      BY <1>11, <1>t, <2>1, <2>4, <2>5 DEF Arrive, Down, Typed, mainVars, statusVars
  <1>12. CASE DiskFills
    BY <1>12, <1>t DEF DiskFills, Typed, TypeOK, Down, Numbered, mainVars, statusVars
  <1>13. CASE DiskRecovers
    BY <1>13, <1>t DEF DiskRecovers, Typed, TypeOK, Down, Numbered, mainVars, statusVars
  <1>14. CASE Crash
    <2>1. Nothing \in Datagram /\ Nothing.number = 0 /\ Zero \in [Counters -> Nat]
      BY DEF Nothing, Datagram, Zero
    <2>2. TypeOK'
      <3>1. /\ <<>> \in Seq(Datagram) /\ <<>> \in Seq(Record) /\ <<>> \in Seq(Nat)
            /\ Len(<<>>) = 0
        BY EmptySeq
      <3>2. socket' \in Seq(Datagram) /\ Len(socket') <= QueueLimit
        BY <1>14, <3>1 DEF Crash
      <3>3. batch' \in Seq(Record) /\ loads' \in Seq(Nat) /\ Len(loads') <= 4
        BY <1>14, <3>1 DEF Crash
      <3>4. current' \in Datagram /\ count' \in [Counters -> Nat] /\ printed' = <<>>
        BY <1>14, <2>1 DEF Crash
      <3> QED BY <1>14, <1>t, <3>2, <3>3, <3>4 DEF Crash, TypeOK, diskVars
    <2>3. Numbered'
      BY <1>14, <1>t, <2>1 DEF Crash, TypeOK, Numbered
    <2> QED BY <1>14, <2>2, <2>3 DEF Crash, Typed, Down
  <1>15. CASE Start
    BY <1>15, <1>t
    DEF Start, Typed, TypeOK, Down, Numbered, mainVars, statusVars, diskVars
  <1>16. CASE UNCHANGED vars
    BY <1>16, <1>t
    DEF vars, Typed, TypeOK, Down, Numbered, mainVars, statusVars, diskVars
  <1> QED
    BY <1>1, <1>2, <1>3, <1>4, <1>5, <1>6, <1>7, <1>8, <1>9, <1>10, <1>11, <1>12,
       <1>13, <1>14, <1>15, <1>16
    DEF Next, MainLoop, Status, Environment


LEMMA TypedAlways == Spec => []Typed
  BY TypedInit, TypedNext, PTL DEF Spec

(* Every variable stays within its type, TypeOK, for any datagrams.        *)
THEOREM TypeCorrect == Spec => []TypeOK
  BY TypedAlways, PTL DEF Typed

-----------------------------------------------------------------------------
(* Accounting of packets. *)

PacketsInv == Typed /\ PacketsAccounted

LEMMA PacketsInvAlways == Spec => []PacketsInv
  <1>1. Init => PacketsInv
    BY TypedInit DEF Init, PacketsInv, PacketsAccounted, Zero, Counters
  <1>2. PacketsInv /\ [Next]_vars => PacketsInv'
    <2> SUFFICES ASSUME PacketsInv, [Next]_vars PROVE PacketsAccounted'
      BY TypedNext DEF PacketsInv
    <2>t. /\ count \in [Counters -> Nat] /\ PacketsAccounted
          /\ pc \in {"reading", "decoding", "writing", "counting"} /\ Down
          /\ count["packets"] \in Nat /\ count["decoded"] \in Nat
          /\ count["errors"] \in Nat
      BY DEF PacketsInv, Typed, TypeOK, Counters
    <2>1. CASE Receive
      BY <2>1, <2>t, BumpType DEF Receive, PacketsAccounted, Counters
    <2>2. CASE DecodeError
      BY <2>2, <2>t, BumpType DEF DecodeError, PacketsAccounted, Counters
    <2>3. CASE Decode
      BY <2>3, <2>t, BumpType DEF Decode, PacketsAccounted, Counters
    <2>4. CASE CountRecord
      BY <2>4, <2>t, BumpType DEF CountRecord, PacketsAccounted, Counters
    <2>5. CASE Crash
      BY <2>5 DEF Crash, PacketsAccounted, Zero, Counters
    <2>6. CASE Encode \/ WriteError \/ EncoderError \/ PacketDone
      BY <2>6, <2>t
      DEF Encode, WriteError, EncoderError, PacketDone, Break, PacketsAccounted
    <2>7. CASE \/ Status \/ Arrive \/ DiskFills \/ DiskRecovers \/ Start
               \/ UNCHANGED vars
      BY <2>7, <2>t
      DEF Status, Load, PrintStatus, Arrive, DiskFills, DiskRecovers, Start, vars,
          mainVars, PacketsAccounted
    <2> QED
      BY <2>1, <2>2, <2>3, <2>4, <2>5, <2>6, <2>7 DEF Next, MainLoop, Environment
  <1> QED BY <1>1, <1>2, PTL DEF Spec

(* packets = decoded + errors, but for the packet being decoded.           *)
THEOREM PacketsAlways == Spec => []PacketsAccounted
  BY PacketsInvAlways, PTL DEF PacketsInv

-----------------------------------------------------------------------------
(* Torn lines. *)

(* A run that has torn a line, or whose encoder has an error, writes no    *)
(* more; runs are numbered in the order of the file.                       *)
TornFits ==
    /\ \A j \in DOMAIN file : file[j].run <= run
    /\ \A j \in DOMAIN file :
          up /\ file[j].torn /\ file[j].run = run => encoder = "error"

TornInv == Typed /\ TornFits /\ TornEndsTheRun

(* A piece put at the end of the file by an encoder without an error.      *)
LEMMA TornAppend ==
    ASSUME TornInv, encoder = "ok", up, NEW e \in Line, e.run = run,
           file' = Append(file, e), run' = run,
           e.torn => encoder' = "error"
    PROVE  TornFits' /\ TornEndsTheRun'
  <1>1. /\ file \in Seq(Line) /\ run \in Nat
        /\ \A j \in DOMAIN file : file[j] \in Line
        /\ TornFits /\ TornEndsTheRun
    BY LenProperties, CollectorAssumption DEF TornInv, Typed, TypeOK
  <1>2. /\ Len(file) \in Nat
        /\ DOMAIN file = 1 .. Len(file)
        /\ DOMAIN file' = 1 .. Len(file) + 1
        /\ \A j \in 1 .. Len(file) : file'[j] = file[j]
        /\ file'[Len(file) + 1] = e
    BY <1>1, AppendType
  <1>3. \A j \in DOMAIN file' :
          \/ j \in DOMAIN file /\ file'[j] = file[j]
          \/ j = Len(file) + 1 /\ file'[j] = e
    BY <1>2
  <1>4. \A j \in DOMAIN file : file[j].run \in Nat /\ file[j].run <= run
    BY <1>1, CollectorAssumption DEF TornFits, Line
  <1>5. \A j \in DOMAIN file : file[j].torn => file[j].run < run
    BY <1>1, <1>4 DEF TornFits
  <1>6. TornFits'
    BY <1>1, <1>3, <1>4, <1>5 DEF TornFits
  <1>7. ASSUME NEW j \in DOMAIN file', NEW k \in DOMAIN file', j < k, file'[j].torn
        PROVE  file'[j].run < file'[k].run
    <2>1. j \in DOMAIN file /\ file'[j] = file[j]
      BY <1>2, <1>7
    <2>2. CASE k \in DOMAIN file
      BY <1>1, <1>2, <1>7, <2>1, <2>2 DEF TornEndsTheRun
    <2>3. CASE k = Len(file) + 1
      BY <1>2, <1>5, <1>7, <2>1, <2>3
    <2> QED BY <1>3, <2>2, <2>3
  <1> QED BY <1>6, <1>7 DEF TornEndsTheRun

(* The pieces written are lines of the run. *)
LEMMA PieceType ==
    ASSUME TypeOK, batch # <<>>, NEW torn \in BOOLEAN
    PROVE  /\ Piece(torn) \in Line
           /\ Piece(torn).run = run /\ Piece(torn).torn = torn
           /\ Piece(torn).packet = batch[1].packet
           /\ Piece(torn).index = batch[1].index
  <1>1. Head(batch) = batch[1] /\ batch[1] \in Record
    BY QueueType DEF TypeOK
  <1> QED BY <1>1 DEF Piece, Record, Line, TypeOK

LEMMA TornInvAlways == Spec => []TornInv
  <1>1. Init => TornInv
    BY TypedInit DEF Init, TornInv, TornFits, TornEndsTheRun
  <1>2. TornInv /\ [Next]_vars => TornInv'
    <2> SUFFICES ASSUME TornInv, [Next]_vars PROVE TornFits' /\ TornEndsTheRun'
      BY TypedNext DEF TornInv
    <2>t. TypeOK /\ Down /\ TornFits /\ TornEndsTheRun
      BY DEF TornInv, Typed
    <2>1. CASE Encode
      BY <2>1, <2>t, TornAppend, PieceType DEF Encode
    <2>2. CASE WriteError
      <3>1. CASE file' = file
        BY <2>2, <2>t, <3>1 DEF WriteError, TornFits, TornEndsTheRun
      <3>2. CASE file' = Append(file, Piece(TRUE))
        BY <2>2, <2>t, <3>2, TornAppend, PieceType DEF WriteError
      <3> QED BY <2>2, <3>1, <3>2 DEF WriteError
    <2>3. CASE Start
      <3>1. run' = run + 1 /\ file' = file /\ run \in Nat
        BY <2>3, <2>t, CollectorAssumption DEF Start, TypeOK
      <3>2. \A j \in DOMAIN file : file[j].run \in Nat
        <4>1. \A j \in DOMAIN file : file[j] \in Line
          BY <2>t, LenProperties DEF TypeOK
        <4> QED BY <4>1, CollectorAssumption DEF Line
      <3> QED BY <2>t, <3>1, <3>2 DEF TornFits, TornEndsTheRun
    <2>4. CASE Crash
      BY <2>4, <2>t DEF Crash, TornFits, TornEndsTheRun
    <2>5. CASE \/ Receive \/ DecodeError \/ Decode \/ CountRecord \/ EncoderError
               \/ PacketDone
      BY <2>5, <2>t
      DEF Receive, DecodeError, Decode, CountRecord, EncoderError, PacketDone,
          TornFits, TornEndsTheRun
    <2>6. CASE Status \/ Arrive \/ DiskFills \/ DiskRecovers \/ UNCHANGED vars
      BY <2>6, <2>t
      DEF Status, Load, PrintStatus, Arrive, DiskFills, DiskRecovers, vars, mainVars,
          TornFits, TornEndsTheRun
    <2> QED
      BY <2>1, <2>2, <2>3, <2>4, <2>5, <2>6 DEF Next, MainLoop, Environment
  <1> QED BY <1>1, <1>2, PTL DEF Spec

(* A line that was torn is the last of its run, for any number of runs.    *)
THEOREM TornAlways == Spec => []TornEndsTheRun
  BY TornInvAlways, PTL DEF TornInv

-----------------------------------------------------------------------------
(* Order. *)

(* Datagram p is later than all that is in the file. *)
Later(p) == \A k \in DOMAIN file : file[k].packet < p

(* The batch is a tail of the records of the datagram in the buffer: the   *)
(* file has nothing of the datagram yet, or ends in the record before.     *)
BatchOrdered ==
    /\ \A k \in DOMAIN batch :
          /\ batch[k].packet = current.number
          /\ batch[k].index = batch[1].index + k - 1
    /\ pc \in {"reading", "decoding"} => batch = <<>>

FileBehind ==
    /\ \A k \in DOMAIN file : file[k].packet <= sent
    /\ \A i \in DOMAIN socket : Later(socket[i].number)
    /\ pc = "decoding" => Later(current.number)
    /\ pc = "writing" /\ batch # <<>> =>
          \/ batch[1].index = 1 /\ Later(current.number)
          \/ /\ file # <<>>
             /\ file[Len(file)].packet = current.number
             /\ file[Len(file)].index + 1 = batch[1].index
             /\ \A k \in DOMAIN file : file[k].packet <= current.number
    /\ pc = "counting" =>
          /\ file # <<>>
          /\ file[Len(file)].packet = current.number
          /\ file[Len(file)].index = batch[1].index
          /\ \A k \in DOMAIN file : file[k].packet <= current.number

OrderInv == Typed /\ BatchOrdered /\ FileBehind /\ WrittenInOrder

(* What a piece of the first record of the batch does to the file.         *)
LEMMA OrderAppend ==
    ASSUME OrderInv, pc = "writing", batch # <<>>, NEW torn \in BOOLEAN,
           file' = Append(file, Piece(torn))
    PROVE  /\ WrittenInOrder'
           /\ file' # <<>>
           /\ file'[Len(file')].packet = current.number
           /\ file'[Len(file')].index = batch[1].index
           /\ \A k \in DOMAIN file' : file'[k].packet <= current.number
  <1> DEFINE e == Piece(torn)
  <1>t. /\ TypeOK /\ Numbered /\ BatchOrdered /\ FileBehind /\ WrittenInOrder
        /\ file \in Seq(Line) /\ current.number \in Int
        /\ \A k \in DOMAIN file : file[k] \in Line
    BY LenProperties DEF OrderInv, Typed, TypeOK, Datagram
  <1>1. 1 \in DOMAIN batch
    BY <1>t, QueueType DEF TypeOK
  <1>2. e \in Line /\ e.packet = current.number /\ e.index = batch[1].index
    BY <1>t, <1>1, PieceType DEF BatchOrdered
  <1> HIDE DEF e
  <1>3. /\ Len(file) \in Nat
        /\ DOMAIN file = 1 .. Len(file)
        /\ Len(file') = Len(file) + 1
        /\ DOMAIN file' = 1 .. Len(file) + 1
        /\ \A k \in 1 .. Len(file) : file'[k] = file[k]
        /\ file'[Len(file) + 1] = e
        /\ file' \in Seq(Line)
    BY <1>t, <1>2, AppendType DEF e
  <1>4. \A k \in DOMAIN file : file[k].packet \in Int /\ file[k].index \in Int
    BY <1>t, CollectorAssumption DEF Line
  <1>5. \/ batch[1].index = 1 /\ Later(current.number)
        \/ /\ file # <<>>
           /\ file[Len(file)].packet = current.number
           /\ file[Len(file)].index + 1 = batch[1].index
           /\ \A k \in DOMAIN file : file[k].packet <= current.number
    BY <1>t DEF FileBehind
  <1>6. \A k \in DOMAIN file : file[k].packet <= current.number
    BY <1>t, <1>4, <1>5 DEF Later
  <1>7. \A k \in DOMAIN file' : file'[k].packet <= current.number
    <2>1. \A k \in DOMAIN file' : k \in DOMAIN file \/ k = Len(file) + 1
      BY <1>3
    <2> QED BY <1>t, <1>2, <1>3, <1>6, <2>1
  <1>8. ASSUME NEW k \in DOMAIN file', k > 1
        PROVE  Follows(k - 1, k)'
    <2>1. CASE k \in DOMAIN file
      <3>1. k - 1 \in DOMAIN file /\ file'[k] = file[k] /\ file'[k - 1] = file[k - 1]
        BY <1>3, <1>8, <2>1
      <3>2. Follows(k - 1, k)
        BY <1>t, <1>8, <2>1 DEF WrittenInOrder
      <3> QED BY <3>1, <3>2 DEF Follows
    <2>2. CASE k = Len(file) + 1
      <3>1. /\ k - 1 = Len(file) /\ Len(file) \in DOMAIN file
            /\ file'[k] = e /\ file'[k - 1] = file[Len(file)]
        <4>1. Len(file) >= 1 /\ k - 1 = Len(file)
          BY <1>3, <1>8, <2>2
        <4> QED BY <1>3, <2>2, <4>1
      <3>2. \/ file[Len(file)].packet < current.number /\ e.index = 1
            \/ /\ file[Len(file)].packet = current.number
               /\ file[Len(file)].index + 1 = e.index
        BY <1>2, <1>5, <3>1 DEF Later
      <3> QED BY <1>t, <1>2, <1>4, <3>1, <3>2 DEF Follows
    <2> QED BY <1>3, <2>1, <2>2
  <1>9. file' # <<>> /\ file'[1].index = 1
    <2>1. CASE file = <<>>
      <3>1. Len(file) = 0
        BY <2>1
      <3> QED BY <1>2, <1>3, <1>5, <2>1, <3>1
    <2>2. CASE file # <<>>
      <3>1. 1 \in DOMAIN file
        BY <1>t, <2>2, QueueType
      <3> QED BY <1>t, <1>3, <2>2, <3>1 DEF WrittenInOrder
    <2> QED BY <2>1, <2>2
  <1> QED BY <1>2, <1>3, <1>7, <1>8, <1>9 DEF WrittenInOrder

(* After such a piece the file is still behind the socket. *)
LEMMA OrderBehind ==
    ASSUME OrderInv, file' \in Seq(Line), socket' = socket, sent' = sent,
           \A k \in DOMAIN file' : file'[k].packet <= current.number
    PROVE  /\ \A k \in DOMAIN file' : file'[k].packet <= sent'
           /\ \A i \in DOMAIN socket' : Later(socket[i].number)'
  <1>1. /\ Numbered /\ current.number \in Int /\ sent \in Int
        /\ \A i \in DOMAIN socket : socket[i].number \in Int
    BY CollectorAssumption DEF OrderInv, Typed, TypeOK, Datagram, Numbered
  <1>2. \A k \in DOMAIN file' : file'[k].packet \in Int
    <2>1. \A k \in DOMAIN file' : file'[k] \in Line
      BY LenProperties
    <2> QED BY <2>1, CollectorAssumption DEF Line
  <1>3. current.number <= sent
    BY <1>1 DEF Numbered
  <1>4. \A i \in DOMAIN socket : current.number < socket[i].number
    BY <1>1 DEF Numbered
  <1> QED BY <1>1, <1>2, <1>3, <1>4 DEF Later

LEMMA OrderNext == OrderInv /\ [Next]_vars => OrderInv'
  <1> SUFFICES ASSUME OrderInv, [Next]_vars
               PROVE  BatchOrdered' /\ FileBehind' /\ WrittenInOrder'
    BY TypedNext DEF OrderInv
  <1>t. /\ TypeOK /\ Numbered /\ BatchOrdered /\ FileBehind /\ WrittenInOrder
        /\ TypeOK'
    BY TypedNext DEF OrderInv, Typed
  <1>1. CASE Receive
    <2>1. /\ current' = socket[1] /\ 1 \in DOMAIN socket
          /\ \A i \in DOMAIN socket' : i + 1 \in DOMAIN socket /\ socket'[i] = socket[i + 1]
      BY <1>1, <1>t, QueueType DEF Receive, TypeOK
    <2>2. UNCHANGED <<file, batch, sent>> /\ pc = "reading" /\ pc' = "decoding"
      BY <1>1 DEF Receive
    <2>3. BatchOrdered' /\ WrittenInOrder'
      BY <1>t, <2>2 DEF BatchOrdered, WrittenInOrder, Follows
    <2>4. FileBehind'
      BY <1>t, <2>1, <2>2 DEF FileBehind, Later
    <2> QED BY <2>3, <2>4
  <1>2. CASE Decode
    <2>1. current \in Datagram /\ current.number >= 1
      BY <1>2, <1>t DEF Decode, TypeOK, Numbered
    <2>2. \A k \in DOMAIN batch' :
            batch'[k].packet = current.number /\ batch'[k].index = k
      BY <1>2, <2>1, DeviceRecordsType DEF Decode
    <2>3. batch' \in Seq(Record)
      BY <1>t DEF TypeOK
    <2>4. batch' # <<>> => 1 \in DOMAIN batch'
      BY <2>3, QueueType
    <2>5. \A k \in DOMAIN batch' : 1 \in DOMAIN batch' /\ k \in Int
      BY <2>3, LenProperties
    <2>6. UNCHANGED <<file, socket, sent, current>> /\ pc = "decoding" /\ pc' = "writing"
      BY <1>2 DEF Decode
    <2>7. BatchOrdered'
      BY <2>2, <2>5, <2>6 DEF BatchOrdered
    <2>8. FileBehind'
      BY <1>t, <2>2, <2>4, <2>6 DEF FileBehind, Later
    <2>9. WrittenInOrder'
      BY <1>t, <2>6 DEF WrittenInOrder, Follows
    <2> QED BY <2>7, <2>8, <2>9
  <1>3. CASE Encode
    <2>1. /\ UNCHANGED <<batch, socket, sent, current>>
          /\ pc = "writing" /\ batch # <<>> /\ pc' = "counting"
          /\ file' = Append(file, Piece(FALSE))
      BY <1>3 DEF Encode
    <2>2. /\ WrittenInOrder'
          /\ file' # <<>>
          /\ file'[Len(file')].packet = current.number
          /\ file'[Len(file')].index = batch[1].index
          /\ \A k \in DOMAIN file' : file'[k].packet <= current.number
      BY <2>1, OrderAppend
    <2>3. /\ \A k \in DOMAIN file' : file'[k].packet <= sent'
          /\ \A i \in DOMAIN socket' : Later(socket[i].number)'
      BY <1>t, <2>1, <2>2, OrderBehind DEF TypeOK
    <2>4. FileBehind'
      BY <2>1, <2>2, <2>3 DEF FileBehind
    <2>5. BatchOrdered'
      BY <1>t, <2>1 DEF BatchOrdered
    <2> QED BY <2>2, <2>4, <2>5
  <1>4. CASE CountRecord
    <2>1. /\ UNCHANGED <<file, socket, sent, current>>
          /\ pc = "counting" /\ pc' = "writing" /\ batch' = Tail(batch) /\ batch # <<>>
      BY <1>4, <1>t DEF CountRecord, Numbered
    <2>2. /\ batch \in Seq(Record) /\ batch' \in Seq(Record)
          /\ 1 \in DOMAIN batch
          /\ \A k \in DOMAIN batch' :
                k \in Nat /\ k + 1 \in DOMAIN batch /\ batch'[k] = batch[k + 1]
          /\ \A k \in DOMAIN batch' : 1 \in DOMAIN batch'
      BY <1>t, <2>1, QueueType, LenProperties DEF TypeOK
    <2>3. batch[1].index \in Int
      <3>1. batch[1] \in Record
        BY <2>2, LenProperties
      <3> QED BY <3>1 DEF Record
    <2>4. \A k \in DOMAIN batch' :
            /\ batch'[k].packet = current.number
            /\ batch'[k].index = batch[1].index + k
      <3> SUFFICES ASSUME NEW k \in DOMAIN batch'
                   PROVE  /\ batch'[k].packet = current.number
                          /\ batch'[k].index = batch[1].index + k
        OBVIOUS
      <3>1. k \in Nat /\ k + 1 \in DOMAIN batch /\ batch'[k] = batch[k + 1]
        BY <2>2
      <3>2. /\ batch[k + 1].packet = current.number
            /\ batch[k + 1].index = batch[1].index + (k + 1) - 1
        BY <1>t, <3>1 DEF BatchOrdered
      <3> QED BY <2>3, <3>1, <3>2
    <2>5. BatchOrdered'
      <3> SUFFICES ASSUME NEW k \in DOMAIN batch'
                   PROVE  /\ batch'[k].packet = current'.number
                          /\ batch'[k].index = batch'[1].index + k - 1
        BY <2>1 DEF BatchOrdered
      <3>1. k \in Nat /\ batch'[1].index = batch[1].index + 1
        BY <2>2, <2>4
      <3>2. /\ batch'[k].packet = current.number
            /\ batch'[k].index = batch[1].index + k
        BY <2>4
      <3> QED BY <2>1, <2>3, <3>1, <3>2
    <2>6. batch' # <<>> => 1 \in DOMAIN batch'
      BY <2>2, QueueType
    <2>7. FileBehind'
      BY <1>t, <2>1, <2>3, <2>4, <2>6 DEF FileBehind, Later
    <2>8. WrittenInOrder'
      BY <1>t, <2>1 DEF WrittenInOrder, Follows
    <2> QED BY <2>5, <2>7, <2>8
  <1>5. CASE WriteError
    <2>1. /\ UNCHANGED <<socket, sent, current>>
          /\ pc = "writing" /\ batch # <<>> /\ pc' = "reading" /\ batch' = <<>>
          /\ file' = file \/ file' = Append(file, Piece(TRUE))
      BY <1>5 DEF WriteError, Break
    <2>2. BatchOrdered'
      BY <2>1 DEF BatchOrdered
    <2>3. CASE file' = file
      BY <1>t, <2>1, <2>2, <2>3 DEF FileBehind, WrittenInOrder, Follows, Later
    <2>4. CASE file' = Append(file, Piece(TRUE))
      <3>1. WrittenInOrder' /\ \A k \in DOMAIN file' : file'[k].packet <= current.number
        BY <2>1, <2>4, OrderAppend
      <3>2. /\ \A k \in DOMAIN file' : file'[k].packet <= sent'
            /\ \A i \in DOMAIN socket' : Later(socket[i].number)'
        BY <1>t, <2>1, <3>1, OrderBehind DEF TypeOK
      <3>3. FileBehind'
        BY <2>1, <3>1, <3>2 DEF FileBehind
      <3> QED BY <2>2, <3>1, <3>3
    <2> QED BY <2>1, <2>3, <2>4
  <1>6. CASE DecodeError \/ EncoderError \/ PacketDone
    <2>1. UNCHANGED <<file, socket, sent, current>> /\ pc' = "reading" /\ batch' = <<>>
      BY <1>6, <1>t DEF DecodeError, EncoderError, PacketDone, Break, BatchOrdered
    <2> QED
      BY <1>t, <2>1 DEF FileBehind, BatchOrdered, WrittenInOrder, Follows, Later
  <1>7. CASE Arrive
    <2>1. UNCHANGED <<file, batch, pc, current>> /\ sent' = sent + 1
      BY <1>7 DEF Arrive, mainVars
    <2>2. \A i \in DOMAIN socket' : \/ i \in DOMAIN socket /\ socket'[i] = socket[i]
                                    \/ socket'[i].number = sent + 1
      <3>1. CASE socket' = socket
        BY <3>1
      <3>2. ASSUME NEW e \in Datagram, e.number = sent + 1, socket' = Append(socket, e)
            PROVE  \A i \in DOMAIN socket' :
                      \/ i \in DOMAIN socket /\ socket'[i] = socket[i]
                      \/ socket'[i].number = sent + 1
        BY <1>t, <3>2, AppendType DEF TypeOK
      <3> QED BY <1>7, <1>t, <3>1, <3>2, ArriveSocket
    <2>3. /\ sent \in Int
          /\ \A k \in DOMAIN file : file[k].packet \in Int /\ file[k].packet <= sent
      <3>1. \A k \in DOMAIN file : file[k] \in Line
        BY <1>t, LenProperties DEF TypeOK
      <3>2. \A k \in DOMAIN file : file[k].packet \in Int
        BY <3>1, CollectorAssumption DEF Line
      <3>3. sent \in Int
        BY <1>t, CollectorAssumption DEF TypeOK
      <3> QED BY <1>t, <3>2, <3>3 DEF FileBehind
    <2>4. FileBehind'
      <3>1. \A k \in DOMAIN file' : file'[k].packet <= sent'
        BY <2>1, <2>3
      <3>2. \A i \in DOMAIN socket' : Later(socket[i].number)'
        BY <1>t, <2>1, <2>2, <2>3 DEF FileBehind, Later
      <3> QED BY <1>t, <2>1, <3>1, <3>2 DEF FileBehind, Later
    <2> QED BY <1>t, <2>1, <2>4 DEF BatchOrdered, WrittenInOrder, Follows
  <1>8. CASE Crash
    <2>1. /\ UNCHANGED <<file, sent>> /\ socket' = <<>> /\ pc' = "reading"
          /\ batch' = <<>>
      BY <1>8 DEF Crash
    <2> QED
      BY <1>t, <2>1 DEF FileBehind, BatchOrdered, WrittenInOrder, Follows, Later
  <1>9. CASE Status \/ DiskFills \/ DiskRecovers \/ Start \/ UNCHANGED vars
    <2>1. UNCHANGED <<file, sent, socket, pc, batch, current>>
      BY <1>9 DEF Status, Load, PrintStatus, DiskFills, DiskRecovers, Start, vars, mainVars
    <2> QED
      BY <1>t, <2>1 DEF FileBehind, BatchOrdered, WrittenInOrder, Follows, Later
  <1> QED
    BY <1>1, <1>2, <1>3, <1>4, <1>5, <1>6, <1>7, <1>8, <1>9
    DEF Next, MainLoop, Environment

LEMMA OrderAlways == Spec => []OrderInv
  <1>1. Init => OrderInv
    BY TypedInit
    DEF Init, OrderInv, BatchOrdered, FileBehind, WrittenInOrder, Later
  <1> QED BY <1>1, OrderNext, PTL DEF Spec

(* What is in the file of each packet is a beginning of its records, in    *)
(* order and once, for any number of restarts and failed writes.           *)
THEOREM InOrder == Spec => []WrittenInOrder
  BY OrderAlways, PTL DEF OrderInv

-----------------------------------------------------------------------------
(* Lengths. *)

(* No record lies past the end of the bytes received, for any buffer and   *)
(* any count field.                                                        *)
THEOREM BatchFitsAlways == Spec => []BatchFits
  <1> DEFINE FitsInv == OrderInv /\ BatchFits
  <1>1. Init => BatchFits
    BY DEF Init, BatchFits
  <1>2. FitsInv /\ [Next]_vars => BatchFits'
    <2> SUFFICES ASSUME OrderInv, BatchFits, [Next]_vars PROVE BatchFits'
      OBVIOUS
    <2>t. TypeOK /\ Numbered /\ BatchOrdered
      BY DEF OrderInv, Typed
    <2>1. CASE Decode
      <3>1. current \in Datagram /\ current.number >= 1
        BY <2>1, <2>t DEF Decode, TypeOK, Numbered
      <3>2. \A k \in DOMAIN batch' : batch'[k].flow \in 1 .. current.count
        BY <2>1, <3>1, DeviceRecordsType DEF Decode
      <3>3. HeaderLen + current.count * RecordLen <= Received(current)
        BY <2>1 DEF Decode, Decodes
      <3>4. current.count \in Nat /\ Received(current) \in Nat
        BY <3>1, CollectorAssumption DEF Datagram, Received
      <3>5. \A k \in DOMAIN batch' : HeaderLen + RecordLen * batch'[k].flow <= Received(current)
        BY <3>2, <3>3, <3>4 DEF HeaderLen, RecordLen
      <3>6. current' = current
        BY <2>1 DEF Decode
      <3> QED BY <3>5, <3>6 DEF BatchFits, Received
    <2>2. CASE CountRecord
      <3>1. batch \in Seq(Record) /\ batch # <<>> /\ batch' = Tail(batch) /\ current' = current
        BY <2>2, <2>t DEF CountRecord, TypeOK, Numbered
      <3>2. \A k \in DOMAIN batch' : k + 1 \in DOMAIN batch /\ batch'[k] = batch[k + 1]
        BY <3>1, QueueType
      <3> QED BY <3>1, <3>2 DEF BatchFits, Received
    <2>3. CASE batch' = <<>>
      BY <2>3 DEF BatchFits
    <2>4. CASE UNCHANGED <<batch, current>>
      BY <2>4 DEF BatchFits, Received
    <2>5. Receive \/ WriteError \/ EncoderError \/ Crash => batch' = <<>>
      BY <2>t DEF Receive, WriteError, EncoderError, Crash, Break, BatchOrdered
    <2>6. \/ DecodeError \/ Encode \/ PacketDone \/ Status \/ Arrive \/ DiskFills
          \/ DiskRecovers \/ Start \/ UNCHANGED vars
          => UNCHANGED <<batch, current>>
      BY DEF DecodeError, Encode, PacketDone, Status, Load, PrintStatus, Arrive,
             DiskFills, DiskRecovers, Start, vars, mainVars
    <2> QED
      BY <2>1, <2>2, <2>3, <2>4, <2>5, <2>6 DEF Next, MainLoop, Environment
  <1>3. OrderInv /\ [Next]_vars => OrderInv'
    BY OrderNext
  <1>4. Spec => []OrderInv
    BY OrderAlways
  <1> QED BY <1>1, <1>2, <1>4, PTL DEF Spec

-----------------------------------------------------------------------------
(* Status lines. *)

(* What has been loaded: counters only grow, and a packet received before  *)
(* its load is decoded, an error, or the one in the making.                *)
LoadsFit ==
    /\ \A i \in DOMAIN loads : loads[i] <= count[LoadOrder[i]]
    /\ Len(loads) >= 2 => loads[1] <= loads[2] + count["errors"] + 1
    /\ Len(loads) = 4 => loads[1] <= loads[2] + loads[4] + 1

StatusInv == PacketsInv /\ LoadsFit /\ StatusHonest

LEMMA CountGrows ==
    ASSUME Typed, [Next]_vars, ~Crash
    PROVE  \A k \in Counters : count'[k] \in Nat /\ count[k] \in Nat /\ count[k] <= count'[k]
  <1>1. count \in [Counters -> Nat]
    BY DEF Typed, TypeOK
  <1>2. CASE UNCHANGED count
    BY <1>1, <1>2
  <1>3. CASE \E k \in Counters : Bump(k)
    BY <1>1, <1>3, BumpType
  <1>4. Receive \/ DecodeError \/ Decode \/ CountRecord => \E k \in Counters : Bump(k)
    BY DEF Receive, DecodeError, Decode, CountRecord, Counters
  <1>5. \/ Encode \/ WriteError \/ EncoderError \/ PacketDone \/ Status \/ Arrive
        \/ DiskFills \/ DiskRecovers \/ Start \/ UNCHANGED vars
        => UNCHANGED count
    BY DEF Encode, WriteError, EncoderError, PacketDone, Status, Load, PrintStatus,
           Arrive, DiskFills, DiskRecovers, Start, vars
  <1> QED BY <1>2, <1>3, <1>4, <1>5 DEF Next, MainLoop, Environment

LEMMA StatusNext == StatusInv /\ [Next]_vars => LoadsFit' /\ StatusHonest'
  <1> SUFFICES ASSUME StatusInv, [Next]_vars PROVE LoadsFit' /\ StatusHonest'
    OBVIOUS
  <1>t. /\ TypeOK /\ PacketsAccounted /\ LoadsFit /\ StatusHonest
        /\ loads \in Seq(Nat) /\ Len(loads) \in Nat /\ Len(loads) <= 4
        /\ DOMAIN loads = 1 .. Len(loads)
        /\ \A i \in DOMAIN loads : loads[i] \in Nat
        /\ \A i \in 1..4 : LoadOrder[i] \in Counters
        /\ {"packets", "decoded", "records", "errors"} = Counters
    BY LenProperties DEF StatusInv, PacketsInv, Typed, TypeOK, LoadOrder, Counters
  <1>1. CASE Crash
    BY <1>1 DEF Crash, LoadsFit, StatusHonest
  <1>g. ASSUME ~Crash
        PROVE  \A k \in Counters :
                  count'[k] \in Nat /\ count[k] \in Nat /\ count[k] <= count'[k]
    BY <1>g, CountGrows DEF StatusInv, PacketsInv
  <1>2. CASE Load
    <2>1. /\ count' = count /\ printed' = printed /\ Len(loads) + 1 \in 1..4
          /\ loads' = Append(loads, count[LoadOrder[Len(loads) + 1]])
      BY <1>2, <1>t DEF Load, LoadOrder
    <2> DEFINE v == count[LoadOrder[Len(loads) + 1]]
    <2>2. v \in Nat /\ \A k \in Counters : count[k] \in Nat
      BY <1>t, <2>1 DEF TypeOK
    <2>3. /\ DOMAIN loads' = 1 .. Len(loads) + 1
          /\ Len(loads') = Len(loads) + 1
          /\ \A i \in 1 .. Len(loads) : loads'[i] = loads[i]
          /\ loads'[Len(loads) + 1] = v
      BY <1>t, <2>1, <2>2, AppendType
    <2>4. \A i \in DOMAIN loads' : loads'[i] <= count'[LoadOrder[i]]
      <3>1. \A i \in DOMAIN loads' : i \in DOMAIN loads \/ i = Len(loads) + 1
        BY <1>t, <2>3
      <3>2. v <= v
        BY <2>2
      <3> QED BY <1>t, <2>1, <2>3, <3>1, <3>2 DEF LoadsFit
    <2>5. LoadOrder[1] = "packets" /\ LoadOrder[2] = "decoded" /\ LoadOrder[4] = "errors"
      BY DEF LoadOrder
    <2>6. count["packets"] <= count["decoded"] + count["errors"] + 1
      BY <1>t, <2>2 DEF PacketsAccounted
    <2>7. CASE Len(loads) = 1
      <3>1. /\ loads'[1] = loads[1] /\ loads'[2] = count["decoded"] /\ Len(loads') = 2
            /\ loads[1] <= count["packets"] /\ loads[1] \in Nat
        BY <1>t, <2>3, <2>5, <2>7 DEF LoadsFit
      <3> QED BY <1>t, <2>1, <2>2, <2>4, <2>6, <3>1 DEF LoadsFit, StatusHonest
    <2>8. CASE Len(loads) = 2
      BY <1>t, <2>1, <2>3, <2>4, <2>8 DEF LoadsFit, StatusHonest
    <2>9. CASE Len(loads) = 3
      <3>1. /\ loads'[1] = loads[1] /\ loads'[2] = loads[2] /\ loads'[4] = count["errors"]
            /\ loads[1] <= loads[2] + count["errors"] + 1 /\ Len(loads') = 4
        BY <1>t, <2>3, <2>5, <2>9 DEF LoadsFit
      <3> QED BY <1>t, <2>1, <2>4, <3>1 DEF LoadsFit, StatusHonest
    <2>10. CASE Len(loads) = 0
      BY <1>t, <2>1, <2>3, <2>4, <2>10 DEF LoadsFit, StatusHonest
    <2>11. Len(loads) = 0 \/ Len(loads) = 1 \/ Len(loads) = 2 \/ Len(loads) = 3
      <3>1. Len(loads) \in Nat /\ Len(loads) < 4
        BY <1>t, <1>2 DEF Load, LoadOrder
      <3>2. \A n \in Nat : n < 4 => n = 0 \/ n = 1 \/ n = 2 \/ n = 3
        OBVIOUS
      <3> QED BY <3>1, <3>2
    <2> QED BY <2>7, <2>8, <2>9, <2>10, <2>11
  <1>3. CASE PrintStatus
    <2>1. /\ printed'["packets"] = loads[1] /\ printed'["decoded"] = loads[2]
          /\ printed'["records"] = loads[3] /\ printed'["errors"] = loads[4]
      BY <1>3, <1>t, PrintedType
    <2>2. Len(loads) = 4 /\ count' = count /\ loads' = <<>>
      BY <1>3 DEF PrintStatus, LoadOrder
    <2>3. /\ loads[1] <= count["packets"] /\ loads[2] <= count["decoded"]
          /\ loads[3] <= count["records"] /\ loads[4] <= count["errors"]
      BY <1>t, <2>2 DEF LoadsFit, LoadOrder
    <2>4. StatusHonest'
      BY <1>t, <2>1, <2>2, <2>3 DEF LoadsFit, StatusHonest, Counters
    <2> QED BY <2>2, <2>4 DEF LoadsFit
  <1>4. CASE ~Crash /\ UNCHANGED statusVars
    <2>1. \A k \in Counters :
             count'[k] \in Nat /\ count[k] \in Nat /\ count[k] <= count'[k]
      BY <1>4, <1>g
    <2>2. loads' = loads /\ printed' = printed
      BY <1>4 DEF statusVars
    <2>3. \A i \in DOMAIN loads : loads[i] <= count'[LoadOrder[i]]
      BY <1>t, <2>1 DEF LoadsFit
    <2>4. Len(loads) >= 2 => loads[1] <= loads[2] + count'["errors"] + 1
      BY <1>t, <2>1 DEF LoadsFit
    <2>5. StatusHonest'
      <3>1. printed # <<>> => \A k \in Counters : printed[k] \in Nat
        BY <1>t DEF TypeOK
      <3>2. printed # <<>> => \A k \in Counters : printed[k] <= count'[k]
        BY <1>t, <2>1, <3>1 DEF StatusHonest
      <3> QED BY <1>t, <2>2, <3>2 DEF StatusHonest
    <2> QED BY <1>t, <2>2, <2>3, <2>4, <2>5 DEF LoadsFit
  <1>5. \/ MainLoop \/ Arrive \/ DiskFills \/ DiskRecovers \/ Start \/ UNCHANGED vars
        => UNCHANGED statusVars
    BY DEF MainLoop, Receive, DecodeError, Decode, Encode, CountRecord, WriteError,
           EncoderError, PacketDone, Arrive, DiskFills, DiskRecovers, Start, vars,
           statusVars
  <1> QED BY <1>1, <1>2, <1>3, <1>4, <1>5 DEF Next, Status, Environment

(* A status line hides one packet at most and is ahead of no counter,      *)
(* wherever the main loop was at each of its four loads.                   *)
THEOREM StatusAlways == Spec => []StatusHonest
  <1> DEFINE Inv == LoadsFit /\ StatusHonest
  <1>1. Init => Inv
    BY DEF Init, LoadsFit, StatusHonest
  <1>2. PacketsInv /\ Inv /\ [Next]_vars => Inv'
    BY StatusNext DEF StatusInv
  <1>3. Spec => []PacketsInv
    BY PacketsInvAlways
  <1> QED BY <1>1, <1>2, <1>3, PTL DEF Spec

-----------------------------------------------------------------------------
(* Accounting of records. *)

(* The whole lines of this run. *)
Own == {k \in Whole : file[k].run = run /\ up}

LEMMA OwnFinite == TypeOK => IsFiniteSet(Own)
  <1> SUFFICES ASSUME TypeOK PROVE IsFiniteSet(Own)
    OBVIOUS
  <1>1. DOMAIN file = 1 .. Len(file) /\ Len(file) \in Int
    BY LenProperties DEF TypeOK
  <1>2. IsFiniteSet(DOMAIN file)
    BY <1>1, FS_Interval
  <1>3. Own \in SUBSET DOMAIN file
    BY DEF Own, Whole
  <1> QED BY <1>2, <1>3, FS_Subset

(* A line at the end of the file is one more, if it is whole. *)
LEMMA OwnAppend ==
    ASSUME TypeOK, up, up' = up, run' = run, NEW e \in Line, e.run = run,
           file' = Append(file, e)
    PROVE  Cardinality(Own') = Cardinality(Own) + IF e.torn THEN 0 ELSE 1
  <1>1. /\ file \in Seq(Line) /\ e.torn \in BOOLEAN
    BY DEF TypeOK, Line
  <1>2. /\ Len(file) \in Nat
        /\ DOMAIN file = 1 .. Len(file)
        /\ DOMAIN file' = 1 .. Len(file) + 1
        /\ \A j \in 1 .. Len(file) : file'[j] = file[j]
        /\ file'[Len(file) + 1] = e
    BY <1>1, AppendType
  <1>3. /\ Len(file) + 1 \notin DOMAIN file
        /\ \A k : k \in DOMAIN file' <=> k \in DOMAIN file \/ k = Len(file) + 1
    BY <1>2
  <1>4. Len(file) + 1 \notin Own
    BY <1>3 DEF Own, Whole
  <1>5. IsFiniteSet(Own)
    BY OwnFinite
  <1>6. CASE e.torn
    <2>1. Own' = Own
      BY <1>2, <1>3, <1>6 DEF Own, Whole
    <2>2. Cardinality(Own) \in Nat
      BY <1>5, FS_CardinalityType
    <2> QED BY <1>6, <2>1, <2>2
  <1>7. CASE ~e.torn
    <2>1. Own' = Own \cup {Len(file) + 1}
      BY <1>2, <1>3, <1>7 DEF Own, Whole
    <2> QED BY <1>4, <1>5, <1>7, <2>1, FS_AddElement
  <1> QED BY <1>1, <1>6, <1>7

(* records_out counts the whole lines of the run, whatever writes failed.  *)
THEOREM RecordsAlways == Spec => []RecordsAccounted
  <1> DEFINE Inv == TornInv /\ RecordsAccounted
  <1>1. Init => RecordsAccounted
    <2> SUFFICES ASSUME Init PROVE RecordsAccounted
      OBVIOUS
    <2>1. Own = {}
      BY DEF Init, Own, Whole
    <2> QED BY <2>1, FS_EmptySet DEF Init, RecordsAccounted, Zero, Counters, Own
  <1>2. TornInv /\ RecordsAccounted /\ [Next]_vars => RecordsAccounted'
    <2> SUFFICES ASSUME TornInv, RecordsAccounted, [Next]_vars PROVE RecordsAccounted'
      OBVIOUS
    <2>t. /\ TypeOK /\ Down /\ TornFits
          /\ count \in [Counters -> Nat] /\ count["records"] \in Nat
          /\ pc \in {"reading", "decoding", "writing", "counting"}
          /\ {"packets", "decoded", "records", "errors"} = Counters
      BY DEF TornInv, Typed, TypeOK, Counters
    <2>r. Cardinality(Own) =
            IF up THEN count["records"] + IF pc = "counting" THEN 1 ELSE 0 ELSE 0
      BY DEF RecordsAccounted, Own
    <2> SUFFICES Cardinality(Own') =
            IF up' THEN count'["records"] + IF pc' = "counting" THEN 1 ELSE 0 ELSE 0
      BY DEF RecordsAccounted, Own
    <2>1. CASE Encode
      <3>1. /\ up /\ up' = up /\ run' = run /\ file' = Append(file, Piece(FALSE))
            /\ count' = count /\ pc = "writing" /\ pc' = "counting" /\ batch # <<>>
        BY <2>1 DEF Encode
      <3>2. Cardinality(Own') = Cardinality(Own) + 1
        BY <2>t, <3>1, PieceType, OwnAppend
      <3> QED BY <2>t, <2>r, <3>1, <3>2
    <2>2. CASE WriteError
      <3>1. /\ up /\ up' = up /\ run' = run /\ count' = count
            /\ pc = "writing" /\ pc' = "reading" /\ batch # <<>>
            /\ file' = file \/ file' = Append(file, Piece(TRUE))
        BY <2>2 DEF WriteError, Break
      <3>2. CASE file' = file
        BY <2>t, <2>r, <3>1, <3>2 DEF Own, Whole
      <3>3. CASE file' = Append(file, Piece(TRUE))
        <4>1. Cardinality(Own') = Cardinality(Own) + 0
          BY <2>t, <3>1, <3>3, PieceType, OwnAppend
        <4> QED BY <2>t, <2>r, <3>1, <4>1
      <3> QED BY <3>1, <3>2, <3>3
    <2>3. CASE Crash
      <3>1. Own' = {} /\ ~up'
        BY <2>3 DEF Crash, Own
      <3> QED BY <3>1, FS_EmptySet
    <2>4. CASE Start
      <3>1. /\ run' = run + 1 /\ file' = file /\ up' /\ ~up /\ run \in Int
            /\ count' = count /\ pc' = pc
        BY <2>4, <2>t, CollectorAssumption DEF Start, TypeOK, mainVars
      <3>2. \A j \in DOMAIN file : file[j].run \in Int /\ file[j].run <= run
        <4>1. \A j \in DOMAIN file : file[j] \in Line
          BY <2>t, LenProperties DEF TypeOK
        <4> QED BY <2>t, <4>1, CollectorAssumption DEF Line, TornFits
      <3>3. Own' = {}
        BY <3>1, <3>2 DEF Own, Whole
      <3>4. count["records"] = 0 /\ pc = "reading"
        BY <2>t, <3>1 DEF Down, Zero
      <3> QED BY <3>1, <3>3, <3>4, FS_EmptySet
    <2>5. CASE CountRecord
      <3>1. count'["records"] = count["records"] + 1
        BY <2>5, <2>t, BumpType DEF CountRecord
      <3>2. Own' = Own
        BY <2>5 DEF CountRecord, Own, Whole
      <3>3. up /\ up' /\ pc = "counting" /\ pc' = "writing"
        BY <2>5 DEF CountRecord
      <3> QED BY <2>t, <2>r, <3>1, <3>2, <3>3
    <2>6. CASE Receive \/ DecodeError \/ Decode
      <3>1. count'["records"] = count["records"]
        BY <2>6, <2>t, BumpType DEF Receive, DecodeError, Decode
      <3>2. Own' = Own
        BY <2>6 DEF Receive, DecodeError, Decode, Own, Whole
      <3>3. up /\ up' /\ pc # "counting" /\ pc' # "counting"
        BY <2>6 DEF Receive, DecodeError, Decode
      <3> QED BY <2>t, <2>r, <3>1, <3>2, <3>3
    <2>7. CASE EncoderError \/ PacketDone
      <3>1. /\ up /\ up' /\ pc # "counting" /\ pc' # "counting" /\ count' = count
            /\ Own' = Own
        BY <2>7 DEF EncoderError, PacketDone, Break, Own, Whole
      <3> QED BY <2>t, <2>r, <3>1
    <2>8. CASE Status \/ Arrive \/ DiskFills \/ DiskRecovers \/ UNCHANGED vars
      <3>1. UNCHANGED <<up, pc, count>> /\ Own' = Own
        BY <2>8
        DEF Status, Load, PrintStatus, Arrive, DiskFills, DiskRecovers, vars, mainVars,
            Own, Whole
      <3> QED BY <2>r, <3>1
    <2> QED
      BY <2>1, <2>2, <2>3, <2>4, <2>5, <2>6, <2>7, <2>8
      DEF Next, MainLoop, Environment
  <1>3. Spec => []TornInv
    BY TornInvAlways
  <1> QED BY <1>1, <1>2, <1>3, PTL DEF Spec

-----------------------------------------------------------------------------
(* No step, a restart included, takes a line away.                         *)
THEOREM LinesStay == Spec => LinesSurvive
  <1> DEFINE Stays == Len(file) <= Len(file') /\ SubSeq(file', 1, Len(file)) = file
  <1>1. ASSUME TypeOK, [Next]_vars PROVE Stays
    <2>t. /\ file \in Seq(Line) /\ Len(file) \in Nat
          /\ TypeOK
      BY <1>1, LenProperties DEF TypeOK
    <2>1. CASE file' = file
      BY <2>t, <2>1, SubSeqFull
    <2>2. ASSUME NEW torn \in BOOLEAN, batch # <<>>, file' = Append(file, Piece(torn))
          PROVE  Stays
      <3>1. Piece(torn) \in Line
        BY <2>t, <2>2, PieceType
      <3>2. /\ Len(file') = Len(file) + 1
            /\ \A i \in 1 .. Len(file) : file'[i] = file[i] /\ file[i] \in Line
        BY <2>t, <2>2, <3>1, AppendType, ElementOfSeq
      <3>3. /\ SubSeq(file', 1, Len(file)) \in Seq(Line)
            /\ Len(SubSeq(file', 1, Len(file))) = Len(file)
            /\ \A i \in 1 .. Len(file) : SubSeq(file', 1, Len(file))[i] = file[i]
        BY <2>t, <3>2, SubSeqProperties
      <3> QED BY <2>t, <3>2, <3>3, SeqEqual
    <2>3. Encode \/ WriteError =>
            /\ batch # <<>>
            /\ \/ file' = file
               \/ file' = Append(file, Piece(TRUE))
               \/ file' = Append(file, Piece(FALSE))
      BY DEF Encode, WriteError
    <2>4. \/ Receive \/ DecodeError \/ Decode \/ CountRecord \/ EncoderError
          \/ PacketDone \/ Status \/ Environment \/ UNCHANGED vars
          => file' = file
      BY DEF Receive, DecodeError, Decode, CountRecord, EncoderError, PacketDone,
             Status, Load, PrintStatus, Environment, Arrive, DiskFills, DiskRecovers,
             Crash, Start, vars
    <2> QED BY <1>1, <2>1, <2>2, <2>3, <2>4 DEF Next, MainLoop
  <1>2. TypeOK /\ [Next]_vars => [Stays]_vars
    BY <1>1
  <1> QED BY <1>2, TypeCorrect, PTL DEF Spec, LinesSurvive

=============================================================================
