---------------------------- MODULE FlowCollector ----------------------------
(***************************************************************************)
(* The flowcollector daemon: NetFlow v5 datagrams in, JSON lines out       *)
(* (cmd/flowcollector/main.go, internal/flowcollector/netflowv5.go).       *)
(*                                                                         *)
(* The main loop receives a datagram, decodes it, expands it into device   *)
(* records and writes one line for each.  A second goroutine prints the    *)
(* four counters, which it loads one after the other while the main loop   *)
(* runs.  The process may be killed and started again: the file stays,     *)
(* everything else is lost, and datagrams that come meanwhile are dropped. *)
(* A full disk makes a write fail after none or some of the line's bytes.  *)
(*                                                                         *)
(* A read error changes nothing (`continue') and has no action.  The       *)
(* output is a regular file: a write ends.                                 *)
(***************************************************************************)
EXTENDS Integers, Sequences, FiniteSets

CONSTANTS
    Datagrams,   \* what exporters send: records of length, version, count
    Buffer,      \* -buffer
    Mode,        \* -endpoint
    StatusEvery, \* -status, where 0 disables the status lines
    QueueLimit,  \* datagrams the kernel keeps for the socket
    MaxPackets,  \* bound: datagrams sent
    MaxRuns,     \* bound: times the daemon is started
    MaxFaults    \* bound: times the disk fills up

HeaderLen == 24   \* NetFlowV5HeaderLen
RecordLen == 48   \* NetFlowV5RecordLen

ASSUME CollectorAssumption ==
    /\ Datagrams \subseteq [length : Nat, version : Nat, count : Nat]
    /\ Buffer \in Nat /\ StatusEvery \in Nat
    /\ QueueLimit \in Nat /\ MaxPackets \in Nat
    /\ MaxRuns \in Nat \ {0} /\ MaxFaults \in Nat

VARIABLES
    sent,      \* how many datagrams have been sent
    socket,    \* those that wait to be received
    up,        \* the process is running
    run,       \* the number of this run
    pc,        \* where the main loop stands
    current,   \* the datagram in the buffer
    batch,     \* the records of it that are still to be written
    count,     \* the four counters
    encoder,   \* the encoder's state: "ok", or the "error" it keeps
    loads,     \* what the status goroutine has loaded so far
    printed,   \* the last status line of this run
    file,      \* the pieces written, in order
    disk,      \* "ok" or "full"
    faults     \* how often the disk has filled up

mainVars   == <<pc, current, batch, encoder>>
statusVars == <<loads, printed>>
diskVars   == <<disk, faults>>
vars == <<sent, socket, up, run, mainVars, count, statusVars, file, diskVars>>

Counters == {"packets", "decoded", "records", "errors"}
Zero     == [k \in Counters |-> 0]
Nothing  == [number |-> 0, length |-> 0, version |-> 0, count |-> 0]

(* ReadFromUDP cuts a datagram off at the end of the buffer. *)
Received(d) == IF d.length < Buffer THEN d.length ELSE Buffer

(* Mutant of Decodes: the length is that of the datagram as sent. *)
DecodesWhatWasSent(d) ==
    /\ d.length >= HeaderLen
    /\ d.version = 5
    /\ d.length >= HeaderLen + d.count * RecordLen

(* DecodeNetFlowV5 returns a packet and no error. *)
Decodes(d) ==
    /\ Received(d) >= HeaderLen
    /\ d.version = 5
    /\ Received(d) >= HeaderLen + d.count * RecordLen

Directions ==
    CASE Mode = "src"  -> <<"src">>
      [] Mode = "dst"  -> <<"dst">>
      [] Mode = "both" -> <<"src", "dst">>
      [] OTHER         -> <<>>

(* Mutant of DeviceRecords: the flows are counted from zero. *)
DeviceRecordsFromZero(d) ==
    LET n == Len(Directions)
    IN  [k \in 1 .. d.count * n |->
            [packet |-> d.number, index |-> k,
             flow |-> (k - 1) \div n,
             direction |-> Directions[((k - 1) % n) + 1]]]

(* The records of a datagram, in order; none if the mode is not known,     *)
(* which the code reports as an error of each packet.                      *)
DeviceRecords(d) ==
    LET n == Len(Directions)
    IN  [k \in 1 .. d.count * n |->
            [packet |-> d.number, index |-> k,
             flow |-> ((k - 1) \div n) + 1,
             direction |-> Directions[((k - 1) % n) + 1]]]

Init ==
    /\ sent = 0
    /\ socket = <<>>
    /\ up = TRUE
    /\ run = 1
    /\ pc = "reading"
    /\ current = Nothing
    /\ batch = <<>>
    /\ encoder = "ok"
    /\ count = Zero
    /\ loads = <<>>
    /\ printed = <<>>
    /\ file = <<>>
    /\ disk = "ok"
    /\ faults = 0

Bump(k) == count' = [count EXCEPT ![k] = @ + 1]

-----------------------------------------------------------------------------
(* The main loop. *)

Receive ==
    /\ up
    /\ pc = "reading"
    /\ socket # <<>>
    /\ current' = Head(socket)
    /\ socket' = Tail(socket)
    /\ Bump("packets")
    /\ pc' = "decoding"
    /\ UNCHANGED <<sent, up, run, batch, encoder, statusVars, file, diskVars>>

DecodeError ==
    /\ up
    /\ pc = "decoding"
    /\ ~Decodes(current)
    /\ Bump("errors")
    /\ pc' = "reading"
    /\ UNCHANGED <<sent, socket, up, run, current, batch, encoder,
                   statusVars, file, diskVars>>

Decode ==
    /\ up
    /\ pc = "decoding"
    /\ Decodes(current)
    /\ Bump("decoded")
    /\ batch' = DeviceRecords(current)
    /\ pc' = "writing"
    /\ UNCHANGED <<sent, socket, up, run, current, encoder,
                   statusVars, file, diskVars>>

(* What is left of a write: a line, or as much of it as the disk took. *)
Piece(torn) ==
    [run |-> run, packet |-> Head(batch).packet, index |-> Head(batch).index,
     torn |-> torn]

(* encoder.Encode returns nil: the whole line is in the file. *)
Encode ==
    /\ up
    /\ pc = "writing"
    /\ batch # <<>>
    /\ encoder = "ok"
    /\ disk = "ok"
    /\ file' = Append(file, Piece(FALSE))
    /\ pc' = "counting"
    /\ UNCHANGED <<sent, socket, up, run, current, batch, count, encoder,
                   statusVars, diskVars>>

CountRecord ==
    /\ up
    /\ pc = "counting"
    /\ Bump("records")
    /\ batch' = Tail(batch)
    /\ pc' = "writing"
    /\ UNCHANGED <<sent, socket, up, run, current, encoder,
                   statusVars, file, diskVars>>

(* The rest of the packet is given up: `break'. *)
Break ==
    /\ batch' = <<>>
    /\ pc' = "reading"

(* Mutants of WriteError: the encoder is made anew; the record after the   *)
(* one that failed is tried; the failed record is counted; it is tried     *)
(* again until the disk takes it.                                          *)
WriteErrorForgotten ==
    /\ up
    /\ pc = "writing"
    /\ batch # <<>>
    /\ encoder = "ok"
    /\ disk = "full"
    /\ file' \in {file, Append(file, Piece(TRUE))}
    /\ Break
    /\ UNCHANGED <<sent, socket, up, run, current, encoder, count, statusVars, diskVars>>

WriteErrorSkippingOne ==
    /\ up
    /\ pc = "writing"
    /\ batch # <<>>
    /\ encoder = "ok"
    /\ disk = "full"
    /\ batch' = Tail(batch)
    /\ UNCHANGED <<sent, socket, up, run, pc, current, encoder, count, file,
                   statusVars, diskVars>>

WriteErrorCounted ==
    /\ up
    /\ pc = "writing"
    /\ batch # <<>>
    /\ encoder = "ok"
    /\ disk = "full"
    /\ encoder' = "error"
    /\ Bump("records")
    /\ Break
    /\ UNCHANGED <<sent, socket, up, run, current, file, statusVars, diskVars>>

WriteErrorRetrying ==
    /\ up
    /\ pc = "writing"
    /\ batch # <<>>
    /\ encoder = "ok"
    /\ disk = "full"
    /\ UNCHANGED vars

(* encoder.Encode fails on the write, and the encoder keeps the error. *)
WriteError ==
    /\ up
    /\ pc = "writing"
    /\ batch # <<>>
    /\ encoder = "ok"
    /\ disk = "full"
    /\ file' \in {file, Append(file, Piece(TRUE))}
    /\ encoder' = "error"
    /\ Break
    /\ UNCHANGED <<sent, socket, up, run, current, count, statusVars, diskVars>>

(* encoder.Encode fails before it writes, with the error it has kept. *)
EncoderError ==
    /\ up
    /\ pc = "writing"
    /\ batch # <<>>
    /\ encoder = "error"
    /\ Break
    /\ UNCHANGED <<sent, socket, up, run, current, count, encoder, file,
                   statusVars, diskVars>>

PacketDone ==
    /\ up
    /\ pc = "writing"
    /\ batch = <<>>
    /\ pc' = "reading"
    /\ UNCHANGED <<sent, socket, up, run, current, batch, count, encoder, file,
                   statusVars, diskVars>>

-----------------------------------------------------------------------------
(* The status goroutine: the arguments of Fprintf, in their order. *)

(* Mutant of LoadOrder: errors and records are loaded before packets. *)
LoadErrorsFirst == <<"errors", "decoded", "records", "packets">>

LoadOrder == <<"packets", "decoded", "records", "errors">>

Load ==
    /\ up
    /\ StatusEvery > 0
    /\ Len(loads) < Len(LoadOrder)
    /\ loads' = Append(loads, count[LoadOrder[Len(loads) + 1]])
    /\ UNCHANGED <<sent, socket, up, run, mainVars, count, printed, file, diskVars>>

PrintStatus ==
    /\ up
    /\ Len(loads) = Len(LoadOrder)
    /\ printed' = [k \in Counters |->
                      loads[CHOOSE i \in DOMAIN LoadOrder : LoadOrder[i] = k]]
    /\ loads' = <<>>
    /\ UNCHANGED <<sent, socket, up, run, mainVars, count, file, diskVars>>

-----------------------------------------------------------------------------
(* Exporters, the kernel, the disk and whoever starts the process. *)

Arrive ==
    /\ sent < MaxPackets
    /\ sent' = sent + 1
    /\ \E d \in Datagrams :
          socket' = IF up /\ Len(socket) < QueueLimit
                    THEN Append(socket, [number |-> sent + 1, length |-> d.length,
                                         version |-> d.version, count |-> d.count])
                    ELSE socket
    /\ UNCHANGED <<up, run, mainVars, count, statusVars, file, diskVars>>

DiskFills ==
    /\ disk = "ok"
    /\ faults < MaxFaults
    /\ disk' = "full"
    /\ faults' = faults + 1
    /\ UNCHANGED <<sent, socket, up, run, mainVars, count, statusVars, file>>

DiskRecovers ==
    /\ disk = "full"
    /\ disk' = "ok"
    /\ UNCHANGED <<sent, socket, up, run, mainVars, count, statusVars, file, faults>>

(* The process is killed: its memory and its socket are gone. *)
Crash ==
    /\ up
    /\ run < MaxRuns
    /\ up' = FALSE
    /\ socket' = <<>>
    /\ pc' = "reading"
    /\ current' = Nothing
    /\ batch' = <<>>
    /\ encoder' = "ok"
    /\ count' = Zero
    /\ loads' = <<>>
    /\ printed' = <<>>
    /\ UNCHANGED <<sent, run, file, diskVars>>

(* Mutant of Start: the output is opened with O_TRUNC. *)
StartTruncating ==
    /\ ~up
    /\ up' = TRUE
    /\ run' = run + 1
    /\ file' = <<>>
    /\ UNCHANGED <<sent, socket, mainVars, count, statusVars, diskVars>>

(* main up to its loop, with the memory of a new process: openOutput       *)
(* appends to the file that is there.                                      *)
Start ==
    /\ ~up
    /\ up' = TRUE
    /\ run' = run + 1
    /\ UNCHANGED <<sent, socket, mainVars, count, statusVars, file, diskVars>>

-----------------------------------------------------------------------------
MainLoop ==
    \/ Receive
    \/ DecodeError
    \/ Decode
    \/ Encode
    \/ CountRecord
    \/ WriteError
    \/ EncoderError
    \/ PacketDone

Status == Load \/ PrintStatus

Environment ==
    \/ Arrive
    \/ DiskFills
    \/ DiskRecovers
    \/ Crash
    \/ Start

Next == MainLoop \/ Status \/ Environment

Spec == Init /\ [][Next]_vars

(* The main goroutine is scheduled and a write to a file ends.  Nothing is  *)
(* assumed of the exporters, the disk or who restarts the process.          *)
FairSpec == Spec /\ WF_vars(MainLoop)

-----------------------------------------------------------------------------
(* Properties. *)

Datagram == [number : 0..MaxPackets, length : Nat, version : Nat, count : Nat]
Record   == [packet : 1..MaxPackets, index : Nat \ {0}, flow : Nat \ {0},
             direction : {"src", "dst"}]
Line     == [run : 1..MaxRuns, packet : 1..MaxPackets, index : Nat \ {0},
             torn : BOOLEAN]

(* Every variable stays within its type. *)
TypeOK ==
    /\ sent \in 0..MaxPackets
    /\ socket \in Seq(Datagram) /\ Len(socket) <= QueueLimit
    /\ up \in BOOLEAN
    /\ run \in 1..MaxRuns
    /\ pc \in {"reading", "decoding", "writing", "counting"}
    /\ current \in Datagram
    /\ batch \in Seq(Record)
    /\ count \in [Counters -> Nat]
    /\ encoder \in {"ok", "error"}
    /\ loads \in Seq(Nat) /\ Len(loads) <= 4
    /\ printed \in [Counters -> Nat] \cup {<<>>}
    /\ file \in Seq(Line)
    /\ disk \in {"ok", "full"}
    /\ faults \in 0..MaxFaults

(* Every packet received is decoded or is a decode error, but for the one  *)
(* that is being decoded.                                                  *)
PacketsAccounted ==
    count["packets"] = count["decoded"] + count["errors"]
                          + IF pc = "decoding" THEN 1 ELSE 0

Whole == {k \in DOMAIN file : ~file[k].torn}

(* records_out counts the whole lines that this run has put in the file,   *)
(* but for the one just written, whatever writes have failed.              *)
RecordsAccounted ==
    Cardinality({k \in Whole : file[k].run = run /\ up}) =
        IF up THEN count["records"] + IF pc = "counting" THEN 1 ELSE 0 ELSE 0

(* A line that was torn is the last thing its run writes: nothing that the *)
(* same run writes can be glued to it.                                     *)
TornEndsTheRun ==
    \A j, k \in DOMAIN file :
        j < k /\ file[j].torn => file[j].run < file[k].run

(* Line k of the file goes on from line j: the next record of the same     *)
(* packet, or the first of a later one.                                    *)
Follows(j, k) ==
    IF file[k].packet = file[j].packet
    THEN file[k].index = file[j].index + 1
    ELSE file[k].packet > file[j].packet /\ file[k].index = 1

(* What is in the file of a packet is a beginning of its records, packets  *)
(* come in the order of arrival, and nothing is there twice, across        *)
(* failed writes and restarts.                                             *)
WrittenInOrder ==
    /\ \A k \in DOMAIN file : k > 1 => Follows(k - 1, k)
    /\ file # <<>> => file[1].index = 1

(* Every record made lies within the bytes received: no count field leads  *)
(* the decoder past the end of a datagram cut off by the buffer.           *)
BatchFits ==
    \A k \in DOMAIN batch :
        HeaderLen + RecordLen * batch[k].flow <= Received(current)

(* A status line, although its counters are loaded at different times,     *)
(* never hides more than one packet in the making, and shows no counter    *)
(* ahead of what it is when the line is read.                              *)
StatusHonest ==
    printed # <<>> =>
        /\ printed["packets"] <= printed["decoded"] + printed["errors"] + 1
        /\ \A k \in Counters : printed[k] <= count[k]

(* No step, a restart included, takes a line away from the file.           *)
LinesSurvive ==
    [][Len(file) <= Len(file') /\ SubSeq(file', 1, Len(file)) = file]_vars

(* The socket is emptied again and again: no datagram and no write error   *)
(* makes the loop stop.                                                    *)
SocketDrains == []<>(socket = <<>> \/ ~up)

(* What docs/source/flowcollector.rst says of the output: each line is one *)
(* record.  A piece that follows a torn one is on the same line with it.   *)
EachLineIsARecord ==
    \A k \in Whole : k > 1 => ~file[k - 1].torn
=============================================================================
