-------------------------- MODULE OperationOutcome --------------------------
(***************************************************************************)
(* What a caller of execute() is promised, whatever the adapter: an        *)
(* operation that acts on a device does so at most once, at one instant,   *)
(* and its result tells how far that can be relied on:                     *)
(*   "ok"       it has acted (a read: it has read and changed nothing),    *)
(*   "refused"  it has not acted and never will,                           *)
(*   "unknown"  the transport failed: it may have acted, or may yet.       *)
(* RouterOSExecutor and UNMSExecutor are shown to implement it.            *)
(***************************************************************************)
EXTENDS Naturals

CONSTANT Calls

VARIABLES
    kind,      \* call -> "act" or "read"
    outcome,   \* call -> what it has answered
    applied    \* call -> how often it has acted

vars == <<kind, outcome, applied>>

Init ==
    /\ kind \in [Calls -> {"act", "read"}]
    /\ outcome = [c \in Calls |-> "pending"]
    /\ applied = [c \in Calls |-> 0]

Apply(c) ==
    /\ kind[c] = "act"
    /\ applied[c] = 0
    /\ outcome[c] \in {"pending", "unknown"}
    /\ applied' = [applied EXCEPT ![c] = 1]
    /\ UNCHANGED <<kind, outcome>>

ReportOk(c) ==
    /\ outcome[c] = "pending"
    /\ applied[c] = IF kind[c] = "act" THEN 1 ELSE 0
    /\ outcome' = [outcome EXCEPT ![c] = "ok"]
    /\ UNCHANGED <<kind, applied>>

Refuse(c) ==
    /\ outcome[c] = "pending"
    /\ applied[c] = 0
    /\ outcome' = [outcome EXCEPT ![c] = "refused"]
    /\ UNCHANGED <<kind, applied>>

ReportUnknown(c) ==
    /\ outcome[c] = "pending"
    /\ outcome' = [outcome EXCEPT ![c] = "unknown"]
    /\ UNCHANGED <<kind, applied>>

Next == \E c \in Calls :
            Apply(c) \/ ReportOk(c) \/ Refuse(c) \/ ReportUnknown(c)

Spec == Init /\ [][Next]_vars
=============================================================================
