---------------------- MODULE TopologyPreflight_proofs ----------------------
(***************************************************************************)
(* What a preflight may be relied on for, on any network, inventory and    *)
(* interface, and whatever changes while it is made.                       *)
(***************************************************************************)
EXTENDS TopologyPreflight, Reconciliation_proofs

LOCAL INSTANCE FiniteSetsExt

(***************************************************************************)
(* The inductive invariant: what was collected is what there was to read,  *)
(* and what is returned is the judgement of that.                          *)
(***************************************************************************)
Seen(n) ==
    [keys |-> KeysOf[n], by |-> n,
     at |-> [device |-> Target, interface |-> whereRead[n], scope |-> "none"]]

CollectedAll ==
    /\ DOMAIN observed \subseteq Nat
    /\ \A k \in DOMAIN observed :
          \E n \in Neighbors : whereRead[n] \in Interfaces /\ observed[k] = Seen(n)
    /\ \A n \in Neighbors : whereRead[n] \in Interfaces =>
          \E k \in DOMAIN observed : observed[k] = Seen(n)

Judged ==
    /\ interface # NoInterface
    /\ result.report = Report(observed)
    /\ result.code = IF Clear(observed) THEN "clear" ELSE "PREFLIGHT_RISK"

IInv ==
    /\ TypeOK
    /\ expected \in Inventories
    /\ interface \in Requests
    /\ pc # "done" => result = Pending
    /\ pc \in {"ports", "judging"} \/ "report" \in DOMAIN result => CollectedAll
    /\ pc = "judging" \/ "report" \in DOMAIN result =>
          states = [i \in DOMAIN portRead |-> InterfaceState(portRead[i])]
    /\ "report" \in DOMAIN result => Judged
    /\ result.code = "clear" => "report" \in DOMAIN result

-----------------------------------------------------------------------------
(* It is inductive. *)

LEMMA InitInv == Init => IInv
  <1> SUFFICES ASSUME Init PROVE IInv
    OBVIOUS
  <1>1. DOMAIN result = {"code"} /\ result.code = "pending"
    BY DEF Init, Pending
  <1>2. TypeOK
    BY PreflightAssumption DEF Init, TypeOK, Pending, NoPorts
  <1> QED BY <1>1, <1>2 DEF Init, IInv, Pending

(* Reading the neighbors collects a record of each that is attached. *)
LEMMA ReadNeighborsCollects ==
    ASSUME TypeOK, NEW rows \in Orders({n \in Neighbors : where[n] # Absent}),
           observed' = Attachments(rows), whereRead' = where
    PROVE  /\ CollectedAll'
           /\ \A k \in DOMAIN observed' :
                 /\ observed'[k].by \in Neighbors
                 /\ observed'[k].at.interface \in Interfaces
  <1> DEFINE S == {n \in Neighbors : where[n] # Absent}
             D == {j \in DOMAIN rows : where[rows[j]] # NoInterface}
  <1>1. rows \in [1..Cardinality(S) -> S] /\ \A n \in S : \E j \in DOMAIN rows : rows[j] = n
    BY DEF Orders
  <1>2. \A j \in DOMAIN rows : rows[j] \in Neighbors /\ where[rows[j]] \in Places \ {Absent}
    BY <1>1 DEF TypeOK
  <1>3. /\ DOMAIN observed' = D
        /\ \A k \in D : observed'[k] = Seen(rows[k])'
    BY DEF Attachments, Seen
  <1>4. D \subseteq Nat
    BY <1>1
  <1>5. \A k \in D : rows[k] \in Neighbors /\ where[rows[k]] \in Interfaces
    BY <1>2 DEF Places
  <1>6. ASSUME NEW n \in Neighbors, where[n] \in Interfaces
        PROVE  \E k \in D : rows[k] = n
    <2>1. n \in S /\ where[n] # NoInterface
      BY <1>6, PreflightAssumption
    <2> QED BY <1>1, <2>1
  <1> HIDE DEF D, S
  <1>7. CollectedAll'
    BY <1>3, <1>4, <1>5, <1>6 DEF CollectedAll
  <1>8. \A k \in DOMAIN observed' :
           /\ observed'[k].by \in Neighbors
           /\ observed'[k].at.interface \in Interfaces
    BY <1>3, <1>5 DEF Seen
  <1> QED BY <1>7, <1>8

LEMMA NextInv == IInv /\ [Next]_vars => IInv'
  <1> SUFFICES ASSUME IInv, [Next]_vars PROVE IInv'
    OBVIOUS
  <1> USE DEF network, given, history
  <1>1. CASE RequireTarget
    <2>1. result'.code = "TARGET_REQUIRED" /\ "report" \notin DOMAIN result'
      BY <1>1 DEF RequireTarget
    <2>2. TypeOK'
      BY <1>1, <2>1 DEF RequireTarget, IInv, TypeOK
    <2> QED BY <1>1, <2>1, <2>2 DEF RequireTarget, IInv
  <1>2. CASE ReadNeighbors
    <2>1. PICK rows \in Orders({n \in Neighbors : where[n] # Absent}) :
             observed' = Attachments(rows)
      BY <1>2 DEF ReadNeighbors
    <2>2. /\ CollectedAll'
          /\ \A k \in DOMAIN observed' :
                /\ observed'[k].by \in Neighbors
                /\ observed'[k].at.interface \in Interfaces
      BY <1>2, <2>1, ReadNeighborsCollects DEF ReadNeighbors, IInv
    <2>3. result' = Pending /\ "report" \notin DOMAIN Pending /\ Pending.code = "pending"
      BY <1>2 DEF ReadNeighbors, IInv, Pending
    <2>4. TypeOK'
      BY <1>2, <2>2 DEF ReadNeighbors, IInv, TypeOK
    <2> QED BY <1>2, <2>2, <2>3, <2>4 DEF ReadNeighbors, IInv
  <1>3. CASE ReadPorts
    <2>1. result' = Pending /\ "report" \notin DOMAIN Pending /\ Pending.code = "pending"
      BY <1>3 DEF ReadPorts, IInv, Pending
    <2>2. DOMAIN port \subseteq Ports
      BY DEF IInv, TypeOK, PortTables
    <2>3. TypeOK'
      BY <1>3, <2>2 DEF ReadPorts, IInv, TypeOK
    <2>4. CollectedAll'
      BY <1>3 DEF ReadPorts, IInv, CollectedAll, Seen
    <2> QED BY <1>3, <2>1, <2>3, <2>4 DEF ReadPorts, IInv
  <1>4. CASE ReadFails
    <2>1. result'.code = "unavailable" /\ "report" \notin DOMAIN result'
      BY <1>4 DEF ReadFails
    <2>2. TypeOK'
      BY <1>4, <2>1 DEF ReadFails, IInv, TypeOK
    <2> QED BY <1>4, <2>1, <2>2 DEF ReadFails, IInv
  <1>5. CASE JudgeNothing
    <2>1. result'.code = "PREFLIGHT_RISK" /\ "report" \notin DOMAIN result'
      BY <1>5 DEF JudgeNothing
    <2>2. TypeOK'
      BY <1>5, <2>1 DEF JudgeNothing, IInv, TypeOK
    <2> QED BY <1>5, <2>1, <2>2 DEF JudgeNothing, IInv
  <1>6. CASE Judge
    <2>1. /\ result'.code = IF Clear(observed) THEN "clear" ELSE "PREFLIGHT_RISK"
          /\ result'.report = Report(observed)
      BY <1>6 DEF Judge
    <2>2. UNCHANGED <<observed, states, expected, interface, whereRead, portRead>>
      BY <1>6 DEF Judge
    <2>3. Report(observed)' = Report(observed) /\ (Clear(observed)' <=> Clear(observed))
      BY <2>2 DEF Report, Clear, MatchingStates
    <2>4. Judged'
      BY <1>6, <2>1, <2>2, <2>3 DEF Judged, Judge
    <2>5. CollectedAll' /\ states' = [i \in DOMAIN portRead' |-> InterfaceState(portRead'[i])]
      BY <1>6, <2>2 DEF Judge, IInv, CollectedAll, Seen
    <2>6. "report" \in DOMAIN result'
      BY <1>6 DEF Judge
    <2>7. TypeOK'
      BY <1>6, <2>1 DEF Judge, IInv, TypeOK
    <2> QED BY <1>6, <2>4, <2>5, <2>6, <2>7 DEF Judge, IInv
  <1>7. ASSUME UNCHANGED <<given, pc, observed, states, result, history>>, TypeOK'
        PROVE  IInv'
    <2>1. CollectedAll' <=> CollectedAll
      BY <1>7 DEF CollectedAll, Seen
    <2>2. Judged' <=> Judged
      BY <1>7 DEF Judged, Report, Clear
    <2> QED BY <1>7, <2>1, <2>2 DEF IInv
  <1>8. CASE Rewire
    <2>1. TypeOK'
      BY <1>8, PreflightAssumption DEF Rewire, IInv, TypeOK
    <2> QED BY <1>7, <1>8, <2>1 DEF Rewire
  <1>9. CASE PortChanges
    <2>1. TypeOK'
      BY <1>9, PreflightAssumption DEF PortChanges, IInv, TypeOK
    <2> QED BY <1>7, <1>9, <2>1 DEF PortChanges
  <1>10. CASE UNCHANGED vars
    <2>1. TypeOK'
      BY <1>10 DEF vars, IInv, TypeOK
    <2> QED BY <1>7, <1>10, <2>1 DEF vars
  <1> QED BY <1>1, <1>2, <1>3, <1>4, <1>5, <1>6, <1>8, <1>9, <1>10 DEF Next, Preflight

LEMMA Invariance == Spec => []IInv
  BY InitInv, NextInv, PTL DEF Spec

(* Every variable stays within its type. *)
THEOREM TypeCorrect == Spec => []TypeOK
  <1>1. IInv => TypeOK
    BY DEF IInv
  <1> QED BY <1>1, Invariance, PTL
-----------------------------------------------------------------------------
(* What the report says, in terms of the neighbors that were read.         *)

(* The lists that the report is made from. *)
E == ScopedExpected(expected, Target, interface)
O == ScopedObserved(expected, observed, Target, interface)

Share(i, j) == expected[i].keys \cap observed[j].keys # {}

LEMMA Scoped ==
    /\ DOMAIN E = Here
    /\ \A i \in Here : E[i] = expected[i]
    /\ DOMAIN O = {j \in DOMAIN observed :
                      \/ At(observed[j], Target, interface)
                      \/ \E i \in Here : Share(i, j)}
    /\ \A j \in DOMAIN O : O[j] = observed[j]
  <1>1. DOMAIN E = Here /\ \A i \in Here : E[i] = expected[i]
    BY DEF E, ScopedExpected, Here
  <1>2. KeysOfAll(E) = UNION {expected[i].keys : i \in Here}
    BY <1>1 DEF KeysOfAll
  <1>3. \A j \in DOMAIN observed :
           observed[j].keys \cap KeysOfAll(E) # {} <=> \E i \in Here : Share(i, j)
    BY <1>2 DEF Share
  <1>4. /\ DOMAIN O = {j \in DOMAIN observed :
                          \/ At(observed[j], Target, interface)
                          \/ observed[j].keys \cap KeysOfAll(E) # {}}
        /\ \A j \in DOMAIN O : O[j] = observed[j]
    BY DEF O, E, ScopedObserved
  <1> QED BY <1>1, <1>3, <1>4

LEMMA Reported ==
    ASSUME IInv
    PROVE  LET r == Report(observed)
               pairs == Reconcile(E, O).pairs
           IN  /\ r.unknown = {j \in DOMAIN O : \A i \in Here : ~Share(i, j)}
               /\ \A p \in pairs :
                     /\ p = <<p[1], p[2]>>
                     /\ p[1] \in Here /\ p[2] \in DOMAIN O /\ Share(p[1], p[2])
               /\ \A j \in DOMAIN O \ r.unknown : \E i \in Here : <<i, j>> \in pairs
               /\ \A i \in Here :
                     i \in r.missing <=> \A j \in DOMAIN O : <<i, j>> \notin pairs
               /\ r.missing \subseteq Here
               /\ r.moved = {p \in pairs : expected[p[1]].at # observed[p[2]].at}
               /\ r.duplicates = Duplicates(O)
  <1>1. DOMAIN E = Here /\ Here \subseteq DOMAIN expected /\ DOMAIN expected \subseteq Nat
    BY Scoped, InventoriesAssumption DEF IInv, Here
  <1> DEFINE rec == Reconcile(E, O)
             rep == Report(observed)
  <1>2. /\ rep.moved = {p \in rec.pairs : ~(E[p[1]].at = O[p[2]].at)}
        /\ rep.unknown = rec.unknown
        /\ rep.missing = rec.missing
        /\ rep.duplicates = Duplicates(O)
    BY DEF Report, ScopedReport, ReconcileAttachments, E, O
  <1>3. /\ rec.unknown = {j \in DOMAIN O :
                             \A i \in Here : ~(E[i].keys \cap O[j].keys # {})}
        /\ \A p \in rec.pairs :
              /\ p = <<p[1], p[2]>>
              /\ p[1] \in Here /\ p[2] \in DOMAIN O
              /\ E[p[1]].keys \cap O[p[2]].keys # {}
        /\ \A j \in DOMAIN O \ rec.unknown : \E i \in Here : <<i, j>> \in rec.pairs
        /\ \A i \in Here :
              i \in rec.missing <=> \A j \in DOMAIN O : <<i, j>> \notin rec.pairs
    BY <1>1, ReconcileByKeys
  <1>4. \A i \in Here, j \in DOMAIN O :
           /\ E[i].keys \cap O[j].keys # {} <=> Share(i, j)
           /\ E[i].at = expected[i].at /\ O[j].at = observed[j].at
    BY Scoped DEF Share
  <1>5. rec.missing \subseteq Here
    BY <1>1 DEF Reconcile
  <1> HIDE DEF rec, rep
  <1>6. rep.unknown = {j \in DOMAIN O : \A i \in Here : ~Share(i, j)}
    BY <1>2, <1>3, <1>4
  <1>7. \A p \in rec.pairs :
           /\ p = <<p[1], p[2]>>
           /\ p[1] \in Here /\ p[2] \in DOMAIN O /\ Share(p[1], p[2])
    BY <1>3, <1>4
  <1>8. rep.moved = {p \in rec.pairs : expected[p[1]].at # observed[p[2]].at}
    BY <1>2, <1>4, <1>7
  <1> QED BY <1>2, <1>3, <1>5, <1>6, <1>7, <1>8 DEF rec, rep

(* A neighbor that is seen has a record among those collected; one that is *)
(* on the interface, or known to be expected on it, is looked at.          *)
LEMMA LookedAt ==
    ASSUME IInv, CollectedAll, interface # NoInterface,
           NEW n \in Neighbors, whereRead[n] \in Interfaces,
           n \in SeenAt(interface) \/ \E k \in Here : Known(n, k)
    PROVE  \E j \in DOMAIN O :
              observed[j] = Seen(n) /\ \A k \in Here : Known(n, k) <=> Share(k, j)
  <1>1. PICK j \in DOMAIN observed : observed[j] = Seen(n)
    BY DEF CollectedAll
  <1>2. \A k \in Here : Known(n, k) <=> Share(k, j)
    BY <1>1 DEF Known, Share, Seen
  <1>3. n \in SeenAt(interface) => At(observed[j], Target, interface)
    BY <1>1 DEF At, Seen, SeenAt
  <1> QED BY <1>1, <1>2, <1>3, Scoped

LEMMA OnTheInterface ==
    ASSUME IInv, interface # NoInterface
    PROVE  interface \in Interfaces /\ SeenAt(interface) =
              {n \in Neighbors : whereRead[n] \in Interfaces /\ whereRead[n] = interface}
  BY PreflightAssumption DEF IInv, SeenAt

(* A reconciliation without a risk is right about the neighbors.           *)
LEMMA NoRiskIsRight ==
    ASSUME IInv, CollectedAll, interface # NoInterface, ReportOk(Report(observed))
    PROVE  NeighborsAsExpected
  <1> DEFINE pairs == Reconcile(E, O).pairs
  <1>1. /\ \A j \in DOMAIN O : \E i \in Here : Share(i, j)
        /\ \A p \in pairs :
              /\ p[1] \in Here /\ p[2] \in DOMAIN O /\ Share(p[1], p[2])
              /\ expected[p[1]].at = observed[p[2]].at
        /\ \A j \in DOMAIN O : \E i \in Here : <<i, j>> \in pairs
        /\ \A i \in Here : \E j \in DOMAIN O : <<i, j>> \in pairs
    <2> HIDE DEF pairs
    <2>1. /\ Report(observed).moved = {} /\ Report(observed).unknown = {}
          /\ Report(observed).missing = {}
      BY DEF ReportOk
    <2> QED BY <2>1, Reported DEF pairs
  <1>2. \A i \in Here, j \in DOMAIN O : <<i, j>> \in pairs =>
           Share(i, j) /\ expected[i].at = observed[j].at
    BY <1>1
  <1> HIDE DEF pairs
  <1>3. \A k \in Here : expected[k].at.device = Target /\ expected[k].at.interface = interface
    BY DEF Here, At
  <1>4. ASSUME NEW n \in SeenAt(interface) PROVE \E k \in Here : Known(n, k)
    <2>1. n \in Neighbors /\ whereRead[n] \in Interfaces
      BY OnTheInterface
    <2>2. PICK j \in DOMAIN O :
             observed[j] = Seen(n) /\ \A k \in Here : Known(n, k) <=> Share(k, j)
      BY <2>1, LookedAt
    <2> QED BY <1>1, <2>2
  <1>5. ASSUME NEW k \in Here
        PROVE  Unscoped(k) /\ \E n \in SeenAt(interface) : Known(n, k)
    <2>1. PICK j \in DOMAIN O : <<k, j>> \in pairs
      BY <1>1
    <2>2. Share(k, j) /\ expected[k].at = observed[j].at /\ j \in DOMAIN observed
      BY <1>2, <2>1, Scoped
    <2>3. PICK n \in Neighbors : whereRead[n] \in Interfaces /\ observed[j] = Seen(n)
      BY <2>2 DEF CollectedAll
    <2>4. whereRead[n] = interface /\ expected[k].at.scope = "none"
      BY <1>3, <2>2, <2>3 DEF Seen
    <2>5. Known(n, k)
      BY <2>2, <2>3 DEF Share, Known, Seen
    <2> QED BY <2>4, <2>5 DEF Unscoped, SeenAt
  <1>6. ASSUME NEW k \in Here, NEW n \in Elsewhere PROVE ~Known(n, k)
    <2> SUFFICES ASSUME Known(n, k) PROVE FALSE
      OBVIOUS
    <2>1. n \in Neighbors /\ whereRead[n] \in Interfaces /\ whereRead[n] # interface
      BY DEF Elsewhere
    <2>2. PICK j \in DOMAIN O : observed[j] = Seen(n)
      BY <2>1, LookedAt
    <2>3. PICK i \in Here : <<i, j>> \in pairs
      BY <1>1
    <2>4. expected[i].at = observed[j].at
      BY <1>2, <2>3
    <2> QED BY <1>3, <2>1, <2>2, <2>4 DEF Seen
  <1> QED BY <1>4, <1>5, <1>6 DEF NeighborsAsExpected

(* A state without a risk is that of a port which is not down.             *)
LEMMA FirstOfTwo ==
    ASSUME NEW a, NEW b
    PROVE  FirstOf(<<a, b>>) = IF a # "none" THEN a ELSE b
  <1> DEFINE flags == <<a, b>>
             said == {i \in 1..2 : flags[i] # "none"}
  <1>1. DOMAIN flags = 1..2 /\ flags[1] = a /\ flags[2] = b
    OBVIOUS
  <1>2. FirstOf(flags) = IF said = {} THEN "none" ELSE flags[Min(said)]
    BY <1>1 DEF FirstOf
  <1>3. said \subseteq Nat
    OBVIOUS
  <1>4. CASE a # "none"
    <2>1. 1 \in said /\ \A n \in said : 1 <= n
      BY <1>1, <1>4
    <2>2. Min(said) = 1
      <3> HIDE DEF said
      <3> QED BY <1>3, <2>1, MinIs
    <2> QED BY <1>1, <1>2, <1>4, <2>1, <2>2
  <1>5. CASE a = "none" /\ b # "none"
    <2>1. 2 \in said /\ \A n \in said : 2 <= n
      BY <1>1, <1>5
    <2>2. Min(said) = 2
      <3> HIDE DEF said
      <3> QED BY <1>3, <2>1, MinIs
    <2> QED BY <1>1, <1>2, <1>5, <2>1, <2>2
  <1>6. CASE a = "none" /\ b = "none"
    <2>1. said = {}
      BY <1>1, <1>6
    <2> QED BY <1>2, <1>6, <2>1
  <1> QED BY <1>4, <1>5, <1>6

LEMMA FirstOfThree ==
    ASSUME NEW a, NEW b, NEW c
    PROVE  /\ a # "none" => FirstOf(<<a, b, c>>) = a
           /\ a = "none" /\ b # "none" => FirstOf(<<a, b, c>>) = b
  <1> DEFINE flags == <<a, b, c>>
             said == {i \in 1..3 : flags[i] # "none"}
  <1>1. DOMAIN flags = 1..3 /\ flags[1] = a /\ flags[2] = b
    OBVIOUS
  <1>2. FirstOf(flags) = IF said = {} THEN "none" ELSE flags[Min(said)]
    BY <1>1 DEF FirstOf
  <1>3. said \subseteq Nat
    OBVIOUS
  <1>4. CASE a # "none"
    <2>1. 1 \in said /\ \A n \in said : 1 <= n
      BY <1>1, <1>4
    <2>2. Min(said) = 1
      <3> HIDE DEF said
      <3> QED BY <1>3, <2>1, MinIs
    <2> QED BY <1>1, <1>2, <1>4, <2>1, <2>2
  <1>5. CASE a = "none" /\ b # "none"
    <2>1. 2 \in said /\ \A n \in said : 2 <= n
      BY <1>1, <1>5
    <2>2. Min(said) = 2
      <3> HIDE DEF said
      <3> QED BY <1>3, <2>1, MinIs
    <2> QED BY <1>1, <1>2, <1>5, <2>1, <2>2
  <1> QED BY <1>4, <1>5

LEMMA DownIsRisky ==
    ASSUME NEW row, PortDown(row)
    PROVE  StateRisky(InterfaceState(row))
  <1> DEFINE state == InterfaceState(row)
  <1>1. /\ state.disabled = row.disabled
        /\ state.inactive = FirstOf(<<row.inactive, InactiveByStatus(row.status)>>)
        /\ state.running = FirstOf(<<row.running, row.forwarding,
                                     RunningByStatus(row.status)>>)
    BY DEF InterfaceState
  <1> HIDE DEF state
  <1>2. CASE row.disabled = "yes"
    BY <1>1, <1>2 DEF StateRisky, state
  <1>3. CASE row.inactive = "yes"
    BY <1>1, <1>3, FirstOfTwo DEF StateRisky, state
  <1>4. CASE row.running = "no" \/ (row.running = "none" /\ row.forwarding = "no")
    BY <1>1, <1>4, FirstOfThree DEF StateRisky, state
  <1>5. CASE row.inactive = "none" /\ row.status \in {"inactive", "disabled"}
    BY <1>1, <1>5, FirstOfTwo DEF StateRisky, state, InactiveByStatus
  <1> QED BY <1>2, <1>3, <1>4, <1>5 DEF PortDown

(* A report is good if there is no risk in it. *)
LEMMA NoRisks == \A r : Risks(r) = {} <=> ReportOk(r)
  <1>1. ASSUME NEW x, NEW S PROVE {x} \X S = {} <=> S = {}
    <2>1. ASSUME NEW y \in S PROVE <<x, y>> \in {x} \X S
      OBVIOUS
    <2>2. ASSUME NEW p \in {x} \X S PROVE p[2] \in S
      OBVIOUS
    <2> QED BY <2>1, <2>2
  <1> TAKE r
  <1>2. Risks(r) = {} <=> /\ {"moved"} \X r.moved = {}
                          /\ {"unknown"} \X r.unknown = {}
                          /\ {"missing"} \X r.missing = {}
                          /\ {"duplicate"} \X r.duplicates = {}
    BY DEF Risks
  <1> QED BY <1>1, <1>2 DEF ReportOk

(* A preflight that says "clear" is right about the neighbors as they were *)
(* at its first read and about the port as it was at its second.           *)
THEOREM ClearIsRight == Spec => []ClearMeansClear
  <1>1. IInv => ClearMeansClear
    <2> SUFFICES ASSUME IInv, result.code = "clear"
                 PROVE  /\ interface # NoInterface
                        /\ NeighborsAsExpected
                        /\ interface \in DOMAIN portRead => ~PortDown(portRead[interface])
      BY DEF ClearMeansClear
    <2>1. /\ CollectedAll /\ Judged
          /\ states = [i \in DOMAIN portRead |-> InterfaceState(portRead[i])]
      BY DEF IInv
    <2>2. Clear(observed) /\ interface # NoInterface
      BY <2>1 DEF Judged
    <2>3. NeighborsAsExpected
      BY <2>1, <2>2, NoRiskIsRight DEF Clear
    <2>4. interface \in DOMAIN portRead => ~PortDown(portRead[interface])
      BY <2>1, <2>2, DownIsRisky DEF Clear, MatchingStates
    <2> QED BY <2>2, <2>3, <2>4
  <1> QED BY <1>1, Invariance, PTL
-----------------------------------------------------------------------------
(* Where each neighbor answers to one expected attachment at most, and all *)
(* is as expected, the reconciliation raises no risk: nobody is unknown,   *)
(* missing, seen elsewhere, or seen twice.                                 *)
Unambiguous ==
    \A n \in Neighbors : \A j, k \in Here : Known(n, j) /\ Known(n, k) => j = k

LEMMA AsExpectedIsNoRisk ==
    ASSUME IInv, CollectedAll, interface # NoInterface,
           NeighborsAsExpected, Unambiguous
    PROVE  ReportOk(Report(observed))
  <1> DEFINE pairs == Reconcile(E, O).pairs
             r == Report(observed)
  <1>1. /\ r.unknown = {j \in DOMAIN O : \A i \in Here : ~Share(i, j)}
        /\ \A p \in pairs :
              /\ p[1] \in Here /\ p[2] \in DOMAIN O /\ Share(p[1], p[2])
        /\ \A i \in Here, j \in DOMAIN O : <<i, j>> \in pairs => Share(i, j)
        /\ \A j \in DOMAIN O \ r.unknown : \E i \in Here : <<i, j>> \in pairs
        /\ \A i \in Here :
              i \in r.missing <=> \A j \in DOMAIN O : <<i, j>> \notin pairs
        /\ r.missing \subseteq Here
        /\ r.moved = {p \in pairs : expected[p[1]].at # observed[p[2]].at}
        /\ r.duplicates = Duplicates(O)
    BY Reported
  <1> HIDE DEF pairs, r
  (* Whoever is looked at is on the interface and expected there.          *)
  <1>2. ASSUME NEW j \in DOMAIN O
        PROVE  \E n \in SeenAt(interface) :
                  /\ observed[j] = Seen(n)
                  /\ \A k \in Here : Known(n, k) <=> Share(k, j)
                  /\ \E k \in Here : Share(k, j)
    <2>1. /\ j \in DOMAIN observed
          /\ At(observed[j], Target, interface) \/ \E i \in Here : Share(i, j)
      BY Scoped
    <2>2. PICK n \in Neighbors : whereRead[n] \in Interfaces /\ observed[j] = Seen(n)
      BY <2>1 DEF CollectedAll
    <2>3. \A k \in Here : Known(n, k) <=> Share(k, j)
      BY <2>2 DEF Known, Share, Seen
    <2>4. n \in SeenAt(interface)
      <3>1. At(observed[j], Target, interface) => whereRead[n] = interface
        BY <2>2 DEF At, Seen
      <3>2. (\E i \in Here : Share(i, j)) => n \notin Elsewhere
        BY <2>3 DEF NeighborsAsExpected
      <3> QED BY <2>1, <2>2, <3>1, <3>2 DEF Elsewhere, SeenAt
    <2>5. \E k \in Here : Known(n, k)
      BY <2>4 DEF NeighborsAsExpected
    <2> QED BY <2>2, <2>3, <2>4, <2>5
  <1>3. \A j \in DOMAIN O : observed[j].at =
           [device |-> Target, interface |-> interface, scope |-> "none"]
    <2> SUFFICES ASSUME NEW j \in DOMAIN O
                 PROVE  observed[j].at =
                    [device |-> Target, interface |-> interface, scope |-> "none"]
      OBVIOUS
    <2>1. PICK n \in SeenAt(interface) : observed[j] = Seen(n)
      BY <1>2
    <2> QED BY <2>1 DEF Seen, SeenAt
  <1>4. \A k \in Here : expected[k].at =
           [device |-> Target, interface |-> interface, scope |-> "none"]
    <2> SUFFICES ASSUME NEW k \in Here
                 PROVE  expected[k].at =
                    [device |-> Target, interface |-> interface, scope |-> "none"]
      OBVIOUS
    <2>1. expected[k].at.device = Target /\ expected[k].at.interface = interface
      BY DEF Here, At
    <2>2. expected[k].at.scope = "none"
      BY DEF NeighborsAsExpected, Unscoped
    <2>3. expected[k].at =
             [device |-> expected[k].at.device,
              interface |-> expected[k].at.interface,
              scope |-> expected[k].at.scope]
      BY InventoriesAssumption DEF IInv, Here
    <2> QED BY <2>1, <2>2, <2>3
  <1>5. r.unknown = {}
    BY <1>1, <1>2
  <1>6. r.moved = {}
    BY <1>1, <1>3, <1>4
  <1>7. r.missing = {}
    <2> SUFFICES ASSUME NEW k \in Here PROVE \E j \in DOMAIN O : <<k, j>> \in pairs
      BY <1>1
    <2>1. PICK n \in SeenAt(interface) : Known(n, k)
      BY DEF NeighborsAsExpected
    <2>2. n \in Neighbors /\ whereRead[n] \in Interfaces
      BY OnTheInterface
    <2>3. PICK j \in DOMAIN O : \A i \in Here : Known(n, i) <=> Share(i, j)
      BY <2>1, <2>2, LookedAt
    <2>4. PICK i \in Here : <<i, j>> \in pairs
      BY <1>1, <1>5
    <2>5. Known(n, i)
      BY <1>1, <2>3, <2>4
    <2>6. i = k
      BY <2>1, <2>2, <2>5 DEF Unambiguous
    <2> QED BY <2>4, <2>6
  <1>8. r.duplicates = {}
    <2>1. \A i, j \in DOMAIN O : O[i].at = O[j].at
      BY <1>3, Scoped
    <2> QED BY <1>1, <2>1 DEF Duplicates
  <1> QED BY <1>5, <1>6, <1>7, <1>8 DEF ReportOk, r

(* A reconciliation raises no false alarm, whatever order the device lists *)
(* its neighbors in and whatever else the inventory expects.               *)
THEOREM NoAlarmIsFalse == Spec => []NoFalseAlarm
  <1>1. IInv => NoFalseAlarm
    <2> SUFFICES ASSUME IInv, "report" \in DOMAIN result, NeighborsAsExpected,
                        Unambiguous
                 PROVE  Risks(result.report) = {}
      BY DEF NoFalseAlarm, Unambiguous
    <2>1. CollectedAll /\ Judged
      BY DEF IInv
    <2> QED BY <2>1, AsExpectedIsNoRisk, NoRisks DEF Judged
  <1> QED BY <1>1, Invariance, PTL
-----------------------------------------------------------------------------
(* The order in which the device lists its rows does not matter.           *)

(* The scoped observations of a list in another order are the scoped       *)
(* observations in another order.                                          *)
LEMMA ScopedRearranged ==
    ASSUME NEW p, NEW other,
           Rearranges(p, other, observed)
    PROVE  LET Q == ScopedObserved(expected, other, Target, interface)
           IN  Rearranges([j \in DOMAIN Q |-> p[j]], Q, O)
  <1> DEFINE Q == ScopedObserved(expected, other, Target, interface)
             q == [j \in DOMAIN Q |-> p[j]]
             wanted == KeysOfAll(E)
             Inside(o) == At(o, Target, interface) \/ o.keys \cap wanted # {}
  <1>1. /\ DOMAIN Q = {j \in DOMAIN other : Inside(other[j])}
        /\ \A j \in DOMAIN Q : Q[j] = other[j]
        /\ DOMAIN O = {j \in DOMAIN observed : Inside(observed[j])}
        /\ \A j \in DOMAIN O : O[j] = observed[j]
    BY DEF O, E, ScopedObserved
  <1> HIDE DEF Q, Inside
  <1>2. /\ \A j \in DOMAIN other : p[j] \in DOMAIN observed /\ other[j] = observed[p[j]]
        /\ \A k \in DOMAIN observed : \E j \in DOMAIN other : p[j] = k
    BY DEF Rearranges
  <1>3. \A j \in DOMAIN Q : q[j] \in DOMAIN O /\ Q[j] = O[q[j]]
    BY <1>1, <1>2
  <1>4. \A k \in DOMAIN O : \E j \in DOMAIN Q : q[j] = k
    BY <1>1, <1>2
  <1> QED BY <1>3, <1>4 DEF Rearranges, Q

(* Neither the verdict nor who is called unknown, moved or missing depends *)
(* on the order in which the device lists its rows.                        *)
THEOREM AnyOrderWillDo == Spec => []OrderDoesNotMatter
  <1>1. IInv => OrderDoesNotMatter
    <2> SUFFICES ASSUME IInv, "report" \in DOMAIN result,
                        NEW p \in Orders(DOMAIN observed)
                 PROVE  LET other == [j \in DOMAIN p |-> observed[p[j]]]
                        IN  /\ Clear(other) <=> result.code = "clear"
                            /\ Unknown(other) = Unknown(observed)
                            /\ Moved(other) = Moved(observed)
                            /\ Report(other).missing = result.report.missing
      BY DEF OrderDoesNotMatter
    <2> DEFINE other == [j \in DOMAIN p |-> observed[p[j]]]
               Q == ScopedObserved(expected, other, Target, interface)
               q == [j \in DOMAIN Q |-> p[j]]
    <2>1. Rearranges(p, other, observed)
      BY DEF Orders, Rearranges
    <2>2. Rearranges(q, Q, O)
      <3> HIDE DEF other
      <3> QED BY <2>1, ScopedRearranged
    <2>3. /\ Report(other) = ReconcileAttachments(E, Q)
          /\ Report(observed) = ReconcileAttachments(E, O)
      BY DEF Report, ScopedReport, E, O
    <2> HIDE DEF other, Q, q
    <2>4. /\ Report(other).missing = Report(observed).missing
          /\ Report(other).unknown = {j \in DOMAIN Q : q[j] \in Report(observed).unknown}
          /\ ReportOk(Report(other)) <=> ReportOk(Report(observed))
          /\ Report(observed).unknown \subseteq DOMAIN O
          /\ \A t \in Report(observed).moved : t = <<t[1], t[2]>> /\ t[2] \in DOMAIN O
          /\ \A t \in Report(other).moved : t = <<t[1], t[2]>> /\ t[2] \in DOMAIN Q
          /\ \A i, j : j \in DOMAIN Q =>
                (<<i, j>> \in Report(other).moved <=> <<i, q[j]>> \in Report(observed).moved)
      BY <2>2, <2>3, ReconcileAttachmentsRearranged
    <2>5. Unknown(other) = Unknown(observed)
      <3>1. /\ Unknown(other) = {Q[j].by : j \in Report(other).unknown}
            /\ Unknown(observed) = {O[j].by : j \in Report(observed).unknown}
        BY DEF Unknown, Q, O
      <3>2. /\ \A j \in DOMAIN Q : q[j] \in DOMAIN O /\ Q[j] = O[q[j]]
            /\ \A k \in DOMAIN O : \E j \in DOMAIN Q : q[j] = k
        BY <2>2 DEF Rearranges
      <3> QED BY <2>4, <3>1, <3>2
    <2>6. Moved(other) = Moved(observed)
      <3>1. /\ Moved(other) = {<<t[1], Q[t[2]].by>> : t \in Report(other).moved}
            /\ Moved(observed) = {<<t[1], O[t[2]].by>> : t \in Report(observed).moved}
        BY DEF Moved, Q, O
      <3>2. /\ \A j \in DOMAIN Q : q[j] \in DOMAIN O /\ Q[j] = O[q[j]]
            /\ \A k \in DOMAIN O : \E j \in DOMAIN Q : q[j] = k
        BY <2>2 DEF Rearranges
      <3>3. ASSUME NEW t \in Report(other).moved
            PROVE  <<t[1], Q[t[2]].by>> \in Moved(observed)
        <4>1. <<t[1], q[t[2]]>> \in Report(observed).moved /\ Q[t[2]] = O[q[t[2]]]
          BY <2>4, <3>2, <3>3
        <4> QED BY <3>1, <4>1
      <3>4. ASSUME NEW t \in Report(observed).moved
            PROVE  <<t[1], O[t[2]].by>> \in Moved(other)
        <4>1. PICK j \in DOMAIN Q : q[j] = t[2]
          BY <2>4, <3>2, <3>4
        <4>2. <<t[1], j>> \in Report(other).moved /\ Q[j] = O[t[2]]
          BY <2>4, <3>2, <3>4, <4>1
        <4> QED BY <3>1, <4>2
      <3> QED BY <3>1, <3>3, <3>4
    <2>7. Judged
      BY DEF IInv
    <2>8. Clear(other) <=> result.code = "clear"
      BY <2>4, <2>7, NoRisks DEF Clear, Judged
    <2> QED BY <2>4, <2>5, <2>6, <2>7, <2>8 DEF Judged, other
  <1> QED BY <1>1, Invariance, PTL
=============================================================================
