------------------------- MODULE FlowReport_proofs -------------------------
(***************************************************************************)
(* What the reports on the collector's file, and the verdicts on a target, *)
(* may be relied on for, for any flows, inventories and callers.           *)
(***************************************************************************)
EXTENDS FlowReport, Reconciliation_proofs

-----------------------------------------------------------------------------
(* The strongest sighting.  Stronger is a strict total order, and there    *)
(* are finitely many sightings, so that one of them is the strongest.      *)

LEMMA AboveIsLexicographic ==
    ASSUME NEW r, NEW s
    PROVE  Above(r, s) <=>
              \/ r[1] > s[1]
              \/ r[1] = s[1] /\ r[2] > s[2]
              \/ r[1] = s[1] /\ r[2] = s[2] /\ r[3] > s[3]
  <1>1. 1..3 = {1, 2, 3} /\ 1..1-1 = {} /\ 1..2-1 = {1} /\ 1..3-1 = {1, 2}
    OBVIOUS
  <1>2. Above(r, s) <=>
           \/ r[1] > s[1] /\ \A j \in 1..1-1 : r[j] = s[j]
           \/ r[2] > s[2] /\ \A j \in 1..2-1 : r[j] = s[j]
           \/ r[3] > s[3] /\ \A j \in 1..3-1 : r[j] = s[j]
    BY <1>1 DEF Above
  <1> QED BY <1>1, <1>2

Sighting(seq) == (DOMAIN seq) \X {"src", "dst"}

LEMMA SightingsAre ==
    ASSUME NEW target, NEW seq \in Seq(Flows)
    PROVE  /\ Sightings(target, seq) \subseteq Sighting(seq)
           /\ IsFiniteSet(Sightings(target, seq))
  <1>1. Sightings(target, seq) \subseteq Sighting(seq)
    BY DEF Sightings, Sighting
  <1>2. IsFiniteSet(DOMAIN seq)
    <2>1. Len(seq) \in Nat /\ DOMAIN seq = 1..Len(seq)
      OBVIOUS
    <2> QED BY <2>1, FS_Interval
  <1>3. IsFiniteSet({"src", "dst"})
    <2>1. IsFiniteSet({} \cup {"src"})
      BY FS_EmptySet, FS_AddElement
    <2>2. IsFiniteSet(({} \cup {"src"}) \cup {"dst"})
      BY <2>1, FS_AddElement
    <2> QED BY <2>2, ({} \cup {"src"}) \cup {"dst"} = {"src", "dst"}
  <1>4. IsFiniteSet(Sighting(seq))
    BY <1>2, <1>3, FS_Product DEF Sighting
  <1> QED BY <1>1, <1>4, FS_Subset

LEMMA RankIs ==
    ASSUME NEW f \in Flows, NEW dir
    PROVE  /\ Rank(f, dir) = <<Rank(f, dir)[1], Rank(f, dir)[2], Rank(f, dir)[3]>>
           /\ Rank(f, dir)[1] \in Int /\ Rank(f, dir)[2] \in Int /\ Rank(f, dir)[3] \in Int
  BY FlowsAssumption DEF Rank

LEMMA StrongerIsAnOrder ==
    ASSUME NEW seq \in Seq(Flows),
           NEW c \in Sighting(seq), NEW d \in Sighting(seq), NEW e \in Sighting(seq)
    PROVE  /\ ~ Stronger(seq, c, c)
           /\ c # d => Stronger(seq, c, d) \/ Stronger(seq, d, c)
           /\ Stronger(seq, c, d) /\ Stronger(seq, d, e) => Stronger(seq, c, e)
  <1> DEFINE r == Rank(seq[c[1]], c[2])
             s == Rank(seq[d[1]], d[2])
             t == Rank(seq[e[1]], e[2])
  <1>1. /\ c = <<c[1], c[2]>> /\ d = <<d[1], d[2]>> /\ e = <<e[1], e[2]>>
        /\ c[1] \in Nat /\ d[1] \in Nat /\ e[1] \in Nat
        /\ c[2] \in {"src", "dst"} /\ d[2] \in {"src", "dst"} /\ e[2] \in {"src", "dst"}
        /\ seq[c[1]] \in Flows /\ seq[d[1]] \in Flows /\ seq[e[1]] \in Flows
    BY DEF Sighting
  <1>2. /\ r = <<r[1], r[2], r[3]>> /\ r[1] \in Int /\ r[2] \in Int /\ r[3] \in Int
        /\ s = <<s[1], s[2], s[3]>> /\ s[1] \in Int /\ s[2] \in Int /\ s[3] \in Int
        /\ t = <<t[1], t[2], t[3]>> /\ t[1] \in Int /\ t[2] \in Int /\ t[3] \in Int
    BY <1>1, RankIs
  <1>3. /\ Stronger(seq, c, c) <=> Above(r, r) \/ Earlier(c, c)
        /\ Stronger(seq, c, d) <=> Above(r, s) \/ (r = s /\ Earlier(c, d))
        /\ Stronger(seq, d, c) <=> Above(s, r) \/ (s = r /\ Earlier(d, c))
        /\ Stronger(seq, d, e) <=> Above(s, t) \/ (s = t /\ Earlier(d, e))
        /\ Stronger(seq, c, e) <=> Above(r, t) \/ (r = t /\ Earlier(c, e))
    BY DEF Stronger
  <1> HIDE DEF r, s, t
  <1>4. /\ ~Earlier(c, c)
        /\ c # d => Earlier(c, d) \/ Earlier(d, c)
        /\ Earlier(c, d) /\ Earlier(d, e) => Earlier(c, e)
    BY <1>1 DEF Earlier
  <1>5. /\ ~Above(r, r)
        /\ r = s \/ Above(r, s) \/ Above(s, r)
        /\ Above(r, s) /\ Above(s, t) => Above(r, t)
    <2>1. r = s <=> r[1] = s[1] /\ r[2] = s[2] /\ r[3] = s[3]
      BY <1>2
    <2> DEFINE Lex(x, y) == \/ x[1] > y[1]
                            \/ x[1] = y[1] /\ x[2] > y[2]
                            \/ x[1] = y[1] /\ x[2] = y[2] /\ x[3] > y[3]
    <2>2. \A x, y : Above(x, y) <=> Lex(x, y)
      BY AboveIsLexicographic
    <2>3. /\ ~Lex(r, r)
          /\ r = s \/ Lex(r, s) \/ Lex(s, r)
          /\ Lex(r, s) /\ Lex(s, t) => Lex(r, t)
      BY <1>2, <2>1
    <2> HIDE DEF Lex
    <2> QED BY <2>2, <2>3
  <1> QED BY <1>3, <1>4, <1>5

(* Of a set of sightings, one that as few as possible are stronger than:   *)
(* if there was any, fewer were stronger than that.                        *)
LEMMA StrongestExists ==
    ASSUME NEW seq \in Seq(Flows), NEW S, S \subseteq Sighting(seq), IsFiniteSet(S),
           S # {}
    PROVE  \E c \in S : \A d \in S \ {c} : Stronger(seq, c, d)
  <1> DEFINE above(c) == {d \in S : Stronger(seq, d, c)}
             T == {above(c) : c \in S}
  <1>1. T \subseteq FiniteSubsetsOf(S) /\ T # {}
    <2>1. \A c \in S : above(c) \subseteq S /\ IsFiniteSet(above(c))
      BY FS_Subset
    <2> QED BY <2>1 DEF FiniteSubsetsOf
  <1>2. IsWellFoundedOn(StrictSubsetOrdering(S), FiniteSubsetsOf(S))
    BY FS_StrictSubsetOrderingWellFounded
  <1>3. \E x \in T : \A y \in T : ~ (<<y, x>> \in StrictSubsetOrdering(S))
    <2> HIDE DEF T
    <2> QED BY <1>1, <1>2, WFMin
  <1>4. PICK c \in S : \A y \in T : <<y, above(c)>> \notin StrictSubsetOrdering(S)
    BY <1>3
  <1>5. ASSUME NEW d \in above(c) PROVE FALSE
    <2>1. d \in S /\ Stronger(seq, d, c)
      OBVIOUS
    <2>2. above(d) \subseteq above(c)
      BY <2>1, StrongerIsAnOrder
    <2>3. d \notin above(d)
      BY <2>1, StrongerIsAnOrder
    <2>4. <<above(d), above(c)>> \in StrictSubsetOrdering(S)
      BY <2>2, <2>3, <1>5 DEF StrictSubsetOrdering
    <2> QED BY <1>4, <2>1, <2>4
  <1>6. ASSUME NEW d \in S \ {c} PROVE Stronger(seq, c, d)
    <2>1. ~Stronger(seq, d, c)
      BY <1>5
    <2> QED BY <2>1, StrongerIsAnOrder
  <1> QED BY <1>6

LEMMA ResolvesToTheStrongest ==
    ASSUME NEW target, NEW seq \in Seq(Flows), Sightings(target, seq) # {}
    PROVE  LET c == ResolveFlowTarget(target, seq)
           IN  /\ c \in Sightings(target, seq)
               /\ \A d \in Sightings(target, seq) \ {c} : Stronger(seq, c, d)
  <1>1. \E c \in Sightings(target, seq) :
           \A d \in Sightings(target, seq) \ {c} : Stronger(seq, c, d)
    BY SightingsAre, StrongestExists
  <1> QED BY <1>1 DEF ResolveFlowTarget

-----------------------------------------------------------------------------
(* What a verdict on the flows of seq is made of. *)

Evidence(asked, seq) ==
    LET flow == seq[ResolveFlowTarget(asked.target, seq)[1]]
    IN  [s \in DOMAIN asked.envelope |->
            CheckSignal(asked.envelope[s], ObservedSignal(flow, s))]

LEMMA NothingSeen ==
    ASSUME NEW asked, NEW seq, Sightings(asked.target, seq) = {}
    PROVE  /\ ReconcileFlowEnvelope(asked, seq).decision = "block_operation"
           /\ ReconcileFlowEnvelope(asked, seq).resolution = <<>>
           /\ ReconcileFlowEnvelope(asked, seq).health = 0
  BY DEF ReconcileFlowEnvelope

LEMMA SomethingSeen ==
    ASSUME NEW asked, NEW seq, Sightings(asked.target, seq) # {}
    PROVE  LET c == ResolveFlowTarget(asked.target, seq)
               v == ReconcileFlowEnvelope(asked, seq)
           IN  /\ v.decision = Decision(IdentityConfidence(seq[c[1]], c[2]),
                                  TopologyConfidence(asked, seq[c[1]], c[2]),
                                  HealthScore(Evidence(asked, seq)))
               /\ v.resolution = c
               /\ v.evidence = Evidence(asked, seq)
               /\ v.health = HealthScore(Evidence(asked, seq))
  BY DEF ReconcileFlowEnvelope, Evidence

-----------------------------------------------------------------------------
(* More flows. *)

LEMMA Prefixes ==
    ASSUME NEW S, NEW seq \in Seq(S), NEW n \in 0..Len(seq)
    PROVE  /\ SubSeq(seq, 1, n) \in Seq(S)
           /\ Len(SubSeq(seq, 1, n)) = n
           /\ DOMAIN SubSeq(seq, 1, n) = 1..n
           /\ \A i \in 1..n : SubSeq(seq, 1, n)[i] = seq[i]
  OBVIOUS

LEMMA SightingsOfPrefix ==
    ASSUME NEW target, NEW seq \in Seq(Flows), NEW n \in 0..Len(seq)
    PROVE  Sightings(target, SubSeq(seq, 1, n)) =
              {c \in Sightings(target, seq) : c[1] <= n}
  <1>1. /\ DOMAIN SubSeq(seq, 1, n) = 1..n
        /\ \A i \in 1..n : SubSeq(seq, 1, n)[i] = seq[i]
    BY Prefixes
  <1>2. DOMAIN seq = 1..Len(seq) /\ Len(seq) \in Nat
    OBVIOUS
  <1> QED BY <1>1, <1>2 DEF Sightings

(* The strongest of more sightings is the same, or stronger by its rank:   *)
(* among equals the first stays.                                           *)
LEMMA MoreFlows ==
    ASSUME NEW target, NEW seq \in Seq(Flows), NEW n \in 0..Len(seq),
           Sightings(target, SubSeq(seq, 1, n)) # {}
    PROVE  LET c == ResolveFlowTarget(target, SubSeq(seq, 1, n))
               d == ResolveFlowTarget(target, seq)
           IN  /\ c \in Sightings(target, seq) /\ c[1] <= n
               /\ d \in Sightings(target, seq)
               /\ d # c => Above(Rank(seq[d[1]], d[2]), Rank(seq[c[1]], c[2]))
  <1> DEFINE pre == SubSeq(seq, 1, n)
             c == ResolveFlowTarget(target, pre)
             d == ResolveFlowTarget(target, seq)
  <1>1. pre \in Seq(Flows) /\ \A i \in 1..n : pre[i] = seq[i]
    BY Prefixes
  <1>2. /\ c \in Sightings(target, pre)
        /\ \A e \in Sightings(target, pre) \ {c} : Stronger(pre, c, e)
    BY <1>1, ResolvesToTheStrongest
  <1>3. c \in Sightings(target, seq) /\ c[1] <= n
    <2>1. Sightings(target, pre) = {e \in Sightings(target, seq) : e[1] <= n}
      BY SightingsOfPrefix
    <2> HIDE DEF c, pre
    <2> QED BY <1>2, <2>1
  <1>4. /\ d \in Sightings(target, seq)
        /\ c # d => Stronger(seq, d, c)
    BY <1>3, ResolvesToTheStrongest
  <1>5. c \in Sighting(seq) /\ d \in Sighting(seq)
    BY <1>3, <1>4, SightingsAre
  <1>6. /\ c[1] \in 1..Len(seq) /\ d[1] \in 1..Len(seq)
        /\ c[1] \in 1..n
    BY <1>3, <1>5 DEF Sighting
  <1> HIDE DEF c, d, pre
  <1>7. ASSUME c # d, ~Above(Rank(seq[d[1]], d[2]), Rank(seq[c[1]], c[2]))
        PROVE  FALSE
    <2>1. /\ Rank(seq[d[1]], d[2]) = Rank(seq[c[1]], c[2])
          /\ Earlier(d, c)
      BY <1>4, <1>7 DEF Stronger
    <2>2. d[1] <= c[1]
      BY <1>6, <2>1 DEF Earlier
    <2>3. d[1] \in 1..n
      BY <1>3, <1>6, <2>2
    <2>4. d \in Sightings(target, pre)
      BY <1>4, <2>3, SightingsOfPrefix DEF pre
    <2>5. Stronger(pre, c, d)
      BY <1>2, <1>7, <2>4
    <2>6. Stronger(seq, c, d)
      BY <1>1, <1>6, <2>3, <2>5 DEF Stronger
    <2>7. Stronger(seq, c, c)
      BY <1>4, <1>5, <1>7, <2>6, StrongerIsAnOrder
    <2> QED BY <1>5, <2>7, StrongerIsAnOrder
  <1> QED BY <1>3, <1>4, <1>7 DEF c, d, pre

-----------------------------------------------------------------------------
(* The scores of a verdict. *)

LEMMA RoundedIsNear ==
    ASSUME NEW sum \in Nat, NEW n \in Nat \ {0}
    PROVE  /\ Rounded(sum, n) \in Nat
           /\ sum <= 100 * n => Rounded(sum, n) <= 100
           /\ Rounded(sum, n) >= 80 => sum >= 79 * n
  <1> DEFINE q == sum \div n
             r == sum % n
  <1>1. q \in Nat /\ r \in 0..n-1 /\ sum = n * q + r
    OBVIOUS
  <1>2. Rounded(sum, n) \in {q, q + 1} /\ (r = 0 => Rounded(sum, n) = q)
    BY <1>1 DEF Rounded
  <1> HIDE DEF q, r
  <1>3. n * q + r <= 100 * n => q <= 100 /\ (q = 100 => r = 0)
    BY <1>1
  <1>4. q >= 79 => n * q + r >= 79 * n
    BY <1>1
  <1> QED BY <1>1, <1>2, <1>3, <1>4

Statuses == {"missing", "inside_envelope", "out_of_envelope"}

LEMMA SignalsHaveAStatus ==
    ASSUME NEW spec, NEW signal
    PROVE  CheckSignal(spec, signal) \in Statuses
  BY DEF CheckSignal, Statuses

(* A score of 80 takes more signals inside the envelope than elsewhere:    *)
(* with as many missing or outside, it is 75 at most.                      *)
LEMMA HealthIsEarned ==
    ASSUME NEW D, IsFiniteSet(D), NEW evidence \in [D -> Statuses]
    PROVE  LET bad == D \ Having(evidence, "inside_envelope")
           IN  /\ HealthScore(evidence) \in 0..100
               /\ (HealthScore(evidence) >= 80 /\ bad # {}) =>
                     Cardinality(bad) < Cardinality(D \ bad)
  <1> DEFINE inside  == Having(evidence, "inside_envelope")
             missing == Having(evidence, "missing")
             bad     == D \ inside
             i == Cardinality(inside)
             m == Cardinality(missing)
             b == Cardinality(bad)
             n == Cardinality(D)
  <1>1. /\ inside \subseteq D /\ missing \subseteq bad /\ bad \subseteq D
        /\ D \ bad = inside /\ inside \cap bad = {} /\ inside \cup bad = D
    BY DEF Having
  <1>2. IsFiniteSet(inside) /\ IsFiniteSet(missing) /\ IsFiniteSet(bad)
    BY <1>1, FS_Subset
  <1>3. i \in Nat /\ m \in Nat /\ b \in Nat /\ n \in Nat
    BY <1>2, FS_CardinalityType
  <1>4. m <= b
    BY <1>1, <1>2, FS_Subset
  <1>5. n = i + b
    <2>1. Cardinality(inside \cap bad) = 0
      BY <1>1, FS_EmptySet
    <2>2. Cardinality(inside \cup bad) = i + b - Cardinality(inside \cap bad)
      BY <1>2, FS_Union
    <2>3. Cardinality(inside \cup bad) = n
      BY <1>1
    <2> HIDE DEF inside, bad, i, b, n
    <2> QED BY <1>3, <2>1, <2>2, <2>3
  <1>6. D = {} <=> n = 0
    BY FS_EmptySet
  <1>7. HealthScore(evidence) = IF D = {} THEN 100 ELSE Rounded(100 * i + 50 * m, n)
    BY DEF HealthScore
  <1> HIDE DEF inside, missing, bad, i, m, b, n
  <1>8. CASE D = {}
    BY <1>1, <1>7, <1>8 DEF bad, inside
  <1>9. CASE D # {}
    <2> DEFINE sum == 100 * i + 50 * m
    <2>1. n \in Nat \ {0} /\ sum \in Nat /\ sum <= 100 * n
      BY <1>3, <1>4, <1>5, <1>6, <1>9
    <2>2. sum >= 79 * n => b < i
      BY <1>3, <1>4, <1>5, <2>1
    <2>3. HealthScore(evidence) = Rounded(sum, n)
      BY <1>7, <1>9
    <2> HIDE DEF sum
    <2>4. /\ Rounded(sum, n) \in 0..100
          /\ Rounded(sum, n) >= 80 => sum >= 79 * n
      <3>1. /\ Rounded(sum, n) \in Nat
            /\ sum <= 100 * n => Rounded(sum, n) <= 100
            /\ Rounded(sum, n) >= 80 => sum >= 79 * n
        BY <2>1, RoundedIsNear, Zenon
      <3> QED BY <2>1, <3>1
    <2> QED BY <1>1, <2>2, <2>3, <2>4 DEF bad, inside, b, i
  <1> QED BY <1>8, <1>9

LEMMA SafeTakes ==
    ASSUME NEW identity \in Int, NEW topology \in Int, NEW health \in Int
    PROVE  /\ Decision(identity, topology, health) \in
                 {"block_operation", "investigate_first", "allow_with_confirmation", "safe"}
           /\ Decision(identity, topology, health) = "safe" =>
                 topology >= 80 /\ health >= 80
  BY DEF Decision

LEMMA TopologyTakes ==
    ASSUME NEW asked, NEW flow, NEW dir
    PROVE  /\ TopologyConfidence(asked, flow, dir) \in Int
           /\ TopologyConfidence(asked, flow, dir) >= 80 =>
                 /\ Truthy(asked.device) => flow.exporter = asked.device
                 /\ Truthy(asked.interface) => InterfaceOf(flow, dir) = asked.interface
  BY DEF TopologyConfidence

EarnedBy(evidence) ==
    LET bad == DOMAIN evidence \ Having(evidence, "inside_envelope")
    IN  bad # {} => Cardinality(bad) < Cardinality(DOMAIN evidence \ bad)

(* A verdict on any flows. *)
LEMMA VerdictIsEarned ==
    ASSUME NEW c \in Callers, NEW seq \in Seq(Flows)
    PROVE  LET v == ReconcileFlowEnvelope(c.expected, seq)
               at == v.resolution
               bad == DOMAIN v.evidence \ Having(v.evidence, "inside_envelope")
           IN  /\ v.health \in 0..100
               /\ v.decision \in {"block_operation", "investigate_first",
                                  "allow_with_confirmation", "safe"}
               /\ v.decision = "safe" =>
                     /\ at[1] \in DOMAIN seq
                     /\ Matches(c.expected.target, seq[at[1]], at[2])
                     /\ Truthy(c.expected.device) => seq[at[1]].exporter = c.expected.device
                     /\ Truthy(c.expected.interface) =>
                           InterfaceOf(seq[at[1]], at[2]) = c.expected.interface
                     /\ bad # {} => Cardinality(bad) < Cardinality(DOMAIN v.evidence \ bad)
  <1> DEFINE asked == c.expected
             v == ReconcileFlowEnvelope(asked, seq)
             at == ResolveFlowTarget(asked.target, seq)
             E == Evidence(asked, seq)
             topology == TopologyConfidence(asked, seq[at[1]], at[2])
             identity == IdentityConfidence(seq[at[1]], at[2])
             health == HealthScore(E)
  <1> HIDE DEF asked
  <1>1. CASE Sightings(asked.target, seq) = {}
    <2>1. v.decision = "block_operation" /\ v.health = 0
      BY <1>1, NothingSeen
    <2> HIDE DEF v
    <2> QED BY <2>1 DEF v, asked
  <1>2. CASE Sightings(asked.target, seq) # {}
    <2>1. /\ v.decision = Decision(identity, topology, health)
          /\ v.resolution = at
          /\ v.evidence = E
          /\ v.health = health
      BY <1>2, SomethingSeen
    <2>2. IsFiniteSet(DOMAIN asked.envelope) /\ E \in [DOMAIN asked.envelope -> Statuses]
      BY CallersAssumption, SignalsHaveAStatus DEF Evidence, asked
    <2>3. at \in Sightings(asked.target, seq)
      BY <1>2, ResolvesToTheStrongest
    <2>4. at[1] \in DOMAIN seq /\ Matches(asked.target, seq[at[1]], at[2])
      <3> HIDE DEF at
      <3> QED BY <2>3 DEF Sightings
    <2>5. identity \in Int
      BY DEF IdentityConfidence
    <2> HIDE DEF at, E, v
    <2>6. DOMAIN E = DOMAIN asked.envelope
      BY <2>2
    <2>7. health \in 0..100 /\ (health >= 80 => EarnedBy(E))
      BY <2>2, <2>6, HealthIsEarned DEF EarnedBy
    <2>8. topology \in Int
      BY TopologyTakes
    <2> HIDE DEF topology, identity, health
    <2>9. /\ v.decision = "safe" => topology >= 80 /\ health >= 80
          /\ v.decision \in {"block_operation", "investigate_first",
                              "allow_with_confirmation", "safe"}
      BY <2>1, <2>5, <2>7, <2>8, SafeTakes
    <2>10. v.decision = "safe" =>
              /\ Truthy(asked.device) => seq[at[1]].exporter = asked.device
              /\ Truthy(asked.interface) => InterfaceOf(seq[at[1]], at[2]) = asked.interface
      BY <2>9, TopologyTakes DEF topology
    <2> QED BY <2>1, <2>4, <2>7, <2>9, <2>10 DEF v, asked, EarnedBy
  <1> QED BY <1>1, <1>2

-----------------------------------------------------------------------------
(***************************************************************************)
(* The inductive invariant: a report and a verdict are those on a          *)
(* beginning of what is there now, and a report is of a file that was      *)
(* whole.                                                                  *)
(***************************************************************************)
Devices == {FlowDevice(f, dir) : f \in Flows, dir \in {"src", "dst"}}
Entries == Devices \cup {Torn}

VerdictFits ==
    \/ verdict = NoVerdict
    \/ \E n \in 0..Len(flows) :
          verdict = ReconcileFlowEnvelope(expected, SubSeq(flows, 1, n))

ReportFits ==
    /\ report.read \in 0..Len(lines)
    /\ Reported =>
          /\ ~IsTorn(ReadLines)
          /\ report.found = ReportOn(ReadLines)

IInv ==
    /\ flows \in Seq(Flows) /\ Len(flows) <= MaxFlows
    /\ lines \in Seq(Entries)
    /\ caller \in Callers
    /\ VerdictFits
    /\ ReportFits

LEMMA Extended ==
    ASSUME NEW S, NEW s \in Seq(S), NEW t \in Seq(S), NEW n \in 0..Len(s)
    PROVE  /\ s \o t \in Seq(S)
           /\ n \in 0..Len(s \o t)
           /\ SubSeq(s \o t, 1, n) = SubSeq(s, 1, n)
  OBVIOUS

LEMMA FlowDevicesAreEntries ==
    ASSUME NEW f \in Flows
    PROVE  FlowDevices(f, Endpoint) \in Seq(Entries)
  <1>1. FlowDevice(f, "src") \in Entries /\ FlowDevice(f, "dst") \in Entries
    BY DEF Entries, Devices
  <1>2. /\ <<FlowDevice(f, "src")>> \in Seq(Entries)
        /\ <<FlowDevice(f, "dst")>> \in Seq(Entries)
        /\ <<>> \in Seq(Entries)
    BY <1>1
  <1> QED BY <1>2 DEF FlowDevices

LEMMA InitInv == Init => IInv
  BY FlowsBound DEF Init, IInv, VerdictFits, ReportFits, NoReport, Reported

(* What has been read stays what it was when more lines are written. *)
LEMMA ReportStays ==
    ASSUME IInv, NEW more \in Seq(Entries), lines' = lines \o more,
           UNCHANGED <<report, caller>>
    PROVE  lines' \in Seq(Entries) /\ ReportFits'
  <1>1. /\ report.read \in 0..Len(lines) /\ lines \in Seq(Entries)
    BY DEF IInv, ReportFits
  <1>2. /\ lines' \in Seq(Entries)
        /\ report.read \in 0..Len(lines')
        /\ SubSeq(lines', 1, report.read) = SubSeq(lines, 1, report.read)
    BY <1>1, Extended
  <1>3. ReadLines' = ReadLines
    BY <1>2 DEF ReadLines
  <1>4. ReportOn(ReadLines)' = ReportOn(ReadLines)
    BY <1>3 DEF ReportOn, inventory, load
  <1>5. Reported' = Reported
    BY DEF Reported
  <1> QED BY <1>2, <1>3, <1>4, <1>5 DEF IInv, ReportFits

LEMMA NextInv == IInv /\ [Next]_vars => IInv'
  <1> SUFFICES ASSUME IInv, [Next]_vars PROVE IInv'
    OBVIOUS
  <1>1. CASE Collect
    <2>1. PICK f \in Flows :
             /\ flows' = Append(flows, f)
             /\ lines' = lines \o FlowDevices(f, Endpoint)
      BY <1>1 DEF Collect
    <2>2. Len(flows) < MaxFlows /\ UNCHANGED <<caller, report, verdict>>
      BY <1>1 DEF Collect
    <2>3. lines' \in Seq(Entries) /\ ReportFits'
      BY <2>1, <2>2, FlowDevicesAreEntries, ReportStays
    <2>4. /\ flows' \in Seq(Flows) /\ Len(flows') = Len(flows) + 1
          /\ \A n \in 0..Len(flows) :
                /\ n \in 0..Len(flows')
                /\ SubSeq(flows', 1, n) = SubSeq(flows, 1, n)
      BY <2>1 DEF IInv
    <2>5. VerdictFits'
      BY <2>2, <2>4 DEF IInv, VerdictFits, expected
    <2>6. Len(flows') <= MaxFlows
      BY <2>2, <2>4, FlowsBound DEF IInv
    <2> QED BY <2>2, <2>3, <2>4, <2>5, <2>6 DEF IInv
  <1>2. CASE Tear
    <2>1. lines' = lines \o <<Torn>> /\ <<Torn>> \in Seq(Entries)
      BY <1>2 DEF Tear, IInv, Entries
    <2>2. lines' \in Seq(Entries) /\ ReportFits'
      BY <1>2, <2>1, ReportStays DEF Tear
    <2> QED BY <1>2, <2>2 DEF Tear, IInv, VerdictFits, expected
  <1>3. CASE NothingCaptured \/ NoClients \/ LoadFails
    <2>1. /\ report'.read = Len(lines) /\ report'.outcome # "report"
          /\ UNCHANGED <<flows, lines, caller, verdict>>
      <3>1. ASSUME NEW o, o # "report", Refuse(o)
            PROVE  /\ report'.read = Len(lines) /\ report'.outcome # "report"
                   /\ UNCHANGED <<flows, lines, caller, verdict>>
        BY <3>1 DEF Refuse
      <3> QED BY <1>3, <3>1 DEF NothingCaptured, NoClients, LoadFails
    <2>2. ReportFits'
      BY <2>1 DEF ReportFits, Reported, IInv
    <2> QED BY <2>1, <2>2 DEF IInv, VerdictFits, expected
  <1>4. CASE MakeReport
    <2>1. /\ report'.read = Len(lines) /\ report'.found = ReportOn(lines)
          /\ ~IsTorn(lines)
          /\ UNCHANGED <<flows, lines, caller, verdict>>
      BY <1>4 DEF MakeReport
    <2>2. SubSeq(lines, 1, Len(lines)) = lines /\ Len(lines) \in Nat
      BY DEF IInv
    <2>3. ReadLines' = lines
      BY <2>1, <2>2 DEF ReadLines
    <2>4. ReportOn(ReadLines)' = ReportOn(lines)
      BY <2>1, <2>3 DEF ReportOn, inventory, load
    <2>5. ReportFits'
      BY <2>1, <2>2, <2>3, <2>4 DEF ReportFits
    <2> QED BY <2>1, <2>5 DEF IInv, VerdictFits, expected
  <1>5. CASE Judge
    <2>1. /\ verdict' = ReconcileFlowEnvelope(expected, flows)
          /\ UNCHANGED <<flows, lines, caller, report>>
      BY <1>5 DEF Judge
    <2>2. SubSeq(flows, 1, Len(flows)) = flows /\ Len(flows) \in 0..Len(flows)
      BY DEF IInv
    <2>3. VerdictFits'
      BY <2>1, <2>2 DEF VerdictFits, expected
    <2>4. ReportFits'
      BY <2>1 DEF IInv, ReportFits, Reported, ReadLines, ReportOn, inventory, load
    <2> QED BY <2>1, <2>3, <2>4 DEF IInv
  <1>6. CASE UNCHANGED vars
    <2>1. ReportFits'
      BY <1>6 DEF vars, IInv, ReportFits, Reported, ReadLines, ReportOn, inventory, load
    <2> QED BY <1>6, <2>1 DEF vars, IInv, VerdictFits, expected
  <1> QED BY <1>1, <1>2, <1>3, <1>4, <1>5, <1>6 DEF Next

(* However the file and the flows grow, reports and verdicts stay those on *)
(* a beginning of them.                                                    *)
THEOREM Invariance == Spec => []IInv
  BY InitInv, NextInv, PTL DEF Spec

-----------------------------------------------------------------------------
(* Verdicts. *)

LEMMA ExpectedIsGiven ==
    ASSUME IInv
    PROVE  expected = caller.expected /\ caller \in Callers
  BY DEF IInv, expected

(* An operation is called safe on evidence alone, however many flows have  *)
(* come in since.                                                          *)
THEOREM SafetyIsEarned == Spec => []SafeIsEarned
  <1>1. IInv => SafeIsEarned
    <2> SUFFICES ASSUME IInv, verdict.decision = "safe" PROVE SafeIsEarned
      BY DEF SafeIsEarned
    <2>1. verdict # NoVerdict
      BY DEF NoVerdict
    <2>2. PICK n \in 0..Len(flows) :
             verdict = ReconcileFlowEnvelope(expected, SubSeq(flows, 1, n))
      BY <2>1 DEF IInv, VerdictFits
    <2> DEFINE seq == SubSeq(flows, 1, n)
               c == verdict.resolution
    <2>3. /\ seq \in Seq(Flows) /\ DOMAIN seq = 1..n
          /\ \A i \in 1..n : seq[i] = flows[i]
      BY Prefixes DEF IInv
    <2>4. /\ c[1] \in DOMAIN seq
          /\ Matches(expected.target, seq[c[1]], c[2])
          /\ Truthy(expected.device) => seq[c[1]].exporter = expected.device
          /\ Truthy(expected.interface) =>
                InterfaceOf(seq[c[1]], c[2]) = expected.interface
          /\ LET bad == DOMAIN verdict.evidence
                            \ Having(verdict.evidence, "inside_envelope")
             IN  bad # {} => Cardinality(bad) < Cardinality(DOMAIN verdict.evidence \ bad)
      <3> HIDE DEF seq
      <3>1. verdict = ReconcileFlowEnvelope(caller.expected, seq)
        BY <2>2, ExpectedIsGiven DEF seq
      <3> QED BY <2>3, <3>1, ExpectedIsGiven, VerdictIsEarned
    <2>5. seq[c[1]] = flows[c[1]]
      BY <2>3, <2>4
    <2> HIDE DEF seq, c
    <2> QED BY <2>4, <2>5 DEF SafeIsEarned, c
  <1> QED BY <1>1, Invariance, PTL

(* The observation that a target is judged by is only ever replaced by a   *)
(* stronger one.                                                           *)
THEOREM MovesToStronger == Spec => VerdictMovesToStronger
  <1> DEFINE Moves ==
                verdict.resolution # <<>> /\ verdict'.resolution # verdict.resolution =>
                    /\ verdict'.resolution # <<>>
                    /\ Above(Strength(verdict'), Strength(verdict))
  <1>1. IInv /\ [Next]_vars => [Moves]_vars
    <2> SUFFICES ASSUME IInv, Next, verdict.resolution # <<>>,
                        verdict'.resolution # verdict.resolution
                 PROVE  /\ verdict'.resolution # <<>>
                        /\ Above(Strength(verdict'), Strength(verdict))
      BY DEF vars
    <2>1. Judge
      BY DEF Next, Collect, Tear, NothingCaptured, NoClients, LoadFails, MakeReport, Refuse
    <2>2. /\ verdict' = ReconcileFlowEnvelope(expected, flows)
          /\ flows' = flows /\ flows \in Seq(Flows)
      BY <2>1 DEF Judge, IInv
    <2>3. verdict # NoVerdict
      BY DEF NoVerdict
    <2>4. PICK n \in 0..Len(flows) :
             verdict = ReconcileFlowEnvelope(expected, SubSeq(flows, 1, n))
      BY <2>3 DEF IInv, VerdictFits
    <2> DEFINE pre == SubSeq(flows, 1, n)
               target == expected.target
               c == ResolveFlowTarget(target, pre)
               d == ResolveFlowTarget(target, flows)
    <2>5. Sightings(target, pre) # {} /\ verdict.resolution = c
      BY <2>4, NothingSeen, SomethingSeen
    <2>6. /\ c \in Sightings(target, flows)
          /\ d \in Sightings(target, flows)
          /\ d # c => Above(Rank(flows[d[1]], d[2]), Rank(flows[c[1]], c[2]))
      BY <2>2, <2>5, MoreFlows
    <2>7. verdict'.resolution = d
      BY <2>2, <2>6, SomethingSeen
    <2>8. d = <<d[1], d[2]>>
      <3> HIDE DEF d
      <3> QED BY <2>6 DEF Sightings
    <2> HIDE DEF c, d, pre, target
    <2>9. /\ Strength(verdict') = Rank(flows[d[1]], d[2])
          /\ Strength(verdict) = Rank(flows[c[1]], c[2])
      BY <2>2, <2>5, <2>7 DEF Strength
    <2>10. d # c /\ d # <<>>
      <3>1. ASSUME NEW x, NEW y PROVE <<x, y>> # <<>>
        <4>1. Len(<<x, y>>) = 2 /\ Len(<<>>) = 0
          OBVIOUS
        <4> QED BY <4>1
      <3>2. d # <<>>
        BY <2>8, <3>1
      <3> QED BY <2>5, <2>7, <3>2
    <2> QED BY <2>6, <2>7, <2>9, <2>10
  <1>2. Spec => [][Moves]_vars
    BY <1>1, Invariance, PTL DEF Spec
  <1> QED BY <1>2 DEF VerdictMovesToStronger

-----------------------------------------------------------------------------
(* Reports, on the records D of a whole file. *)

Asked == Options(load, inventory)

LEMMA GivenCaller ==
    ASSUME IInv
    PROVE  /\ DOMAIN inventory \subseteq Nat
           /\ \A i \in DOMAIN inventory : inventory[i].client \in BOOLEAN
           /\ \A f \in Flows : \A i \in DOMAIN inventory :
                 inventory[i].id \notin f.srcIds \cup f.dstIds
           /\ load.scope \in Scopes
           /\ Asked.scope = load.scope
           /\ Asked.excludeExporters = load.excludeExporters
           /\ Asked.externalPeers = load.externalPeers
           /\ Asked.networks = load.networks
           /\ Asked.infrastructure = HostsOf(inventory, FALSE)
           /\ Asked.customers = HostsOf(inventory, TRUE)
  BY CallersAssumption, FlowsAssumption DEF IInv, inventory, load, Asked, Options

LEMMA DevicesAre ==
    ASSUME IInv, NEW d \in Devices
    PROVE  /\ d.host \in Hosts /\ d.direction \in {"src", "dst"}
           /\ HostKey(d.host) \in d.keys
           /\ d.keys \cap KeysOfAll(Clients) \subseteq {HostKey(d.host)}
  <1>1. PICK f \in Flows, dir \in {"src", "dst"} : d = FlowDevice(f, dir)
    BY DEF Devices
  <1>2. /\ d.host \in {f.src, f.dst} /\ d.direction = dir
        /\ d.keys = {HostKey(d.host)}
              \cup {<<"id", i>> : i \in IF dir = "src" THEN f.srcIds ELSE f.dstIds}
              \cup {<<"mac", k>> : k \in IF dir = "src" THEN f.srcMac ELSE f.dstMac}
    BY <1>1, FlowsAssumption DEF FlowDevice
  <1>3. ASSUME NEW k \in d.keys, k \in KeysOfAll(Clients) PROVE k = HostKey(d.host)
    <2>1. PICK i \in DOMAIN inventory :
             k \in {HostKey(h) : h \in inventory[i].hosts} \cup {<<"id", inventory[i].id>>}
      BY <1>3 DEF KeysOfAll, Clients, ExpectedClients, ClientsOf, InventoryDevice
    <2>2. inventory[i].id \notin f.srcIds \cup f.dstIds
      BY GivenCaller
    <2> QED BY <1>2, <1>3, <2>1, <2>2 DEF HostKey
  <1> QED BY <1>2, <1>3, FlowsAssumption

LEMMA ClassesAre ==
    ASSUME NEW d, d.host \in Hosts, NEW o
    PROVE  Classify(d, o) \in Classes
  BY AddressKinds DEF Classify, Classes

(* The first record of a host that is included is kept. *)
LEMMA FirstIsKept ==
    ASSUME NEW S, NEW D \in Seq(S), NEW o, NEW i \in DOMAIN D, Included(D[i], o)
    PROVE  \E j \in Kept(D, o) : j <= i /\ D[j].host = D[i].host
  <1> DEFINE same == {j \in DOMAIN D : Included(D[j], o) /\ D[j].host = D[i].host}
  <1>1. same \subseteq Nat /\ i \in same
    OBVIOUS
  <1>2. PICK j \in same : \A k \in same : j <= k
    <2> HIDE DEF same
    <2> QED BY <1>1, Least
  <1>3. ASSUME NEW k \in 1..j-1, Included(D[k], o), D[k].host = D[j].host PROVE FALSE
    <2>1. k \in same /\ k < j
      BY <1>2, <1>3
    <2> QED BY <1>2, <2>1
  <1>4. j \in Kept(D, o)
    BY <1>2, <1>3 DEF Kept
  <1> QED BY <1>1, <1>2, <1>4

LEMMA BucketsAre ==
    ASSUME NEW D
    PROVE  /\ DOMAIN ReportOn(D).buckets = Buckets
           /\ \A b \in Buckets :
                 ReportOn(D).buckets[b] =
                    {D[j].host : j \in {i \in Kept(D, Asked) :
                                          Bucket(Classify(D[i], Asked)) = b}}
           /\ ReportOn(D).buckets = [b \in Buckets |-> ReportOn(D).buckets[b]]
  <1> DEFINE observed == FlowRecordsToDevices(D, Asked)
             in(b) == {j \in DOMAIN observed : Bucket(observed[j].class) = b}
             hosts(b) == {observed[j].host : j \in in(b)}
  <1>1. ReportOn(D).buckets = [b \in Buckets |-> hosts(b)]
    BY DEF ReportOn, ApplyFlowReconPolicy, Asked
  <1>2. /\ DOMAIN observed = Kept(D, Asked)
        /\ \A j \in Kept(D, Asked) :
              /\ observed[j].host = D[j].host
              /\ observed[j].class = Classify(D[j], Asked)
    BY DEF FlowRecordsToDevices
  <1>3. ASSUME NEW b
        PROVE  hosts(b) = {D[j].host : j \in {i \in Kept(D, Asked) :
                                          Bucket(Classify(D[i], Asked)) = b}}
    <2> HIDE DEF observed
    <2> QED BY <1>2
  <1> QED BY <1>1, <1>3

LEMMA MissingAre ==
    ASSUME IInv, NEW D \in Seq(Devices)
    PROVE  ReportOn(D).missing =
              {k \in DOMAIN Clients :
                 \A j \in Kept(D, Asked) : ~Leads(Clients, HostKey(D[j].host), k)}
  <1> DEFINE observed == FlowRecordsToDevices(D, Asked)
             key == [j \in Kept(D, Asked) |-> HostKey(D[j].host)]
  <1>1. ReportOn(D).missing = Reconcile(Clients, observed).missing
    BY DEF ReportOn, ApplyFlowReconPolicy, Asked, Clients
  <1>2. DOMAIN Clients \subseteq Nat
    BY GivenCaller DEF Clients, ExpectedClients, ClientsOf
  <1>3. DOMAIN observed = Kept(D, Asked)
        /\ \A j \in DOMAIN observed : observed[j].keys = D[j].keys /\ D[j] \in Devices
    BY DEF FlowRecordsToDevices, Kept
  <1>4. \A j \in DOMAIN observed :
           /\ key[j] \in observed[j].keys
           /\ observed[j].keys \cap KeysOfAll(Clients) \subseteq {key[j]}
    BY <1>3, DevicesAre
  <1>5. Reconcile(Clients, observed).missing =
           {k \in DOMAIN Clients : \A j \in DOMAIN observed : ~Leads(Clients, key[j], k)}
    <2> HIDE DEF observed, key
    <2> QED BY <1>2, <1>4, ReconcileByOneKey
  <1> HIDE DEF observed
  <1> QED BY <1>1, <1>3, <1>5

(* Whom the report finds depends on the records that are included alone.   *)
LEMMA MissingByIncluded ==
    ASSUME IInv, NEW D \in Seq(Devices)
    PROVE  ReportOn(D).missing =
              {k \in DOMAIN Clients :
                 \A i \in DOMAIN D :
                    Included(D[i], Asked) => ~Leads(Clients, HostKey(D[i].host), k)}
  <1>1. ASSUME NEW k
        PROVE  (\A j \in Kept(D, Asked) : ~Leads(Clients, HostKey(D[j].host), k))
                  <=> \A i \in DOMAIN D :
                         Included(D[i], Asked) => ~Leads(Clients, HostKey(D[i].host), k)
    <2>1. \A j \in Kept(D, Asked) : j \in DOMAIN D /\ Included(D[j], Asked)
      BY DEF Kept
    <2>2. \A i \in DOMAIN D : Included(D[i], Asked) =>
             \E j \in Kept(D, Asked) : D[j].host = D[i].host
      BY FirstIsKept
    <2> QED BY <2>1, <2>2
  <1> QED BY <1>1, MissingAre

(* Where records of a host are alike but for those left out, it does not   *)
(* matter which of them is the first.                                      *)
Alike(D) ==
    \A i, j \in DOMAIN D :
        /\ Included(D[i], Asked) /\ Included(D[j], Asked)
        /\ D[i].host = D[j].host
        => Bucket(Classify(D[i], Asked)) = Bucket(Classify(D[j], Asked))

LEMMA BucketsByIncluded ==
    ASSUME NEW S, NEW D \in Seq(S), Alike(D), NEW b \in Buckets
    PROVE  \A h : h \in ReportOn(D).buckets[b] <=>
              \E i \in DOMAIN D :
                 /\ Included(D[i], Asked)
                 /\ D[i].host = h
                 /\ Bucket(Classify(D[i], Asked)) = b
  <1> TAKE h
  <1>1. h \in ReportOn(D).buckets[b] <=>
           \E j \in Kept(D, Asked) :
              D[j].host = h /\ Bucket(Classify(D[j], Asked)) = b
    <2>1. ReportOn(D).buckets[b] =
             {D[j].host : j \in {i \in Kept(D, Asked) :
                                   Bucket(Classify(D[i], Asked)) = b}}
      BY BucketsAre
    <2> QED BY <2>1
  <1>2. \A j \in Kept(D, Asked) : j \in DOMAIN D /\ Included(D[j], Asked)
    BY DEF Kept
  <1>3. ASSUME NEW i \in DOMAIN D, Included(D[i], Asked)
        PROVE  \E j \in Kept(D, Asked) :
                  /\ D[j].host = D[i].host
                  /\ Bucket(Classify(D[j], Asked)) = Bucket(Classify(D[i], Asked))
    <2>1. PICK j \in Kept(D, Asked) : D[j].host = D[i].host
      BY <1>3, FirstIsKept
    <2> QED BY <1>2, <1>3, <2>1 DEF Alike
  <1> QED BY <1>1, <1>2, <1>3

LEMMA BucketOf ==
    /\ Bucket("exporter") = "infrastructure"
    /\ Bucket("known_infrastructure") = "infrastructure"
    /\ Bucket("customer_endpoint") = "matched"
    /\ Bucket("private_internal") = "reported"
    /\ Bucket("unknown_internal") = "reported"
    /\ Bucket("public_external") = "external"
    /\ Bucket("ignored_peer") = "ignored"
  BY DEF Bucket, Policy, Classes

(* Records of a host differ by their exporter alone: by whether that is    *)
(* the host itself.                                                        *)
LEMMA SameHostSameBucket ==
    ASSUME NEW d, NEW e, d.host = e.host,
           d.direction \in {"src", "dst"}, e.direction \in {"src", "dst"},
           NEW o, Included(d, o), Included(e, o),
           \/ o.excludeExporters
           \/ d.exporter \in o.infrastructure /\ e.exporter \in o.infrastructure
    PROVE  Bucket(Classify(d, o)) = Bucket(Classify(e, o))
  <1>1. CASE o.excludeExporters
    <2>1. d.exporter # d.host /\ e.exporter # e.host
      BY <1>1 DEF Included, Classify
    <2>2. Classify(d, o) = Classify(e, o)
      BY <2>1 DEF Classify
    <2> QED BY <2>2
  <1>2. CASE d.exporter \in o.infrastructure /\ e.exporter \in o.infrastructure
    <2>1. CASE d.host \in o.infrastructure
      <3>1. /\ Classify(d, o) \in {"exporter", "known_infrastructure"}
            /\ Classify(e, o) \in {"exporter", "known_infrastructure"}
        BY <2>1 DEF Classify
      <3> QED BY <3>1, BucketOf
    <2>2. CASE d.host \notin o.infrastructure
      <3>1. d.exporter # d.host /\ e.exporter # e.host
        BY <1>2, <2>2
      <3>2. Classify(d, o) = Classify(e, o)
        BY <3>1 DEF Classify
      <3> QED BY <3>2
    <2> QED BY <2>1, <2>2
  <1> QED BY <1>1, <1>2

LEMMA AlikeWhen ==
    ASSUME IInv, NEW D \in Seq(Devices),
           \/ load.excludeExporters
           \/ \A i \in DOMAIN D : D[i].exporter \in HostsOf(inventory, FALSE)
    PROVE  Alike(D)
  <1> SUFFICES ASSUME NEW i \in DOMAIN D, NEW j \in DOMAIN D,
                      Included(D[i], Asked), Included(D[j], Asked),
                      D[i].host = D[j].host
               PROVE  Bucket(Classify(D[i], Asked)) = Bucket(Classify(D[j], Asked))
    BY DEF Alike
  <1>1. /\ D[i].direction \in {"src", "dst"}
        /\ D[j].direction \in {"src", "dst"}
    BY DevicesAre
  <1>2. \/ Asked.excludeExporters
        \/ D[i].exporter \in Asked.infrastructure /\ D[j].exporter \in Asked.infrastructure
    BY GivenCaller
  <1> QED BY <1>1, <1>2, SameHostSameBucket

(* The records that a report is on. *)
LEMMA ReadIsWhole ==
    ASSUME IInv, Reported
    PROVE  /\ report.found = ReportOn(ReadLines)
           /\ ReadLines \in Seq(Devices)
           /\ Len(ReadLines) = report.read /\ report.read \in Nat
           /\ DOMAIN ReadLines = 1..report.read
  <1>1. /\ report.found = ReportOn(ReadLines) /\ ~IsTorn(ReadLines)
        /\ report.read \in 0..Len(lines) /\ lines \in Seq(Entries)
    BY DEF IInv, ReportFits
  <1>2. /\ ReadLines \in Seq(Entries)
        /\ Len(ReadLines) = report.read
        /\ DOMAIN ReadLines = 1..report.read
    BY <1>1, Prefixes DEF ReadLines
  <1>3. ReadLines \in Seq(Devices)
    BY <1>1, <1>2 DEF IsTorn, Entries
  <1> QED BY <1>1, <1>2, <1>3

(* Every variable stays within its type. *)
THEOREM TypeCorrect == Spec => []TypeOK
  <1>1. IInv => TypeOK
    <2> SUFFICES ASSUME IInv PROVE TypeOK
      OBVIOUS
    <2>1. \A i \in DOMAIN lines : lines[i] = Torn \/ lines[i].host \in Hosts
      <3>1. \A i \in DOMAIN lines : lines[i] = Torn \/ lines[i] \in Devices
        BY DEF IInv, Entries
      <3> QED BY <3>1, DevicesAre
    <2>2. /\ verdict.health \in 0..100
          /\ verdict.decision \in {"none", "block_operation", "investigate_first",
                                   "allow_with_confirmation", "safe"}
      <3>1. CASE verdict = NoVerdict
        BY <3>1 DEF NoVerdict
      <3>2. CASE verdict # NoVerdict
        <4>1. PICK n \in 0..Len(flows) :
                 verdict = ReconcileFlowEnvelope(expected, SubSeq(flows, 1, n))
          BY <3>2 DEF IInv, VerdictFits
        <4> DEFINE seq == SubSeq(flows, 1, n)
        <4>2. seq \in Seq(Flows)
          BY Prefixes DEF IInv
        <4>3. verdict = ReconcileFlowEnvelope(caller.expected, seq)
          BY <4>1, ExpectedIsGiven
        <4> HIDE DEF seq
        <4> QED BY <4>2, <4>3, ExpectedIsGiven, VerdictIsEarned
      <3> QED BY <3>1, <3>2
    <2>3. ASSUME Reported
          PROVE  /\ report.found.buckets \in [Buckets -> SUBSET Hosts]
                 /\ report.found.missing \subseteq DOMAIN Clients
      <3>1. report.found = ReportOn(ReadLines) /\ ReadLines \in Seq(Devices)
        BY <2>3, ReadIsWhole
      <3>2. ASSUME NEW D \in Seq(Devices)
            PROVE  /\ ReportOn(D).buckets \in [Buckets -> SUBSET Hosts]
                   /\ ReportOn(D).missing \subseteq DOMAIN Clients
        <4>1. ASSUME NEW b \in Buckets PROVE ReportOn(D).buckets[b] \subseteq Hosts
          <5>1. \A j \in Kept(D, Asked) : D[j].host \in Hosts
            BY DevicesAre DEF Kept
          <5>2. ReportOn(D).buckets[b] =
                   {D[j].host : j \in {i \in Kept(D, Asked) :
                                         Bucket(Classify(D[i], Asked)) = b}}
            BY BucketsAre
          <5> QED BY <5>1, <5>2
        <4>2. ReportOn(D).missing \subseteq DOMAIN Clients
          BY MissingAre
        <4>3. ReportOn(D).buckets = [b \in Buckets |-> ReportOn(D).buckets[b]]
          BY BucketsAre
        <4> QED BY <4>1, <4>2, <4>3
      <3> QED BY <3>1, <3>2
    <2>4. flows \in Seq(Flows) /\ Len(flows) <= MaxFlows /\ report.read \in 0..Len(lines)
      BY DEF IInv, ReportFits
    <2> QED BY <2>1, <2>2, <2>3, <2>4 DEF TypeOK
  <1> QED BY <1>1, Invariance, PTL

-----------------------------------------------------------------------------
(* What flow_client.py asks for. *)

LEMMA ClientsAskForAll ==
    ASSUME IInv, load = ClientLoad, NEW d, d.host \in Hosts
    PROVE  Included(d, Asked) <=> d.exporter # d.host
  <1>1. Asked.scope = "all" /\ Asked.excludeExporters
    BY GivenCaller DEF ClientLoad
  <1>2. Classify(d, Asked) \in Classes
    BY ClassesAre
  <1>3. Classify(d, Asked) = "exporter" <=> d.exporter = d.host
    BY DEF Classify
  <1>4. ScopeClasses(Asked) = Classes
    BY <1>1 DEF ScopeClasses
  <1> QED BY <1>1, <1>2, <1>3, <1>4 DEF Included

(* The records that are included are those that the client has seen. *)
LEMMA SeenAreIncluded ==
    ASSUME IInv, Reported, load = ClientLoad
    PROVE  \A d : d \in Seen <=>
              \E i \in DOMAIN ReadLines :
                 ReadLines[i] = d /\ Included(ReadLines[i], Asked)
  <1>1. load.excludeExporters
    BY DEF ClientLoad
  <1>2. \A i \in DOMAIN ReadLines :
           Included(ReadLines[i], Asked) <=> ReadLines[i].exporter # ReadLines[i].host
    BY ReadIsWhole, DevicesAre, ClientsAskForAll
  <1> QED BY <1>1, <1>2 DEF Seen, Records

LEMMA KnownToTheInventory ==
    ASSUME IInv, NEW h
    PROVE  (h \in Asked.infrastructure \/ h \in Asked.customers)
              <=> \E i \in DOMAIN inventory : h \in inventory[i].hosts
  BY GivenCaller DEF HostsOf

(* flow_client.py exits with 1 exactly for a private host that the         *)
(* inventory does not know.                                                *)
THEOREM ExitCodeIsHonest == Spec => []ExitCodeHonest
  <1>1. IInv => ExitCodeHonest
    <2> SUFFICES ASSUME IInv, Reported, load = ClientLoad
                 PROVE  ExitCode(report.found) = 1 <=>
                           \E d \in Seen :
                              /\ AddressKind[d.host] = "private"
                              /\ \A i \in DOMAIN inventory : d.host \notin inventory[i].hosts
      BY DEF ExitCodeHonest
    <2> DEFINE D == ReadLines
    <2>1. report.found = ReportOn(D) /\ D \in Seq(Devices)
      BY ReadIsWhole
    <2>2. Alike(D)
      <3>1. load.excludeExporters
        BY DEF ClientLoad
      <3> QED BY <2>1, <3>1, AlikeWhen
    <2>3. ExitCode(report.found) = 1 <=> \E h : h \in ReportOn(D).buckets["reported"]
      <3> HIDE DEF D
      <3> QED BY <2>1 DEF ExitCode
    <2>4. \A h : h \in ReportOn(D).buckets["reported"] <=>
             \E i \in DOMAIN D :
                /\ Included(D[i], Asked)
                /\ D[i].host = h
                /\ Bucket(Classify(D[i], Asked)) = "reported"
      <3> HIDE DEF D
      <3>1. "reported" \in Buckets
        BY DEF Buckets
      <3> QED BY <2>1, <2>2, <3>1, BucketsByIncluded
    <2>5. ASSUME NEW d \in Devices, Included(d, Asked)
          PROVE  Bucket(Classify(d, Asked)) = "reported" <=>
                    /\ AddressKind[d.host] = "private"
                    /\ \A i \in DOMAIN inventory : d.host \notin inventory[i].hosts
      <3>1. d.host \in Hosts /\ d.direction \in {"src", "dst"}
        BY DevicesAre
      <3>2. d.exporter # d.host
        BY <2>5, <3>1, ClientsAskForAll
      <3>3. Asked.networks = {}
        BY GivenCaller DEF ClientLoad
      <3>4. Classify(d, Asked) =
               IF d.host \in Asked.infrastructure THEN "known_infrastructure"
               ELSE IF d.host \in Asked.customers THEN "customer_endpoint"
               ELSE IF AddressKind[d.host] = "ignored" THEN "ignored_peer"
               ELSE IF AddressKind[d.host] = "private" THEN "unknown_internal"
               ELSE "public_external"
        BY <3>1, <3>2, <3>3 DEF Classify
      <3>5. Bucket(Classify(d, Asked)) = "reported" <=>
               /\ AddressKind[d.host] = "private"
               /\ ~(d.host \in Asked.infrastructure \/ d.host \in Asked.customers)
        BY <3>4, BucketOf
      <3> QED BY <3>5, KnownToTheInventory
    <2>6. \A i \in DOMAIN D : D[i] \in Devices
      BY <2>1
    <2>7. \A d : d \in Seen <=>
             \E i \in DOMAIN D : D[i] = d /\ Included(D[i], Asked)
      BY SeenAreIncluded
    <2> HIDE DEF D
    <2> QED BY <2>3, <2>4, <2>5, <2>6, <2>7
  <1> QED BY <1>1, Invariance, PTL

(* A client is missing exactly when nothing that was seen is its own. *)
THEOREM MissingAreExplained == Spec => []MissingExplained
  <1>1. IInv => MissingExplained
    <2> SUFFICES ASSUME IInv, Reported, load = ClientLoad, NEW k \in DOMAIN Clients
                 PROVE  k \in report.found.missing <=>
                           \A d \in Seen :
                              HostKey(d.host) \in Clients[k].keys => TakenBefore(k, d)
      BY DEF MissingExplained
    <2>1. report.found = ReportOn(ReadLines) /\ ReadLines \in Seq(Devices)
      BY ReadIsWhole
    <2>2. k \in report.found.missing <=>
             \A i \in DOMAIN ReadLines : Included(ReadLines[i], Asked) =>
                ~Leads(Clients, HostKey(ReadLines[i].host), k)
      BY <2>1, MissingByIncluded
    <2>3. \A d : Leads(Clients, HostKey(d.host), k) <=>
             HostKey(d.host) \in Clients[k].keys /\ ~TakenBefore(k, d)
      BY DEF Leads, TakenBefore
    <2> QED BY <2>2, <2>3, SeenAreIncluded
  <1> QED BY <1>1, Invariance, PTL

-----------------------------------------------------------------------------
(* The file grows. *)

LEMMA KeptOfPrefix ==
    ASSUME NEW S, NEW D \in Seq(S), NEW n \in 0..Len(D), NEW o
    PROVE  Kept(SubSeq(D, 1, n), o) = {i \in Kept(D, o) : i <= n}
  <1> DEFINE P == SubSeq(D, 1, n)
  <1>1. DOMAIN P = 1..n /\ \A i \in 1..n : P[i] = D[i]
    BY Prefixes
  <1>2. DOMAIN D = 1..Len(D) /\ Len(D) \in Nat
    OBVIOUS
  <1> HIDE DEF P
  <1>3. ASSUME NEW i \in 1..n
        PROVE  i \in Kept(P, o) <=> i \in Kept(D, o)
    <2>1. i \in DOMAIN P /\ i \in DOMAIN D /\ P[i] = D[i]
      BY <1>1, <1>2
    <2>2. \A j \in 1..i-1 : P[j] = D[j]
      BY <1>1
    <2> QED BY <2>1, <2>2 DEF Kept
  <1>4. Kept(P, o) \subseteq 1..n /\ Kept(D, o) \subseteq 1..Len(D)
    BY <1>1, <1>2 DEF Kept
  <1>5. \A i \in Kept(D, o) : i <= n => i \in 1..n
    BY <1>4
  <1> QED BY <1>3, <1>4, <1>5 DEF P

(* Where all that is kept of P is kept of D as well. *)
LEMMA MoreFindings ==
    ASSUME IInv, NEW P \in Seq(Devices), NEW D \in Seq(Devices),
           \A i \in Kept(P, Asked) : i \in Kept(D, Asked) /\ P[i] = D[i]
    PROVE  /\ \A b \in Buckets :
                 ReportOn(P).buckets[b] \subseteq ReportOn(D).buckets[b]
           /\ ReportOn(D).missing \subseteq ReportOn(P).missing
  <1>1. ASSUME NEW b \in Buckets
        PROVE  ReportOn(P).buckets[b] \subseteq ReportOn(D).buckets[b]
    <2>1. ReportOn(P).buckets[b] =
             {P[j].host : j \in {i \in Kept(P, Asked) :
                                   Bucket(Classify(P[i], Asked)) = b}}
      BY BucketsAre
    <2>2. ReportOn(D).buckets[b] =
             {D[j].host : j \in {i \in Kept(D, Asked) :
                                   Bucket(Classify(D[i], Asked)) = b}}
      BY BucketsAre
    <2> QED BY <2>1, <2>2
  <1>2. ReportOn(D).missing \subseteq ReportOn(P).missing
    <2>1. ReportOn(D).missing =
             {k \in DOMAIN Clients :
                \A j \in Kept(D, Asked) : ~Leads(Clients, HostKey(D[j].host), k)}
      BY MissingAre
    <2>2. ReportOn(P).missing =
             {k \in DOMAIN Clients :
                \A j \in Kept(P, Asked) : ~Leads(Clients, HostKey(P[j].host), k)}
      BY MissingAre
    <2> QED BY <2>1, <2>2
  <1> QED BY <1>1, <1>2

LEMMA FindingsOfPrefix ==
    ASSUME IInv, NEW D \in Seq(Devices), NEW n \in 0..Len(D)
    PROVE  /\ \A b \in Buckets :
                 ReportOn(SubSeq(D, 1, n)).buckets[b] \subseteq ReportOn(D).buckets[b]
           /\ ReportOn(D).missing \subseteq ReportOn(SubSeq(D, 1, n)).missing
  <1> DEFINE P == SubSeq(D, 1, n)
  <1>1. /\ P \in Seq(Devices) /\ DOMAIN P = 1..n
        /\ \A i \in 1..n : P[i] = D[i]
    BY Prefixes
  <1>2. Kept(P, Asked) = {i \in Kept(D, Asked) : i <= n}
    BY KeptOfPrefix
  <1>3. Kept(P, Asked) \subseteq DOMAIN P
    BY DEF Kept
  <1>4. \A i \in Kept(P, Asked) : i \in Kept(D, Asked) /\ P[i] = D[i]
    <2> HIDE DEF P
    <2> QED BY <1>1, <1>2, <1>3
  <1> QED BY <1>1, <1>4, MoreFindings

(* A host once reported stays in its part of the report, and a client once *)
(* found is not missing again.                                             *)
THEOREM FindingsStayFound == Spec => FindingsStay
  <1> DEFINE Stay ==
                Reported /\ report'.outcome = "report" =>
                    /\ \A b \in Buckets :
                          report.found.buckets[b] \subseteq report'.found.buckets[b]
                    /\ report'.found.missing \subseteq report.found.missing
  <1>1. IInv /\ [Next]_vars => [Stay]_vars
    <2> SUFFICES ASSUME IInv, Next, Reported, report'.outcome = "report"
                 PROVE  /\ \A b \in Buckets :
                              report.found.buckets[b] \subseteq report'.found.buckets[b]
                        /\ report'.found.missing \subseteq report.found.missing
      BY DEF vars
    <2>1. CASE UNCHANGED report
      BY <2>1
    <2>2. CASE MakeReport
      <3>1. report'.found = ReportOn(lines) /\ ~IsTorn(lines)
        BY <2>2 DEF MakeReport
      <3>2. lines \in Seq(Devices)
        BY <3>1 DEF IInv, IsTorn, Entries
      <3>3. /\ report.found = ReportOn(SubSeq(lines, 1, report.read))
            /\ report.read \in 0..Len(lines)
        BY DEF IInv, ReportFits, ReadLines
      <3> QED BY <3>1, <3>2, <3>3, FindingsOfPrefix
    <2>3. UNCHANGED report \/ MakeReport
      <3>1. ASSUME NEW o, o # "report", Refuse(o) PROVE report'.outcome # "report"
        BY <3>1 DEF Refuse
      <3> QED BY <3>1 DEF Next, Collect, Tear, NothingCaptured, NoClients, LoadFails, Judge
    <2> QED BY <2>1, <2>2, <2>3
  <1>2. Spec => [][Stay]_vars
    BY <1>1, Invariance, PTL DEF Spec
  <1> QED BY <1>2 DEF FindingsStay

-----------------------------------------------------------------------------
(* The same records in another order. *)

LEMMA SameRecords ==
    ASSUME IInv, NEW D \in Seq(Devices), NEW E \in Seq(Devices),
           \A i \in DOMAIN D : \E j \in DOMAIN E : E[j] = D[i],
           \A j \in DOMAIN E : \E i \in DOMAIN D : D[i] = E[j],
           \/ load.excludeExporters
           \/ \A i \in DOMAIN D : D[i].exporter \in HostsOf(inventory, FALSE)
    PROVE  /\ ReportOn(E).buckets = ReportOn(D).buckets
           /\ ReportOn(E).missing = ReportOn(D).missing
  <1>1. Alike(D)
    BY AlikeWhen
  <1>2. Alike(E)
    <2>1. \/ load.excludeExporters
          \/ \A j \in DOMAIN E : E[j].exporter \in HostsOf(inventory, FALSE)
      OBVIOUS
    <2> QED BY <2>1, AlikeWhen
  <1>3. ASSUME NEW b \in Buckets
        PROVE  ReportOn(E).buckets[b] = ReportOn(D).buckets[b]
    <2>1. \A h : h \in ReportOn(D).buckets[b] <=>
             \E i \in DOMAIN D :
                /\ Included(D[i], Asked)
                /\ D[i].host = h
                /\ Bucket(Classify(D[i], Asked)) = b
      BY <1>1, BucketsByIncluded
    <2>2. \A h : h \in ReportOn(E).buckets[b] <=>
             \E i \in DOMAIN E :
                /\ Included(E[i], Asked)
                /\ E[i].host = h
                /\ Bucket(Classify(E[i], Asked)) = b
      BY <1>2, BucketsByIncluded
    <2>3. \A h : h \in ReportOn(E).buckets[b] <=> h \in ReportOn(D).buckets[b]
      BY <2>1, <2>2
    <2>4. ReportOn(D).buckets[b] =
             {D[j].host : j \in {i \in Kept(D, Asked) :
                                   Bucket(Classify(D[i], Asked)) = b}}
      BY BucketsAre
    <2>5. ReportOn(E).buckets[b] =
             {E[j].host : j \in {i \in Kept(E, Asked) :
                                   Bucket(Classify(E[i], Asked)) = b}}
      BY BucketsAre
    <2> QED BY <2>3, <2>4, <2>5
  <1>4. ReportOn(E).buckets = ReportOn(D).buckets
    <2>1. ReportOn(E).buckets = [b \in Buckets |-> ReportOn(E).buckets[b]]
      BY BucketsAre
    <2>2. ReportOn(D).buckets = [b \in Buckets |-> ReportOn(D).buckets[b]]
      BY BucketsAre
    <2>3. [b \in Buckets |-> ReportOn(E).buckets[b]]
             = [b \in Buckets |-> ReportOn(D).buckets[b]]
      BY <1>3
    <2> QED BY <2>1, <2>2, <2>3
  <1>5. ReportOn(E).missing = ReportOn(D).missing
    <2>1. ReportOn(D).missing =
             {k \in DOMAIN Clients :
                \A i \in DOMAIN D :
                   Included(D[i], Asked) => ~Leads(Clients, HostKey(D[i].host), k)}
      BY MissingByIncluded
    <2>2. ReportOn(E).missing =
             {k \in DOMAIN Clients :
                \A i \in DOMAIN E :
                   Included(E[i], Asked) => ~Leads(Clients, HostKey(E[i].host), k)}
      BY MissingByIncluded
    <2> QED BY <2>1, <2>2
  <1> QED BY <1>4, <1>5

(* Who reports first does not matter. *)
THEOREM OrderIsImmaterial == Spec => []OrderDoesNotMatter
  <1>1. IInv => OrderDoesNotMatter
    <2> SUFFICES ASSUME IInv, Reported, load.excludeExporters \/ ExportersKnown,
                        NEW k \in 1..report.read - 1
                 PROVE  /\ ReportOn(Swapped(k)).buckets = report.found.buckets
                        /\ ReportOn(Swapped(k)).missing = report.found.missing
      BY DEF OrderDoesNotMatter
    <2> DEFINE D == ReadLines
               E == Swapped(k)
    <2>1. /\ report.found = ReportOn(D)
          /\ D \in Seq(Devices) /\ DOMAIN D = 1..report.read /\ report.read \in Nat
      BY ReadIsWhole
    <2>2. k \in DOMAIN D /\ k + 1 \in DOMAIN D /\ k # k + 1
      BY <2>1
    <2>3. E = [D EXCEPT ![k] = D[k+1], ![k+1] = D[k]]
      BY DEF Swapped
    <2>4. \/ load.excludeExporters
          \/ \A i \in DOMAIN D : D[i].exporter \in HostsOf(inventory, FALSE)
      BY DEF ExportersKnown, Records
    <2> HIDE DEF D, E
    <2>5. /\ DOMAIN E = DOMAIN D
          /\ E[k] = D[k+1] /\ E[k+1] = D[k]
          /\ \A i \in DOMAIN D \ {k, k+1} : E[i] = D[i]
      BY <2>2, <2>3
    <2>6. E \in Seq(Devices)
      BY <2>1, <2>2, <2>3
    <2>7. /\ \A i \in DOMAIN D : \E j \in DOMAIN E : E[j] = D[i]
          /\ \A j \in DOMAIN E : \E i \in DOMAIN D : D[i] = E[j]
      BY <2>2, <2>5
    <2>8. ReportOn(E).buckets = ReportOn(D).buckets /\ ReportOn(E).missing = ReportOn(D).missing
      BY <2>1, <2>4, <2>6, <2>7, SameRecords
    <2> QED BY <2>1, <2>8 DEF E
  <1> QED BY <1>1, Invariance, PTL
=============================================================================
