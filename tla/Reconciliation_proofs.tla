----------------------- MODULE Reconciliation_proofs -----------------------
(***************************************************************************)
(* What a reconciliation says of any two lists of records, in terms of the *)
(* keys that they share.                                                   *)
(***************************************************************************)
EXTENDS Reconciliation, FiniteSetTheorems, WellFoundedInduction, TLAPS

LOCAL INSTANCE FiniteSetsExt

(* Every set of numbers has a least one: else the intervals up to them     *)
(* would have no smallest.                                                 *)
LEMMA Least ==
    ASSUME NEW S, S \subseteq Nat, S # {}
    PROVE  \E m \in S : \A n \in S : m <= n
  <1> DEFINE T == {0..n : n \in S}
  <1>1. T \subseteq FiniteSubsetsOf(Nat) /\ T # {}
    <2>1. \A n \in S : 0..n \subseteq Nat /\ IsFiniteSet(0..n)
      BY FS_Interval
    <2> QED BY <2>1 DEF FiniteSubsetsOf
  <1>2. IsWellFoundedOn(StrictSubsetOrdering(Nat), FiniteSubsetsOf(Nat))
    BY FS_StrictSubsetOrderingWellFounded
  <1>3. \E x \in T : \A y \in T : ~ (<<y, x>> \in StrictSubsetOrdering(Nat))
    <2> HIDE DEF T
    <2> QED BY <1>1, <1>2, WFMin
  <1>4. PICK m \in S : \A y \in T : <<y, 0..m>> \notin StrictSubsetOrdering(Nat)
    BY <1>3
  <1>5. ASSUME NEW n \in S PROVE m <= n
    <2>1. <<0..n, 0..m>> \notin StrictSubsetOrdering(Nat)
      BY <1>4
    <2>2. 0..n \in SUBSET Nat /\ 0..m \in SUBSET Nat /\ n \in Nat /\ m \in Nat
      OBVIOUS
    <2>3. ~(0..n \subseteq 0..m /\ 0..n # 0..m)
      BY <2>1, <2>2 DEF StrictSubsetOrdering
    <2>4. CASE n < m
      <3>1. 0..n \subseteq 0..m /\ m \in 0..m /\ m \notin 0..n
        BY <2>2, <2>4
      <3> QED BY <2>3, <3>1
    <2> QED BY <2>2, <2>4
  <1> QED BY <1>5

LEMMA MinIsLeast ==
    ASSUME NEW S, S \subseteq Nat, S # {}
    PROVE  Min(S) \in S /\ \A n \in S : Min(S) <= n
  BY Least DEF Min

LEMMA MinIs ==
    ASSUME NEW S, S \subseteq Nat, NEW m \in S, \A n \in S : m <= n
    PROVE  Min(S) = m
  <1>1. Min(S) \in S /\ \A n \in S : Min(S) <= n
    BY MinIsLeast
  <1>2. Min(S) <= m /\ m <= Min(S) /\ Min(S) \in Nat /\ m \in Nat
    BY <1>1
  <1> QED BY <1>2

-----------------------------------------------------------------------------
(* The candidates of a record are some of the records that share a key     *)
(* with it, and there are some if any does.                                *)
LEMMA CandidatesShareKeys ==
    ASSUME NEW expected, DOMAIN expected \subseteq Nat, NEW record
    PROVE  /\ \A i \in Candidates(Index(expected), record) :
                  /\ i \in DOMAIN expected
                  /\ expected[i].keys \cap record.keys # {}
           /\ Candidates(Index(expected), record) = {} =>
                  \A i \in DOMAIN expected : expected[i].keys \cap record.keys = {}
  <1> DEFINE holders(k) == {i \in DOMAIN expected : k \in expected[i].keys}
  <1>1. ASSUME NEW k \in KeysOfAll(expected)
        PROVE  /\ Index(expected)[k] \in DOMAIN expected
               /\ k \in expected[Index(expected)[k]].keys
    <2>1. holders(k) # {} /\ holders(k) \subseteq Nat
      BY DEF KeysOfAll
    <2>2. Index(expected)[k] = Min(holders(k))
      BY DEF Index
    <2>3. Min(holders(k)) \in holders(k)
      <3> HIDE DEF holders
      <3> QED BY <2>1, MinIsLeast
    <2> QED BY <2>2, <2>3
  <1>2. DOMAIN Index(expected) = KeysOfAll(expected)
    BY DEF Index
  <1>3. ASSUME NEW i \in Candidates(Index(expected), record)
        PROVE  i \in DOMAIN expected /\ expected[i].keys \cap record.keys # {}
    BY <1>1, <1>2, <1>3 DEF Candidates
  <1>4. ASSUME Candidates(Index(expected), record) = {}, NEW i \in DOMAIN expected
        PROVE  expected[i].keys \cap record.keys = {}
    <2>1. record.keys \cap KeysOfAll(expected) = {}
      <3>1. \A k \in record.keys \cap DOMAIN Index(expected) :
               Index(expected)[k] \in Candidates(Index(expected), record)
        BY DEF Candidates
      <3> QED BY <1>2, <1>4, <3>1
    <2> QED BY <2>1 DEF KeysOfAll
  <1> QED BY <1>3, <1>4

(* A record is unknown exactly when it shares no key with an expected one; *)
(* a pair shares a key; each record that is not unknown is in a pair; and  *)
(* an expected record is missing exactly when it is in no pair.            *)
THEOREM ReconcileByKeys ==
    ASSUME NEW expected, NEW observed,
           DOMAIN expected \subseteq Nat
    PROVE  LET r == Reconcile(expected, observed)
               Share(i, j) == expected[i].keys \cap observed[j].keys # {}
           IN  /\ r.unknown = {j \in DOMAIN observed :
                                  \A i \in DOMAIN expected : ~Share(i, j)}
               /\ \A p \in r.pairs :
                     /\ p = <<p[1], p[2]>>
                     /\ p[1] \in DOMAIN expected /\ p[2] \in DOMAIN observed
                     /\ Share(p[1], p[2])
               /\ \A j \in DOMAIN observed \ r.unknown :
                     \E i \in DOMAIN expected : <<i, j>> \in r.pairs
               /\ \A i \in DOMAIN expected :
                     i \in r.missing <=> \A j \in DOMAIN observed : <<i, j>> \notin r.pairs
  <1> DEFINE candidates(j) == Candidates(Index(expected), observed[j])
             known  == {j \in DOMAIN observed : candidates(j) # {}}
             chosen == [j \in known |-> Min(candidates(j))]
             Share(i, j) == expected[i].keys \cap observed[j].keys # {}
  <1>1. /\ Reconcile(expected, observed).pairs = {<<chosen[j], j>> : j \in known}
        /\ Reconcile(expected, observed).unknown = DOMAIN observed \ known
        /\ Reconcile(expected, observed).missing =
              DOMAIN expected \ {chosen[j] : j \in known}
    BY DEF Reconcile
  <1>2. ASSUME NEW j \in known
        PROVE  chosen[j] \in DOMAIN expected /\ Share(chosen[j], j)
    <2>1. candidates(j) # {} /\ candidates(j) \subseteq Nat
      BY CandidatesShareKeys
    <2>2. Min(candidates(j)) \in candidates(j)
      <3> HIDE DEF candidates
      <3> QED BY <2>1, MinIsLeast
    <2> QED BY <2>2, CandidatesShareKeys
  <1>3. \A j \in DOMAIN observed \ known : \A i \in DOMAIN expected : ~Share(i, j)
    BY CandidatesShareKeys
  <1>4. \A j \in known : \E i \in DOMAIN expected : Share(i, j)
    BY <1>2
  <1> HIDE DEF chosen, known
  <1>5. known \subseteq DOMAIN observed
    BY DEF known
  <1> QED BY <1>1, <1>2, <1>3, <1>4, <1>5
-----------------------------------------------------------------------------
(* The list `other' has the records of `observed' at other numbers.        *)
Rearranges(p, other, observed) ==
    /\ \A j \in DOMAIN other : p[j] \in DOMAIN observed /\ other[j] = observed[p[j]]
    /\ \A k \in DOMAIN observed : \E j \in DOMAIN other : p[j] = k

LEMMA ReconcileRearranged ==
    ASSUME NEW expected, NEW observed, NEW other, NEW p,
           Rearranges(p, other, observed)
    PROVE  LET r == Reconcile(expected, observed)
               q == Reconcile(expected, other)
           IN  /\ q.missing = r.missing
               /\ q.unknown = {j \in DOMAIN other : p[j] \in r.unknown}
               /\ r.unknown \subseteq DOMAIN observed
               /\ \A t \in r.pairs : t = <<t[1], t[2]>> /\ t[2] \in DOMAIN observed
               /\ \A t \in q.pairs : t = <<t[1], t[2]>> /\ t[2] \in DOMAIN other
               /\ \A i, j : j \in DOMAIN other =>
                     (<<i, j>> \in q.pairs <=> <<i, p[j]>> \in r.pairs)
  <1> DEFINE choices(o)   == Candidates(Index(expected), o)
             known(list)  == {j \in DOMAIN list : choices(list[j]) # {}}
             chosen(list) == [j \in known(list) |-> Min(choices(list[j]))]
  <1>1. \A list :
           /\ Reconcile(expected, list).pairs =
                 {<<chosen(list)[j], j>> : j \in known(list)}
           /\ Reconcile(expected, list).unknown = DOMAIN list \ known(list)
           /\ Reconcile(expected, list).missing =
                 DOMAIN expected \ {chosen(list)[j] : j \in known(list)}
    BY DEF Reconcile
  <1>2. \A j \in DOMAIN other : p[j] \in DOMAIN observed /\ other[j] = observed[p[j]]
    BY DEF Rearranges
  <1>3. \A k \in DOMAIN observed : \E j \in DOMAIN other : p[j] = k
    BY DEF Rearranges
  <1> HIDE DEF choices
  <1>4. \A j \in DOMAIN other :
           /\ j \in known(other) <=> p[j] \in known(observed)
           /\ j \in known(other) => chosen(other)[j] = chosen(observed)[p[j]]
    BY <1>2
  <1>5. known(observed) \subseteq DOMAIN observed /\ known(other) \subseteq DOMAIN other
    OBVIOUS
  <1> HIDE DEF known, chosen
  <1>6. {chosen(other)[j] : j \in known(other)} = {chosen(observed)[k] : k \in known(observed)}
    BY <1>3, <1>4, <1>5
  <1>7. \A i, j : j \in DOMAIN other =>
           (<<i, j>> \in Reconcile(expected, other).pairs
               <=> <<i, p[j]>> \in Reconcile(expected, observed).pairs)
    BY <1>1, <1>4, <1>5
  <1> DEFINE r == Reconcile(expected, observed)
             q == Reconcile(expected, other)
  <1>8. /\ r.pairs = {<<chosen(observed)[j], j>> : j \in known(observed)}
        /\ q.pairs = {<<chosen(other)[j], j>> : j \in known(other)}
        /\ r.unknown = DOMAIN observed \ known(observed)
        /\ q.unknown = DOMAIN other \ known(other)
        /\ q.missing = r.missing
    BY <1>1, <1>6
  <1> HIDE DEF r, q
  <1>9. q.unknown = {j \in DOMAIN other : p[j] \in r.unknown}
    BY <1>2, <1>4, <1>8
  <1>10. /\ \A t \in r.pairs : t = <<t[1], t[2]>> /\ t[2] \in DOMAIN observed
         /\ \A t \in q.pairs : t = <<t[1], t[2]>> /\ t[2] \in DOMAIN other
    BY <1>5, <1>8
  <1> QED BY <1>7, <1>8, <1>9, <1>10 DEF r, q

(* Who is observed first does not matter: the same records are unknown,    *)
(* the same have moved from the same places, the same are missing, and the *)
(* report is as good.                                                      *)
THEOREM ReconcileAttachmentsRearranged ==
    ASSUME NEW expected, NEW observed, NEW other, NEW p,
           Rearranges(p, other, observed)
    PROVE  LET r == ReconcileAttachments(expected, observed)
               q == ReconcileAttachments(expected, other)
           IN  /\ q.missing = r.missing
               /\ q.unknown = {j \in DOMAIN other : p[j] \in r.unknown}
               /\ r.unknown \subseteq DOMAIN observed
               /\ \A t \in r.moved : t = <<t[1], t[2]>> /\ t[2] \in DOMAIN observed
               /\ \A t \in q.moved : t = <<t[1], t[2]>> /\ t[2] \in DOMAIN other
               /\ \A i, j : j \in DOMAIN other =>
                     (<<i, j>> \in q.moved <=> <<i, p[j]>> \in r.moved)
               /\ ReportOk(q) <=> ReportOk(r)
  <1> DEFINE r == Reconcile(expected, observed)
             q == Reconcile(expected, other)
             rr == ReconcileAttachments(expected, observed)
             qq == ReconcileAttachments(expected, other)
  <1>1. /\ rr.missing = r.missing /\ rr.unknown = r.unknown
        /\ qq.missing = q.missing /\ qq.unknown = q.unknown
        /\ rr.moved = {t \in r.pairs : ~(expected[t[1]].at = observed[t[2]].at)}
        /\ qq.moved = {t \in q.pairs : ~(expected[t[1]].at = other[t[2]].at)}
        /\ rr.duplicates = Duplicates(observed)
        /\ qq.duplicates = Duplicates(other)
    BY DEF ReconcileAttachments
  <1>2. /\ q.missing = r.missing
        /\ q.unknown = {j \in DOMAIN other : p[j] \in r.unknown}
        /\ r.unknown \subseteq DOMAIN observed
        /\ \A t \in r.pairs : t = <<t[1], t[2]>> /\ t[2] \in DOMAIN observed
        /\ \A t \in q.pairs : t = <<t[1], t[2]>> /\ t[2] \in DOMAIN other
        /\ \A i, j : j \in DOMAIN other =>
              (<<i, j>> \in q.pairs <=> <<i, p[j]>> \in r.pairs)
    BY ReconcileRearranged
  <1>3. /\ \A j \in DOMAIN other : p[j] \in DOMAIN observed /\ other[j] = observed[p[j]]
        /\ \A k \in DOMAIN observed : \E j \in DOMAIN other : p[j] = k
    BY DEF Rearranges
  <1> HIDE DEF r, q, rr, qq
  <1>4. /\ \A t \in rr.moved : t = <<t[1], t[2]>> /\ t[2] \in DOMAIN observed
        /\ \A t \in qq.moved : t = <<t[1], t[2]>> /\ t[2] \in DOMAIN other
    BY <1>1, <1>2
  <1>5. ASSUME NEW i, NEW j, j \in DOMAIN other
        PROVE  <<i, j>> \in qq.moved <=> <<i, p[j]>> \in rr.moved
    <2>1. <<i, j>> \in q.pairs <=> <<i, p[j]>> \in r.pairs
      BY <1>2, <1>5
    <2>2. other[j] = observed[p[j]]
      BY <1>3, <1>5
    <2>3. <<i, j>> \in qq.moved <=> <<i, j>> \in q.pairs /\ expected[i].at # other[j].at
      BY <1>1
    <2>4. <<i, p[j]>> \in rr.moved
             <=> <<i, p[j]>> \in r.pairs /\ expected[i].at # observed[p[j]].at
      BY <1>1
    <2> QED BY <2>1, <2>2, <2>3, <2>4
  <1>6. qq.moved = {} <=> rr.moved = {}
    <2>1. ASSUME NEW t \in qq.moved PROVE rr.moved # {}
      <3>1. t = <<t[1], t[2]>> /\ t[2] \in DOMAIN other
        BY <1>4, <2>1
      <3>2. <<t[1], p[t[2]]>> \in rr.moved
        BY <1>5, <2>1, <3>1
      <3> QED BY <3>2
    <2>2. ASSUME NEW t \in rr.moved PROVE qq.moved # {}
      <3>1. PICK j \in DOMAIN other : p[j] = t[2]
        BY <1>3, <1>4, <2>2
      <3>2. <<t[1], j>> \in qq.moved
        BY <1>4, <1>5, <2>2, <3>1
      <3> QED BY <3>2
    <2> QED BY <2>1, <2>2
  <1>7. qq.unknown = {} <=> rr.unknown = {}
    BY <1>1, <1>2, <1>3
  <1>8. Duplicates(other) = Duplicates(observed)
    <2>1. \A k : k \in KeysOfAll(other) <=> k \in KeysOfAll(observed)
      BY <1>3 DEF KeysOfAll
    <2>2. \A k : k \in Duplicates(other) <=> k \in Duplicates(observed)
      BY <1>3, <2>1 DEF Duplicates
    <2> QED BY <2>2 DEF Duplicates
  <1> QED BY <1>1, <1>2, <1>4, <1>5, <1>6, <1>7, <1>8 DEF ReportOk, r, q, rr, qq

-----------------------------------------------------------------------------
(* The first of the records that have a key. *)
Leads(expected, key, k) ==
    /\ k \in DOMAIN expected /\ key \in expected[k].keys
    /\ \A i \in DOMAIN expected : i < k => key \notin expected[i].keys

LEMMA IndexLeads ==
    ASSUME NEW expected, DOMAIN expected \subseteq Nat, NEW key \in KeysOfAll(expected)
    PROVE  \A k : Index(expected)[key] = k <=> Leads(expected, key, k)
  <1> DEFINE holders == {i \in DOMAIN expected : key \in expected[i].keys}
  <1>1. holders # {} /\ holders \subseteq Nat
    BY DEF KeysOfAll
  <1>2. Index(expected)[key] = Min(holders)
    BY DEF Index
  <1>3. Min(holders) \in holders /\ \A n \in holders : Min(holders) <= n
    <2> HIDE DEF holders
    <2> QED BY <1>1, MinIsLeast
  <1>4. ASSUME NEW k, Min(holders) = k PROVE Leads(expected, key, k)
    <2>1. k \in DOMAIN expected /\ key \in expected[k].keys
      BY <1>3, <1>4
    <2>2. ASSUME NEW i \in DOMAIN expected, i < k, key \in expected[i].keys PROVE FALSE
      <3>1. k <= i
        BY <1>3, <1>4, <2>2
      <3> QED BY <2>1, <2>2, <3>1
    <2> QED BY <2>1, <2>2 DEF Leads
  <1>5. ASSUME NEW k, Leads(expected, key, k) PROVE Min(holders) = k
    <2>1. k \in holders
      BY <1>5 DEF Leads
    <2>2. ASSUME NEW n \in holders PROVE k <= n
      BY <1>1, <1>5, <2>1, <2>2 DEF Leads
    <2> HIDE DEF holders
    <2> QED BY <1>1, <2>1, <2>2, MinIs
  <1> QED BY <1>2, <1>4, <1>5

(* If a record shares no key but one with those expected, it goes to the   *)
(* first that has the key; who gets none is missing.                       *)
LEMMA ReconcileByOneKey ==
    ASSUME NEW expected, DOMAIN expected \subseteq Nat, NEW observed, NEW key,
           \A j \in DOMAIN observed :
              /\ key[j] \in observed[j].keys
              /\ observed[j].keys \cap KeysOfAll(expected) \subseteq {key[j]}
    PROVE  Reconcile(expected, observed).missing =
              {k \in DOMAIN expected :
                 \A j \in DOMAIN observed : ~Leads(expected, key[j], k)}
  <1> DEFINE candidates(j) == Candidates(Index(expected), observed[j])
             known  == {j \in DOMAIN observed : candidates(j) # {}}
             chosen == [j \in known |-> Min(candidates(j))]
  <1>1. Reconcile(expected, observed).missing =
           DOMAIN expected \ {chosen[j] : j \in known}
    BY DEF Reconcile
  <1>2. DOMAIN Index(expected) = KeysOfAll(expected)
    BY DEF Index
  <1>3. ASSUME NEW j \in DOMAIN observed, key[j] \in KeysOfAll(expected)
        PROVE  j \in known /\ chosen[j] = Index(expected)[key[j]]
    <2>1. candidates(j) = {Index(expected)[key[j]]}
      BY <1>2, <1>3 DEF Candidates
    <2>2. Index(expected)[key[j]] \in Nat
      BY <1>3, IndexLeads DEF Leads
    <2>3. \A n \in {Index(expected)[key[j]]} : Index(expected)[key[j]] <= n
      BY <2>2
    <2>4. Min({Index(expected)[key[j]]}) = Index(expected)[key[j]]
      BY <2>2, <2>3, MinIs
    <2> QED BY <2>1, <2>4
  <1>4. ASSUME NEW j \in DOMAIN observed, key[j] \notin KeysOfAll(expected)
        PROVE  j \notin known
    BY <1>2, <1>4 DEF Candidates
  <1>5. ASSUME NEW j \in DOMAIN observed, NEW k
        PROVE  Leads(expected, key[j], k) <=> j \in known /\ chosen[j] = k
    <2>1. Leads(expected, key[j], k) => key[j] \in KeysOfAll(expected)
      BY DEF Leads, KeysOfAll
    <2> HIDE DEF known, chosen
    <2> QED BY <1>3, <1>4, <2>1, IndexLeads
  <1>6. known \subseteq DOMAIN observed
    OBVIOUS
  <1>7. ASSUME NEW k
        PROVE  k \in {chosen[j] : j \in known}
                  <=> \E j \in DOMAIN observed : Leads(expected, key[j], k)
    <2> HIDE DEF known, chosen
    <2>1. ASSUME NEW j \in known, k = chosen[j] PROVE Leads(expected, key[j], k)
      BY <1>5, <1>6, <2>1
    <2>2. ASSUME NEW j \in DOMAIN observed, Leads(expected, key[j], k)
          PROVE  j \in known /\ k = chosen[j]
      BY <1>5, <2>2
    <2> QED BY <1>6, <2>1, <2>2
  <1> HIDE DEF known, chosen
  <1> QED BY <1>1, <1>7
=============================================================================
