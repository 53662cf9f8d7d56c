------------------------ MODULE UNMSExecutor_proofs ------------------------
(***************************************************************************)
(* The safety of UNMSExecutor for any set of calls, operations, words and  *)
(* inventories: TypeOK /\ Consistent is inductive, and implies what the    *)
(* run checks.                                                             *)
(***************************************************************************)
EXTENDS UNMSExecutor, FiniteSetTheorems, SequenceTheorems, WellFoundedInduction, TLAPS

IInv == TypeOK /\ Consistent

(***************************************************************************)
(* Where requests go: urljoin leaves a plain path as it is, stays on its   *)
(* server unless another is named, and makes URLs of URLs.                 *)
(***************************************************************************)

(* A set of numbers has a least one.                                       *)
LEMMA Least ==
    ASSUME NEW S, S \subseteq Nat, S # {}
    PROVE  \E m \in S : \A n \in S : m <= n
  <1> DEFINE T == {0..n : n \in S}
  <1>1. T \subseteq FiniteSubsetsOf(Nat) /\ T # {}
    <2>1. \A n \in S : 0..n \subseteq Nat /\ IsFiniteSet(0..n)
      BY FS_Interval
    <2> QED BY <2>1 DEF FiniteSubsetsOf
  <1>2. \E x \in T : \A y \in T : ~ (<<y, x>> \in StrictSubsetOrdering(Nat))
    <2> HIDE DEF T
    <2> QED BY <1>1, FS_StrictSubsetOrderingWellFounded, WFMin
  <1>3. PICK m \in S : \A n \in S : <<0..n, 0..m>> \notin StrictSubsetOrdering(Nat)
    BY <1>2
  <1>4. ASSUME NEW n \in S PROVE ~(n < m)
    <2>1. n < m => 0..n \subseteq 0..m /\ m \in 0..m /\ m \notin 0..n
      OBVIOUS
    <2>2. 0..n \in SUBSET Nat /\ 0..m \in SUBSET Nat
      OBVIOUS
    <2> QED BY <1>3, <2>1, <2>2 DEF StrictSubsetOrdering
  <1> QED BY <1>4

UpTo(S, k) == {j \in S : j <= k}

(* A finite set of numbers has an nth one, for every n up to its size.     *)
LEMMA NthExists ==
    ASSUME NEW m \in Nat, NEW S, S \subseteq 1..m, NEW n \in 1..Cardinality(S)
    PROVE  Nth(S, n) \in S /\ Cardinality(UpTo(S, Nth(S, n))) = n
  <1>0. \A j \in S : j \in Nat /\ 1 <= j /\ j <= m
    OBVIOUS
  <1>1. \A k \in Int : /\ UpTo(S, k) \subseteq 1..m /\ IsFiniteSet(UpTo(S, k))
                       /\ Cardinality(UpTo(S, k)) \in Nat
    <2>1. IsFiniteSet(1..m)
      BY FS_Interval
    <2>2. \A k \in Int : UpTo(S, k) \subseteq 1..m
      BY DEF UpTo
    <2> QED BY <2>1, <2>2, FS_Subset, FS_CardinalityType
  <1> DEFINE T == {k \in Nat : Cardinality(UpTo(S, k)) >= n}
  <1>2. m \in T
    <2>1. UpTo(S, m) = S
      BY <1>0 DEF UpTo
    <2>2. Cardinality(S) \in Nat
      BY <1>1, <2>1
    <2> QED BY <1>1, <2>1, <2>2
  <1>3. PICK k \in T : \A i \in T : k <= i
    <2>1. T \subseteq Nat
      OBVIOUS
    <2> HIDE DEF T
    <2> QED BY <1>2, <2>1, Least
  <1>4. k \in Nat /\ Cardinality(UpTo(S, k)) >= n
    BY <1>3
  <1>5. k # 0
    <2>1. UpTo(S, 0) = {}
      <3>1. \A j \in S : ~(j <= 0)
        BY <1>0
      <3> QED BY <3>1 DEF UpTo
    <2>2. Cardinality(UpTo(S, 0)) = 0
      BY <2>1, FS_EmptySet
    <2>3. n \in Int /\ n > 0
      OBVIOUS
    <2> QED BY <1>4, <2>2, <2>3
  <1>6. k - 1 \in Nat /\ Cardinality(UpTo(S, k - 1)) < n
    <2>1. k - 1 \in Nat /\ ~(k <= k - 1)
      BY <1>4, <1>5
    <2>2. k - 1 \notin T
      BY <1>3, <2>1
    <2> QED BY <1>1, <2>1, <2>2
  <1>7. k \in S
    <2>1. k \notin S => UpTo(S, k) = UpTo(S, k - 1)
      <3>1. \A j \in S : j # k => (j <= k <=> j <= k - 1)
        BY <1>0, <1>4
      <3> HIDE DEF T
      <3> QED BY <3>1 DEF UpTo
    <2>2. n \in Int
      OBVIOUS
    <2> QED BY <1>1, <1>4, <1>6, <2>1, <2>2
  <1>8. Cardinality(UpTo(S, k)) = Cardinality(UpTo(S, k - 1)) + 1
    <2>1. UpTo(S, k) = UpTo(S, k - 1) \cup {k} /\ k \notin UpTo(S, k - 1)
      <3>1. /\ \A j \in S : j <= k <=> j <= k - 1 \/ j = k
            /\ ~(k <= k - 1)
        BY <1>0, <1>4
      <3> HIDE DEF T
      <3> QED BY <1>7, <3>1 DEF UpTo
    <2>2. IsFiniteSet(UpTo(S, k - 1))
      BY <1>1, <1>6
    <2> QED BY <2>1, <2>2, FS_AddElement
  <1>9. Cardinality(UpTo(S, k)) = n
    <2>1. n \in Int
      OBVIOUS
    <2> QED BY <1>1, <1>4, <1>6, <1>8, <2>1
  <1> QED BY <1>7, <1>9 DEF Nth, UpTo

(* What urljoin makes of a path is a path.                                 *)
LEMMA NormalType ==
    ASSUME NEW path \in Seq(Segments)
    PROVE  Normal(path) \in Seq(Segments)
  <1>1. Kept(path) \subseteq 1..Len(path) /\ Len(path) \in Nat
    BY DEF Kept
  <1>2. Cardinality(Kept(path)) \in Nat
    <2>1. IsFiniteSet(1..Len(path))
      BY <1>1, FS_Interval
    <2> QED BY <1>1, <2>1, FS_Subset, FS_CardinalityType
  <1>3. \A n \in 1..Cardinality(Kept(path)) : path[Nth(Kept(path), n)] \in Segments
    BY <1>1, NthExists
  <1>4. Picked(path, Kept(path)) \in Seq(Segments)
    <2> DEFINE size == Cardinality(Kept(path))
               picked == [n \in 1..size |-> path[Nth(Kept(path), n)]]
    <2>1. picked \in [1..size -> Segments]
      BY <1>3
    <2> HIDE DEF size, picked
    <2>2. picked \in Seq(Segments)
      BY <1>2, <2>1, SeqDef DEF size
    <2> QED BY <2>2 DEF Picked, size, picked
  <1>5. Append(Picked(path, Kept(path)), Blank) \in Seq(Segments)
    BY <1>4, SegmentsAssumption
  <1> QED BY <1>4, <1>5 DEF Normal

(* The API of a URL and a resource of it have URLs.                        *)
LEMMA ApiUrlType ==
    ASSUME NEW url \in Url
    PROVE  ApiUrl(url) \in Url
  <1> DEFINE last == Len(url.path)
             path == [k \in 1..last |->
                        IF k < last THEN NoCrm(url.path[k]) ELSE url.path[k]]
  <1>1. url.path \in Seq(Segments) /\ last \in Nat /\ url.server \in Segments
    BY DEF Url
  <1>2. \A s \in Segments : NoCrm(s) \in Segments
    BY SegmentsAssumption DEF NoCrm
  <1>3. path \in [1..last -> Segments]
    BY <1>1, <1>2
  <1> HIDE DEF last, path
  <1>4. path \in Seq(Segments) /\ Len(path) = last
    BY <1>1, <1>3, SeqDef, LenProperties
  <1>5. last - Cardinality(Trailing(path)) \in 0..last
    <2>1. Trailing(path) \subseteq 1..last
      BY <1>3 DEF Trailing
    <2>2. IsFiniteSet(1..last) /\ Cardinality(1..last) = last
      BY <1>1, FS_Interval
    <2>3. Cardinality(Trailing(path)) \in Nat /\ Cardinality(Trailing(path)) <= last
      BY <2>1, <2>2, FS_Subset, FS_CardinalityType
    <2> QED BY <1>1, <2>3
  <1>6. SubSeq(path, 1, last - Cardinality(Trailing(path))) \in Seq(Segments)
    BY <1>1, <1>4, <1>5
  <1>7. FromUrl(url) \in Url
    BY <1>1, <1>2, <1>6 DEF FromUrl, Url, last, path
  <1>8. Prefix \in Seq(Segments)
    BY SegmentsAssumption DEF Prefix
  <1>9. FromUrl(url).path \o Prefix \in Seq(Segments)
    BY <1>7, <1>8 DEF Url
  <1> QED BY <1>7, <1>9 DEF ApiUrl, Url

(* What is left of a path without the slashes it begins with.              *)
LEMMA CleanShape ==
    ASSUME NEW path \in Seq(Segments)
    PROVE  /\ Clean(path) \in Seq(Segments)
           /\ \A k \in DOMAIN Clean(path) : \E j \in DOMAIN path : Clean(path)[k] = path[j]
  <1>1. Leading(path) \subseteq 1..Len(path) /\ Len(path) \in Nat
    BY DEF Leading
  <1>2. Cardinality(Leading(path)) \in Nat /\ Cardinality(Leading(path)) <= Len(path)
    <2>1. IsFiniteSet(1..Len(path)) /\ Cardinality(1..Len(path)) = Len(path)
      <3>1. \A n \in Nat : IsFiniteSet(1..n) /\ Cardinality(1..n) = n
        BY FS_Interval
      <3> QED BY <1>1, <3>1
    <2> QED BY <1>1, <2>1, FS_Subset, FS_CardinalityType
  <1>3. PICK m \in Nat : m = Cardinality(Leading(path)) /\ m <= Len(path)
    BY <1>2
  <1>4. Clean(path) = SubSeq(path, m + 1, Len(path))
    BY <1>3 DEF Clean
  <1>5. \A k \in DOMAIN Clean(path) : m + k \in DOMAIN path /\ Clean(path)[k] = path[m + k]
    BY <1>1, <1>3, <1>4
  <1> QED BY <1>1, <1>3, <1>4, <1>5

LEMMA ResourceUrlType ==
    ASSUME NEW api \in Url, NEW path \in Seq(Segments)
    PROVE  ResourceUrl(api, path) \in Url
  <1>1. api.server \in Segments /\ api.path \in Seq(Segments)
    BY DEF Url
  <1>2. CASE Clean(path) = <<>>
    <2>1. Append(api.path, Blank) \in Seq(Segments)
      BY <1>1, SegmentsAssumption
    <2> QED BY <1>2, <2>1 DEF ResourceUrl, Url
  <1>3. CASE Clean(path) # <<>> /\ Whole(Clean(path))
    <2>1. PICK clean \in Seq(Segments) : clean = Clean(path)
      BY CleanShape
    <2>2. Len(clean) >= 3 /\ clean[3] \in Segments
      BY <1>3, <2>1 DEF Whole
    <2>3. SubSeq(clean, 4, Len(clean)) \in Seq(Segments)
      BY <2>1, <2>2
    <2> QED BY <1>3, <2>1, <2>2, <2>3 DEF ResourceUrl, UrlJoin, Url
  <1>4. CASE Clean(path) # <<>> /\ ~Whole(Clean(path))
    <2>1. api.path \o Clean(path) \in Seq(Segments)
      BY <1>1, CleanShape
    <2>2. Normal(api.path \o Clean(path)) \in Seq(Segments)
      BY <2>1, NormalType
    <2> QED BY <1>4, <2>2 DEF ResourceUrl, UrlJoin, Url
  <1> QED BY <1>2, <1>3, <1>4

(* A path that names no server stays on the controller.                    *)
LEMMA StaysThere ==
    ASSUME NEW api \in Url, NEW path \in Seq(Segments), Relative(path)
    PROVE  ResourceUrl(api, path).server = api.server
  <1>1. ~Whole(Clean(path))
    <2>1. ASSUME Whole(Clean(path)) PROVE FALSE
      <3>1. 1 \in DOMAIN Clean(path) /\ Clean(path)[1] \in Schemes
        BY <2>1, CleanShape DEF Whole
      <3> QED BY <3>1, CleanShape DEF Relative
    <2> QED BY <2>1
  <1> QED BY <1>1 DEF ResourceUrl, UrlJoin, Url

(* urljoin leaves a path as it is that says what it means.                 *)
LEMMA NormalPlain ==
    ASSUME NEW path \in Seq(Segments), Plain(path)
    PROVE  Normal(path) = path
  <1> DEFINE S == 1..Len(path)
  <1>1. DOMAIN path = S /\ Len(path) \in Nat
    OBVIOUS
  <1>2. \A k \in S : path[k] \notin Dots /\ path[k] # Blank
    BY <1>1 DEF Plain
  <1>3. \A i \in S : path[i] # Above
    BY <1>2 DEF Dots
  <1>4. ASSUME NEW k \in S PROVE ~TakenBack(path, k)
    <2>1. ASSUME NEW j \in k+1..Len(path)
          PROVE  ~(Cardinality({i \in k+1..j : path[i] = Above})
                     > Cardinality({i \in k+1..j : path[i] \notin Dots \cup {Blank}}))
      <3> DEFINE up   == {i \in k+1..j : path[i] = Above}
                 down == {i \in k+1..j : path[i] \notin Dots \cup {Blank}}
      <3>1. k+1..j \subseteq S
        BY <1>1
      <3>2. up = {}
        BY <1>3, <3>1
      <3>3. Cardinality(up) = 0
        BY <3>2, FS_EmptySet
      <3>4. IsFiniteSet(k+1..j) /\ down \subseteq k+1..j
        BY <1>1, FS_Interval
      <3>5. Cardinality(down) \in Nat
        BY <3>4, FS_Subset, FS_CardinalityType
      <3> HIDE DEF up, down
      <3>6. ~(Cardinality(up) > Cardinality(down))
        BY <3>3, <3>5
      <3> QED BY <3>6 DEF up, down
    <2> QED BY <2>1 DEF TakenBack
  <1>5. Kept(path) = S
    BY <1>1, <1>2, <1>4 DEF Kept
  <1>6. Cardinality(S) = Len(path)
    BY <1>1, FS_Interval
  <1>7. ASSUME NEW n \in S PROVE Nth(S, n) = n
    <2>1. \A k \in S : {j \in S : j <= k} = 1..k /\ k \in Nat
      OBVIOUS
    <2>2. \A k \in S : Cardinality({j \in S : j <= k}) = k
      <3>1. \A k \in Nat : Cardinality(1..k) = k
        BY FS_Interval
      <3> QED BY <2>1, <3>1
    <2> HIDE DEF S
    <2> QED BY <2>2 DEF Nth
  <1>8. Picked(path, S) = path
    <2>1. \A n \in S : path[Nth(S, n)] = path[n]
      BY <1>7
    <2>2. path = [n \in S |-> path[n]]
      BY <1>1
    <2> HIDE DEF S
    <2>3. [n \in S |-> path[Nth(S, n)]] = [n \in S |-> path[n]]
      BY <2>1
    <2>4. 1..Cardinality(S) = S
      BY <1>6 DEF S
    <2> QED BY <2>2, <2>3, <2>4 DEF Picked
  <1>9. path = <<>> \/ path[Len(path)] \notin Dots
    <2>1. path # <<>> => Len(path) \in S
      BY <1>1
    <2> QED BY <1>2, <2>1
  <1> QED BY <1>5, <1>8, <1>9 DEF Normal

(* A path that says what it means is a path under the API.                 *)
LEMMA PlainlyThere ==
    ASSUME NEW api \in Url, Plain(api.path), NEW path \in Seq(Segments), Plain(path),
           path # <<>>
    PROVE  ResourceUrl(api, path).path = api.path \o path
  <1>1. 1 \in DOMAIN path /\ path[1] # Blank /\ path[1] \notin Schemes
    BY DEF Plain
  <1>2. Leading(path) = {}
    BY <1>1 DEF Leading
  <1>3. Clean(path) = path
    <2>1. Cardinality(Leading(path)) = 0
      BY <1>2, FS_EmptySet
    <2> QED BY <2>1 DEF Clean
  <1>4. ~Whole(path)
    BY <1>1 DEF Whole
  <1>5. api.path \in Seq(Segments)
    BY DEF Url
  <1>6. api.path \o path \in Seq(Segments) /\ Plain(api.path \o path)
    BY <1>5 DEF Plain
  <1>7. Normal(api.path \o path) = api.path \o path
    BY <1>6, NormalPlain
  <1> QED BY <1>3, <1>4, <1>7 DEF ResourceUrl, UrlJoin, Url

-----------------------------------------------------------------------------
(* The planner. *)

(* What a usable id is: the first of those given.                          *)
LEMMA ResourceIdNamed ==
    ASSUME NEW o \in OperationType, ResourceId(o) # NoId
    PROVE  ResourceId(o) \in Ids /\ Named(o, ResourceId(o))
  <1> DEFINE usable == {i \in DOMAIN IdKeys : o.ids[i] # NoId}
             First(i) == i \in usable /\ \A j \in usable : i <= j
  <1>1. DOMAIN IdKeys = 1..4 /\ o.ids \in [1..4 -> Ids \cup {NoId}]
    BY DEF IdKeys, OperationType
  <1>2. usable # {}
    BY DEF ResourceId
  <1>3. \E i \in usable : First(i)
    BY <1>1, <1>2
  <1>4. PICK i \in usable : First(i) /\ ResourceId(o) = o.ids[i]
    BY <1>2, <1>3 DEF ResourceId
  <1>5. i \in 1..4 /\ o.ids[i] \in Ids
    BY <1>1, <1>4
  <1>6. \A j \in 1..i-1 : o.ids[j] = NoId
    BY <1>1, <1>4, <1>5
  <1> QED BY <1>1, <1>4, <1>5, <1>6 DEF Named

(* A path of those that an operation gives, or of two of them.             *)
Made(o, path) ==
    path \in Given(o) \/ \E e, id \in Given(o) : path = e \o id

LEMMA PathMade ==
    ASSUME NEW o \in OperationType, NEW path, Made(o, path)
    PROVE  /\ path \in Seq(Segments)
           /\ (\A p \in Given(o) : Relative(p)) => Relative(path)
           /\ (\A p \in Given(o) : p # <<>> /\ Plain(p)) => path # <<>> /\ Plain(path)
  <1>1. Given(o) \subseteq Seq(Segments)
    BY CallsAssumption DEF Given
  <1>2. CASE path \in Given(o)
    BY <1>1, <1>2
  <1>3. ASSUME NEW e \in Given(o), NEW id \in Given(o), path = e \o id
        PROVE  /\ path \in Seq(Segments)
               /\ Relative(e) /\ Relative(id) => Relative(path)
               /\ e # <<>> /\ Plain(e) /\ Plain(id) => path # <<>> /\ Plain(path)
    <2>1. e \in Seq(Segments) /\ id \in Seq(Segments)
      BY <1>1
    <2>2. \A k \in DOMAIN path : \/ \E j \in DOMAIN e : path[k] = e[j]
                               \/ \E j \in DOMAIN id : path[k] = id[j]
      <3>1. Len(path) = Len(e) + Len(id)
        BY <1>3, <2>1
      <3>2. ASSUME NEW k \in 1..Len(e) PROVE \E j \in DOMAIN e : path[k] = e[j]
        BY <1>3, <2>1
      <3>3. ASSUME NEW k \in Len(e)+1..Len(e)+Len(id)
            PROVE  \E j \in DOMAIN id : path[k] = id[j]
        <4>1. k - Len(e) \in DOMAIN id /\ path[k] = id[k - Len(e)]
          BY <1>3, <2>1
        <4> QED BY <4>1
      <3>4. DOMAIN path = 1..Len(path) /\ Len(e) \in Nat /\ Len(id) \in Nat
        BY <1>3, <2>1
      <3> QED BY <3>1, <3>2, <3>3, <3>4
    <2>3. path \in Seq(Segments) /\ (e # <<>> => path # <<>>)
      BY <1>3, <2>1
    <2> QED BY <2>2, <2>3 DEF Relative, Plain
  <1> QED BY <1>2, <1>3 DEF Made

Shaped(o, plan) ==
    /\ plan.supported \in BOOLEAN
    /\ plan.supported =>
          /\ plan.method \in {"GET", "POST", "PATCH", "DELETE"}
          /\ Made(o, plan.path)
          /\ plan.method # "GET" => plan.path \in Meant(o, plan.method)

(* A supported plan is one request to the endpoint that the operation      *)
(* names, and one that changes a resource carries the first usable id.     *)
LEMMA PlanShape ==
    ASSUME NEW o \in OperationType
    PROVE  Shaped(o, PlanUNMS(o))
  <1> DEFINE e == ControllerEndpoint(o)
             i == ResourceId(o)
  <1>1. CASE e = NoEndpoint
    BY <1>1 DEF PlanUNMS, Unsupported, Shaped
  <1>2. CASE e # NoEndpoint
    <2>1. /\ e \in Endpoints /\ e \in Given(o)
          /\ e = IF o.resource # NoEndpoint THEN o.resource ELSE o.endpoint
      BY <1>2 DEF ControllerEndpoint, OperationType, Given
    <2>2. Shaped(o, Unsupported)
      BY DEF Shaped, Unsupported
    <2>3. \A params, body : Shaped(o, Request("GET", e, params, body))
      BY <2>1 DEF Shaped, Request, Made
    <2>4. \A params, body : Shaped(o, Request("POST", e, params, body))
      BY <2>1 DEF Shaped, Request, Made, Meant
    <2>5. i # NoId => Made(o, e \o i) /\ i \in Ids /\ Named(o, i)
      <3>1. i # NoId => i \in Ids /\ Named(o, i)
        BY ResourceIdNamed
      <3>2. i # NoId => i \in Given(o)
        BY <3>1 DEF Named, Given
      <3> HIDE DEF e, i
      <3> QED BY <2>1, <3>1, <3>2 DEF Made
    <2>6. i # NoId => \A method \in {"PATCH", "DELETE"} : e \o i \in Meant(o, method)
      <3> HIDE DEF e, i
      <3> QED BY <2>1, <2>5 DEF Meant
    <2>7. \A method \in {"GET", "PATCH", "DELETE"} : \A params, body :
             i # NoId => Shaped(o, Request(method, e \o i, params, body))
      <3> HIDE DEF e, i
      <3> QED BY <2>5, <2>6 DEF Shaped, Request
    <2> HIDE DEF e
    <2>8. Shaped(o, PlanGet(o, e))
      BY <2>2, <2>3, <2>7 DEF PlanGet
    <2>9. Shaped(o, PlanCreate(o, e))
      BY <2>2, <2>4 DEF PlanCreate
    <2>10. Shaped(o, PlanUpdate(o, e))
      BY <2>2, <2>7 DEF PlanUpdate
    <2>11. Shaped(o, PlanDelete(o, e))
      BY <2>2, <2>7 DEF PlanDelete
    <2>12. PlanUNMS(o) \in {Request("GET", e, Filters(o), {}), PlanGet(o, e),
                            PlanCreate(o, e), PlanUpdate(o, e), PlanDelete(o, e),
                            Unsupported}
      BY <1>2 DEF PlanUNMS, e
    <2> QED BY <2>2, <2>3, <2>8, <2>9, <2>10, <2>11, <2>12
  <1> QED BY <1>1, <1>2

-----------------------------------------------------------------------------
(* The targets. *)

(* What a device takes from its record.                                    *)
LEMMA DeviceOfRecord ==
    ASSUME NEW record, NEW word, RecordDevice(record, word).adapter \in Adapters
    PROVE  /\ RecordDevice(record, word).url = Text(record, "url")
           /\ Text(record, "url") # NoText
           /\ RecordDevice(record, word).name = Or(Text(record, "name"), word)
  <1> DEFINE adapter == IF IsRouterOS(record) THEN "routeros" ELSE "unms"
             found == Device(adapter, Text(record, "url"), Or(Text(record, "name"), word))
  <1>1. \/ RecordDevice(record, word)
               \in {Failure("unsupported adapter"), Failure("no URL"),
                    Failure("no API token")}
        \/ RecordDevice(record, word) = found /\ Text(record, "url") # NoText
    BY DEF RecordDevice
  <1>2. \A what \in {"unsupported adapter", "no URL", "no API token"} :
           Failure(what).adapter \notin Adapters
    BY DEF Failure, Device, Adapters
  <1>3. RecordDevice(record, word) = found /\ Text(record, "url") # NoText
    BY <1>1, <1>2
  <1> QED BY <1>3 DEF Device

(* What is found is a device, with a URL of the inventory, or an error.    *)
LEMMA TargetDeviceType ==
    ASSUME NEW word \in Words, NEW inv \in Inventories
    PROVE  TargetDevice(word, inv) \in DeviceType
  <1> DEFINE found == ResolveTarget(word, inv)
             k == CHOOSE n \in found : TRUE
             record == inv[k]
             reasons == {"no inventory", "not found", "unsupported adapter",
                         "no URL", "no API token"}
  <1>1. \A what \in reasons :
           Failure(what) \in DeviceType /\ Failure(what).adapter \notin Adapters
    BY DEF Failure, Device, DeviceType, DeviceTexts, Adapters
  <1>2. CASE inv = NoInventory \/ found = {}
    BY <1>1, <1>2 DEF TargetDevice
  <1>3. CASE inv # NoInventory /\ found # {}
    <2>1. TargetDevice(word, inv) = RecordDevice(record, word)
      BY <1>3 DEF TargetDevice
    <2>2. k \in 1..Len(inv)
      BY <1>3 DEF ResolveTarget
    <2>3. /\ Text(record, "url") \in Urls \cup {NoText}
          /\ Text(record, "name") \in Words \cup {NoText}
      BY <1>3, <2>2, InventoriesAssumption
    <2> HIDE DEF record
    <2>4. Or(Text(record, "name"), word) \in Words
      BY <2>3 DEF Or
    <2>5. \A adapter \in Adapters :
             Device(adapter, Text(record, "url"), Or(Text(record, "name"), word))
                \in DeviceTexts
      BY <2>3, <2>4 DEF Device, DeviceTexts
    <2>6. \/ RecordDevice(record, word)
                 \in {Failure("unsupported adapter"), Failure("no URL"),
                      Failure("no API token")}
          \/ \E adapter \in Adapters :
                RecordDevice(record, word) =
                   Device(adapter, Text(record, "url"), Or(Text(record, "name"), word))
      BY DEF RecordDevice, Adapters
    <2>7. RecordDevice(record, word) \in DeviceTexts
      BY <1>1, <2>5, <2>6 DEF DeviceType
    <2>8. RecordDevice(record, word).adapter \in Adapters =>
             RecordDevice(record, word).url \in Urls
      BY <2>3, DeviceOfRecord
    <2> QED BY <2>1, <2>7, <2>8 DEF DeviceType
  <1> QED BY <1>2, <1>3

(* In a well-kept inventory a value that a record may be known by finds    *)
(* that record.                                                            *)
LEMMA FindsItsRecord ==
    ASSUME NEW inv, WellKept(inv), NEW k \in 1..Len(inv), NEW f \in MatchFields,
           f \in DOMAIN inv[k]
    PROVE  ResolveTarget(inv[k][f].is, inv) = {k}
  <1> DEFINE word == inv[k][f].is
  <1>1. RecordMatches(inv[k], word)
    BY DEF RecordMatches
  <1>2. \A j \in 1..Len(inv) : RecordMatches(inv[j], word) => j = k
    BY DEF WellKept
  <1> HIDE DEF word
  <1>3. ASSUME NEW j \in 1..k-1 PROVE ~RecordMatches(inv[j], word)
    <2>1. \A n \in Int : n \in 1..Len(inv) /\ j \in 1..n-1 => j \in 1..Len(inv) /\ j # n
      OBVIOUS
    <2> QED BY <1>2, <2>1
  <1>4. IsFirst(k, word, inv)
    BY <1>1, <1>3 DEF IsFirst
  <1>5. \A n \in ResolveTarget(word, inv) : n = k
    BY <1>2 DEF ResolveTarget, IsFirst
  <1>6. k \in ResolveTarget(word, inv)
    BY <1>4 DEF ResolveTarget
  <1> QED BY <1>5, <1>6 DEF word

(* The name of a device that was found leads back to it.                   *)
LEMMA NameLeadsBack ==
    ASSUME NEW word, NEW inv, WellKept(inv),
           TargetDevice(word, inv).adapter \in Adapters
    PROVE  TargetDevice(TargetDevice(word, inv).name, inv) = TargetDevice(word, inv)
  <1> DEFINE found == ResolveTarget(word, inv)
             k == CHOOSE n \in found : TRUE
             record == inv[k]
             name == TargetDevice(word, inv).name
  <1>1. inv # NoInventory /\ found # {}
    BY DEF TargetDevice, Failure, Device, Adapters
  <1>2. TargetDevice(word, inv) = RecordDevice(record, word)
    BY <1>1 DEF TargetDevice
  <1>3. k \in 1..Len(inv)
    BY <1>1 DEF ResolveTarget
  <1>4. name = Or(Text(record, "name"), word)
    BY <1>2, DeviceOfRecord
  <1>5. CASE Text(record, "name") = NoText
    BY <1>4, <1>5 DEF Or
  <1>6. CASE Text(record, "name") # NoText
    <2>1. "name" \in DOMAIN record /\ name = record["name"].text
      BY <1>4, <1>6 DEF Or, Text
    <2>2. name = record["name"].is
      BY <1>3, <1>6, <2>1 DEF WellKept, Text
    <2> HIDE DEF k, name
    <2>3. ResolveTarget(name, inv) = {k}
      BY <1>3, <2>1, <2>2, FindsItsRecord DEF MatchFields
    <2>4. TargetDevice(name, inv) = RecordDevice(record, name)
      BY <1>1, <2>3 DEF TargetDevice
    <2>5. Or(Text(record, "name"), name) = Or(Text(record, "name"), word)
      BY <1>6 DEF Or
    <2>6. RecordDevice(record, name) = RecordDevice(record, word)
      BY <2>5 DEF RecordDevice
    <2> QED BY <1>2, <2>4, <2>6 DEF name
  <1> QED BY <1>5, <1>6

-----------------------------------------------------------------------------
(* The invariant is inductive. *)

LEMMA InitInv == Init => IInv
  <1> SUFFICES ASSUME Init PROVE IInv
    OBVIOUS
  <1>1. Unresolved \in DeviceType
    BY DEF Unresolved, Failure, Device, DeviceType, DeviceTexts, Adapters
  <1>2. TypeOK
    BY <1>1 DEF Init, TypeOK
  <1>3. ASSUME NEW c \in Calls PROVE ControlFits(c) /\ EffectFits(c)
    BY DEF Init, ControlFits, EffectFits
  <1> QED BY <1>2, <1>3 DEF IInv, Consistent

(* A step of call c leaves what the others are judged by as it is.         *)
Untouched(d) ==
    /\ op'[d] = op[d] /\ device'[d] = device[d] /\ pc'[d] = pc[d]
    /\ result'[d] = result[d] /\ request'[d] = request[d] /\ wire'[d] = wire[d]
    /\ effects'[d] = effects[d]

LEMMA Frame ==
    ASSUME NEW d \in Calls, Untouched(d), ControlFits(d), EffectFits(d)
    PROVE  (ControlFits(d) /\ EffectFits(d))'
  <1>1. Plan(d)' = Plan(d) /\ (Acts(d)' <=> Acts(d)) /\ RequestOf(d)' = RequestOf(d)
    BY DEF Untouched, Plan, Acts, RequestOf
  <1> QED BY <1>1 DEF Untouched, ControlFits, EffectFits

LEMMA OneCall ==
    ASSUME IInv, TypeOK', NEW c \in Calls, (ControlFits(c) /\ EffectFits(c))',
           \A d \in Calls \ {c} : Untouched(d)
    PROVE  IInv'
  BY Frame DEF IInv, Consistent

(* What is known of a call before a step of it.                            *)
LEMMA Known ==
    ASSUME IInv, NEW c \in Calls
    PROVE  /\ op[c] \in OperationType /\ Shaped(op[c], Plan(c))
           /\ ControlFits(c) /\ EffectFits(c)
  BY PlanShape, CallsAssumption DEF IInv, TypeOK, Consistent, Plan

(* A request to a device that was found.                                   *)
LEMMA RequestMade ==
    ASSUME IInv, NEW c \in Calls, Plan(c).supported, device[c].url \in Urls
    PROVE  /\ RequestOf(c) \in RequestType
           /\ ApiUrl(Parts[device[c].url]) \in Url
  <1>1. Shaped(op[c], Plan(c)) /\ op[c] \in OperationType
    BY Known
  <1>2. Plan(c).path \in Seq(Segments)
    BY <1>1, PathMade DEF Shaped
  <1>3. ApiUrl(Parts[device[c].url]) \in Url
    BY ApiUrlType, CallsAssumption
  <1>4. ResourceUrl(ApiUrl(Parts[device[c].url]), Plan(c).path) \in Url
    BY <1>2, <1>3, ResourceUrlType
  <1> QED BY <1>1, <1>3, <1>4 DEF RequestOf, RequestType, Shaped

LEMMA CallStepInv ==
    ASSUME IInv, NEW c \in Calls, CallStep(c)
    PROVE  IInv'
  <1>1. TypeOK /\ ControlFits(c) /\ EffectFits(c) /\ Shaped(op[c], Plan(c))
    BY Known DEF IInv
  <1>2. \A d \in Calls \ {c} : Untouched(d)
    BY <1>1 DEF CallStep, Resolve, RefuseTarget, RefuseUnsupported, Send, Receive,
       GiveUp, Return, Untouched, TypeOK
  <1>3. op' = op /\ Plan(c)' = Plan(c) /\ (Acts(c)' <=> Acts(c))
    BY DEF CallStep, Resolve, RefuseTarget, RefuseUnsupported, Send, Receive,
       GiveUp, Plan, Acts
  <1>4. TargetDevice(target[c], inventory) \in DeviceType
    BY <1>1, TargetDeviceType DEF TypeOK
  <1>5. TypeOK'
    <2>1. CASE Resolve(c)
      <3>1. device' \in [Calls -> DeviceType] /\ pc' \in [Calls -> {"idle", "bound",
               "handed over", "waiting", "done"}]
        BY <1>1, <1>4, <2>1 DEF Resolve, TypeOK
      <3> QED BY <1>1, <2>1, <3>1 DEF Resolve, TypeOK
    <2>2. CASE RefuseTarget(c)
      <3>1. device' \in [Calls -> DeviceType]
        BY <1>1, <1>4, <2>2 DEF RefuseTarget, TypeOK
      <3> QED BY <1>1, <2>2, <3>1 DEF RefuseTarget, Return, TypeOK, Refusals
    <2>3. CASE RefuseUnsupported(c)
      BY <1>1, <2>3 DEF RefuseUnsupported, Return, TypeOK, Refusals
    <2>4. CASE Send(c)
      <3>1. RequestOf(c) \in RequestType
        BY <1>1, <2>4, RequestMade DEF Send, ControlFits
      <3>2. request' \in [Calls -> RequestType \cup {NoRequest}]
        BY <1>1, <2>4, <3>1 DEF Send, TypeOK
      <3> QED BY <1>1, <2>4, <3>2 DEF Send, TypeOK
    <2>5. CASE Receive(c) \/ GiveUp(c)
      BY <1>1, <2>5 DEF Receive, GiveUp, Return, TypeOK
    <2> QED BY <2>1, <2>2, <2>3, <2>4, <2>5 DEF CallStep
  <1>6. CASE Resolve(c)
    <2>1. /\ pc'[c] \in {"bound", "handed over"} /\ pc[c] = "idle"
          /\ device'[c].url \in Urls
      BY <1>1, <1>4, <1>6 DEF Resolve, TypeOK, DeviceType
    <2>2. UNCHANGED <<result, request, wire, effects>>
      BY <1>6 DEF Resolve
    <2>3. wire[c] = "none" /\ result[c] = "pending"
      BY <1>1, <2>1 DEF ControlFits
    <2> QED BY <1>1, <1>2, <1>3, <1>5, <2>1, <2>2, <2>3, OneCall
            DEF ControlFits, EffectFits
  <1>7. CASE RefuseTarget(c) \/ RefuseUnsupported(c)
    <2>1. /\ pc'[c] = "done" /\ pc[c] \in {"idle", "bound"}
          /\ result'[c] \in Refusals
          /\ UNCHANGED <<wire, effects>>
      BY <1>1, <1>7 DEF RefuseTarget, RefuseUnsupported, Return, TypeOK, Refusals
    <2>2. wire[c] = "none"
      BY <1>1, <2>1 DEF ControlFits
    <2> QED BY <1>1, <1>2, <1>3, <1>5, <2>1, <2>2, OneCall
            DEF ControlFits, EffectFits, Refusals
  <1>8. CASE Send(c)
    <2>1. /\ pc'[c] = "waiting" /\ pc[c] = "bound" /\ Plan(c).supported
          /\ wire'[c] = "sent" /\ request'[c] = RequestOf(c)
          /\ UNCHANGED <<device, result, effects>>
      BY <1>1, <1>8 DEF Send, TypeOK
    <2>2. wire[c] = "none" /\ result[c] = "pending" /\ RequestOf(c)' = RequestOf(c)
      BY <1>1, <1>3, <2>1 DEF ControlFits, RequestOf
    <2> QED BY <1>1, <1>2, <1>3, <1>5, <2>1, <2>2, OneCall
            DEF ControlFits, EffectFits, Refusals
  <1>9. CASE Receive(c) \/ GiveUp(c)
    <2>1. /\ pc'[c] = "done" /\ pc[c] = "waiting"
          /\ result'[c] \in {"ok", "ADAPTER_ERROR"}
          /\ result'[c] = "ok" => wire[c] = "answered"
          /\ UNCHANGED <<device, request, wire, effects>>
      BY <1>1, <1>9 DEF Receive, GiveUp, Return, TypeOK
    <2>2. RequestOf(c)' = RequestOf(c)
      BY <1>3, <2>1 DEF RequestOf
    <2> QED BY <1>1, <1>2, <1>3, <1>5, <2>1, <2>2, OneCall
            DEF ControlFits, EffectFits, Refusals
  <1> QED BY <1>6, <1>7, <1>8, <1>9 DEF CallStep

(* What a controller does to a call whose request it serves.               *)
LEMMA ServeInv ==
    ASSUME IInv, NEW c \in Calls, ServeRead(c) \/ ServeChange(c)
    PROVE  IInv'
  <1>1. TypeOK /\ ControlFits(c) /\ EffectFits(c) /\ Shaped(op[c], Plan(c))
    BY Known DEF IInv
  <1>2. /\ UNCHANGED <<op, target, device, pc, result, request, inventory>>
        /\ wire[c] = "sent" /\ wire' = [wire EXCEPT ![c] = "answered"]
    BY DEF ServeRead, ServeChange, Serve, callVars
  <1>3. /\ Plan(c)' = Plan(c) /\ (Acts(c)' <=> Acts(c)) /\ RequestOf(c)' = RequestOf(c)
        /\ effects[c] = <<>>
    BY <1>1, <1>2 DEF Plan, Acts, RequestOf, EffectFits
  <1>4. ControlFits(c)'
    BY <1>1, <1>2, <1>3 DEF ControlFits, TypeOK
  <1>5. request[c] = RequestOf(c) /\ Plan(c).supported /\ device[c].url \in Urls
    BY <1>1, <1>2 DEF ControlFits
  <1>6. request[c].method = Plan(c).method /\ request[c] \in RequestType
    BY <1>5, RequestMade DEF RequestOf
  <1>7. CASE ServeRead(c)
    <2>1. ~Acts(c) /\ UNCHANGED effects
      BY <1>6, <1>7 DEF ServeRead, Acts
    <2>2. TypeOK' /\ EffectFits(c)'
      BY <1>1, <1>2, <1>3, <2>1 DEF TypeOK, EffectFits
    <2>3. \A d \in Calls \ {c} : Untouched(d)
      BY <1>1, <1>2, <2>1 DEF Untouched, TypeOK
    <2> QED BY <1>4, <2>2, <2>3, OneCall
  <1>8. CASE ServeChange(c)
    <2>1. Acts(c) /\ effects' = [effects EXCEPT ![c] = <<request[c]>>]
      BY <1>3, <1>5, <1>6, <1>8 DEF ServeChange, Acts
    <2>2. TypeOK'
      <3>1. <<request[c]>> \in Seq(RequestType)
        BY <1>6
      <3>2. effects' \in [Calls -> Seq(RequestType)]
        BY <1>1, <2>1, <3>1 DEF TypeOK
      <3> QED BY <1>1, <1>2, <3>2 DEF TypeOK
    <2>3. effects'[c] = <<request[c]>> /\ wire'[c] = "answered"
      BY <1>1, <1>2, <2>1 DEF TypeOK
    <2>4. EffectFits(c)'
      BY <1>3, <1>5, <2>1, <2>3 DEF EffectFits
    <2>5. \A d \in Calls \ {c} : Untouched(d)
      BY <1>1, <1>2, <2>1 DEF Untouched, TypeOK
    <2> QED BY <1>4, <2>2, <2>4, <2>5, OneCall
  <1> QED BY <1>7, <1>8

LEMMA ControllerStepInv ==
    ASSUME IInv, NEW c \in Calls, ControllerStep(c)
    PROVE  IInv'
  <1>1. TypeOK /\ ControlFits(c) /\ EffectFits(c)
    BY Known DEF IInv
  <1>2. CASE Reject(c)
    <2>1. /\ UNCHANGED <<op, target, device, pc, result, request, inventory, effects>>
          /\ wire[c] = "sent" /\ wire' = [wire EXCEPT ![c] = "rejected"]
      BY <1>2 DEF Reject, callVars
    <2>2. TypeOK' /\ wire'[c] = "rejected"
      BY <1>1, <2>1 DEF TypeOK
    <2>3. (ControlFits(c) /\ EffectFits(c))'
      BY <1>1, <2>1, <2>2 DEF ControlFits, EffectFits, Plan, Acts, RequestOf
    <2>4. \A d \in Calls \ {c} : Untouched(d)
      BY <1>1, <2>1 DEF Untouched, TypeOK
    <2> QED BY <2>2, <2>3, <2>4, OneCall
  <1> QED BY <1>2, ServeInv DEF ControllerStep

LEMMA NextInv == IInv /\ [Next]_vars => IInv'
  <1> SUFFICES ASSUME IInv, [Next]_vars PROVE IInv'
    OBVIOUS
  <1>1. ASSUME NEW c \in Calls, CallStep(c) \/ ControllerStep(c) PROVE IInv'
    BY <1>1, CallStepInv, ControllerStepInv
  <1>2. CASE EditInventory \/ UNCHANGED vars
    <2>1. /\ UNCHANGED <<op, target, device, pc, result, request, wire, effects>>
          /\ inventory' \in Inventories
      BY <1>2 DEF EditInventory, vars, callVars, IInv, TypeOK
    <2>2. TypeOK'
      BY <2>1 DEF IInv, TypeOK
    <2>3. \A c \in Calls : Untouched(c)
      BY <2>1 DEF Untouched
    <2> QED BY <2>2, <2>3, Frame DEF IInv, Consistent
  <1> QED BY <1>1, <1>2 DEF Next

LEMMA Invariance == Spec => []IInv
  <1>1. Init => IInv
    BY InitInv
  <1>2. IInv /\ [Next]_vars => IInv'
    BY NextInv
  <1> QED BY <1>1, <1>2, PTL DEF Spec

-----------------------------------------------------------------------------
(* What follows for every set of calls, operations and inventories.        *)

(* Every variable keeps its type: what is found is a device that has a     *)
(* URL, or an error, and requests and changes are at URLs.                 *)
THEOREM TypeCorrect == Spec => []TypeOK
  <1>1. IInv => TypeOK
    BY DEF IInv
  <1> QED BY <1>1, Invariance, PTL

(* What TouchesOnlyItsOwn says of an effect.                               *)
Own(c, effect) ==
    LET api == ApiUrl(Parts[device[c].url])
    IN  /\ (\A path \in Given(op[c]) : Relative(path))
              => effect.url.server = api.server
        /\ (/\ Plain(api.path)
            /\ \A path \in Given(op[c]) : path # <<>> /\ Plain(path))
              => effect.url.path \in {api.path \o path :
                                         path \in Meant(op[c], effect.method)}

(* A call changes at most one thing: under the API of the controller it    *)
(* has resolved, unless it is given another's URL, and what its operation  *)
(* means, if its paths mean what they say; whatever is lost or late.       *)
THEOREM OnlyItsOwn == Spec => []TouchesOnlyItsOwn
  <1>1. ASSUME IInv, NEW c \in Calls
        PROVE  Len(effects[c]) <= 1 /\ \A k \in DOMAIN effects[c] : Own(c, effects[c][k])
    <2>1. /\ ControlFits(c) /\ EffectFits(c) /\ Shaped(op[c], Plan(c))
          /\ op[c] \in OperationType
      BY <1>1, Known
    <2>2. CASE effects[c] = <<>>
      BY <2>2
    <2>3. CASE wire[c] = "answered" /\ Acts(c) /\ effects[c] = <<RequestOf(c)>>
      <3> DEFINE api == ApiUrl(Parts[device[c].url])
                 p   == Plan(c).path
      <3>1. Plan(c).supported /\ Plan(c).method # "GET" /\ device[c].url \in Urls
        BY <2>1, <2>3 DEF ControlFits, Acts
      <3>2. Made(op[c], p) /\ p \in Meant(op[c], Plan(c).method)
        BY <2>1, <3>1 DEF Shaped
      <3>3. api \in Url
        BY <1>1, <3>1, RequestMade
      <3>4. RequestOf(c).url = ResourceUrl(api, p) /\ RequestOf(c).method = Plan(c).method
        BY DEF RequestOf
      <3> HIDE DEF api, p
      <3>5. (\A path \in Given(op[c]) : Relative(path))
               => ResourceUrl(api, p).server = api.server
        BY <2>1, <3>2, <3>3, PathMade, StaysThere
      <3>6. Plain(api.path) /\ (\A path \in Given(op[c]) : path # <<>> /\ Plain(path))
               => ResourceUrl(api, p).path = api.path \o p
        BY <2>1, <3>2, <3>3, PathMade, PlainlyThere
      <3>7. Own(c, RequestOf(c))
        BY <3>2, <3>4, <3>5, <3>6 DEF Own, api
      <3>8. Len(effects[c]) = 1 /\ \A k \in DOMAIN effects[c] : effects[c][k] = RequestOf(c)
        BY <2>3
      <3> QED BY <3>7, <3>8
    <2> QED BY <2>1, <2>2, <2>3 DEF EffectFits
  <1>2. IInv => TouchesOnlyItsOwn
    BY <1>1 DEF TouchesOnlyItsOwn, Own
  <1> QED BY <1>2, Invariance, PTL

(* In a well-kept inventory the name of a device leads back to it.         *)
THEOREM NamesLeadBackAlways == Spec => []NamesLeadBack
  <1>1. NamesLeadBack
    BY NameLeadsBack DEF NamesLeadBack
  <1> QED BY <1>1, PTL

(***************************************************************************)
(* The calls keep the promise: every step is one of OperationOutcome or    *)
(* changes nothing that a caller sees.                                     *)
(***************************************************************************)
LEMMA PromiseInit == Init => Promise!Init
  <1> SUFFICES ASSUME Init PROVE Promise!Init
    OBVIOUS
  <1>1. ASSUME NEW c \in Calls
        PROVE  Outcome(c) = "pending" /\ Len(effects[c]) = 0
    BY DEF Init, Outcome, Refusals
  <1> QED BY <1>1 DEF Promise!Init

(* What a caller sees of a step of its call.                               *)
LEMMA PromiseOfCall ==
    ASSUME IInv, NEW c \in Calls, CallStep(c)
    PROVE  /\ UNCHANGED <<op, effects>>
           /\ \A d \in Calls \ {c} : Outcome(d)' = Outcome(d)
           /\ \/ Outcome(c)' = Outcome(c)
              \/ /\ Outcome(c) = "pending"
                 /\ \/ Outcome(c)' = "refused" /\ Len(effects[c]) = 0
                    \/ Outcome(c)' = "unknown"
                    \/ /\ Outcome(c)' = "ok"
                       /\ Len(effects[c]) = IF Acts(c) THEN 1 ELSE 0
  <1>1. TypeOK /\ ControlFits(c) /\ EffectFits(c)
    BY Known DEF IInv
  <1>2. UNCHANGED <<op, effects>>
    BY DEF CallStep, Resolve, RefuseTarget, RefuseUnsupported, Send, Receive, GiveUp
  <1>3. \A d \in Calls \ {c} : Outcome(d)' = Outcome(d)
    BY <1>1 DEF CallStep, Resolve, RefuseTarget, RefuseUnsupported, Send, Receive,
       GiveUp, Return, Outcome, TypeOK
  <1>4. CASE Resolve(c) \/ Send(c)
    BY <1>2, <1>3, <1>4 DEF Resolve, Send, Outcome
  <1>5. CASE ~(Resolve(c) \/ Send(c))
    <2>1. pc[c] # "done" /\ result[c] = "pending" /\ Outcome(c) = "pending"
      BY <1>1, <1>5 DEF CallStep, RefuseTarget, RefuseUnsupported, Receive, GiveUp,
         ControlFits, Outcome, Refusals
    <2>2. CASE RefuseTarget(c) \/ RefuseUnsupported(c)
      <3>1. result'[c] \in Refusals /\ wire[c] = "none"
        BY <1>1, <2>2 DEF RefuseTarget, RefuseUnsupported, Return, TypeOK, Refusals,
           ControlFits
      <3>2. Outcome(c)' = "refused"
        BY <3>1 DEF Outcome, Refusals
      <3>3. effects[c] = <<>>
        BY <1>1, <3>1 DEF EffectFits
      <3> QED BY <1>2, <1>3, <2>1, <3>2, <3>3
    <2>3. CASE GiveUp(c)
      <3>1. Outcome(c)' = "unknown"
        BY <1>1, <2>3 DEF GiveUp, Return, TypeOK, Outcome, Refusals
      <3> QED BY <1>2, <1>3, <2>1, <3>1
    <2>4. CASE Receive(c)
      <3>1. Outcome(c)' = "ok" /\ wire[c] = "answered"
        BY <1>1, <2>4 DEF Receive, Return, TypeOK, Outcome, Refusals
      <3>2. Len(effects[c]) = IF Acts(c) THEN 1 ELSE 0
        BY <1>1, <3>1 DEF EffectFits
      <3> QED BY <1>2, <1>3, <2>1, <3>1, <3>2
    <2> QED BY <1>5, <2>2, <2>3, <2>4 DEF CallStep
  <1> QED BY <1>4, <1>5

(* What it sees of a step of the controller.                               *)
LEMMA PromiseOfController ==
    ASSUME IInv, NEW c \in Calls, ControllerStep(c)
    PROVE  /\ UNCHANGED <<op, result>>
           /\ \/ UNCHANGED effects
              \/ /\ Acts(c) /\ Len(effects[c]) = 0
                 /\ Outcome(c) \in {"pending", "unknown"}
                 /\ \E e : effects' = [effects EXCEPT ![c] = <<e>>]
  <1>1. TypeOK /\ ControlFits(c) /\ EffectFits(c) /\ Shaped(op[c], Plan(c))
    BY Known DEF IInv
  <1>2. UNCHANGED <<op, result>> /\ wire[c] = "sent"
    BY DEF ControllerStep, ServeRead, ServeChange, Serve, Reject, callVars
  <1>3. effects[c] = <<>> /\ Plan(c).supported
    BY <1>1, <1>2 DEF EffectFits, ControlFits
  <1>4. result[c] \in {"pending", "ADAPTER_ERROR"}
    BY <1>1, <1>2 DEF ControlFits, TypeOK
  <1>5. Outcome(c) \in {"pending", "unknown"}
    BY <1>4 DEF Outcome, Refusals
  <1>6. CASE ServeRead(c) \/ Reject(c)
    BY <1>2, <1>6 DEF ServeRead, Reject
  <1>7. CASE ServeChange(c)
    <2>1. request[c] = RequestOf(c)
      BY <1>1, <1>2 DEF ControlFits
    <2>2. Acts(c)
      BY <1>3, <1>7, <2>1 DEF ServeChange, Acts, RequestOf
    <2>3. effects' = [effects EXCEPT ![c] = <<request[c]>>]
      BY <1>3, <1>7 DEF ServeChange
    <2> QED BY <1>2, <1>3, <1>5, <2>2, <2>3
  <1> QED BY <1>6, <1>7 DEF ControllerStep

LEMMA PromiseStep == IInv /\ [Next]_vars => [Promise!Next]_Promise!vars
  <1> DEFINE kind    == [c \in Calls |-> IF Acts(c) THEN "act" ELSE "read"]
             outcome == [c \in Calls |-> Outcome(c)]
             applied == [c \in Calls |-> Len(effects[c])]
  <1> SUFFICES ASSUME IInv, [Next]_vars
               PROVE  Promise!Next \/ UNCHANGED <<kind, outcome, applied>>
    BY DEF Promise!vars
  <1>1. op' = op => kind' = kind
    BY DEF Acts, Plan
  <1>2. ASSUME NEW c \in Calls, CallStep(c)
        PROVE  Promise!Next \/ UNCHANGED <<kind, outcome, applied>>
    <2>1. UNCHANGED <<kind, applied>>
      BY <1>1, <1>2, PromiseOfCall
    <2>2. outcome' = [outcome EXCEPT ![c] = Outcome(c)']
      BY <1>2, PromiseOfCall
    <2>3. CASE Outcome(c)' = Outcome(c)
      BY <2>1, <2>2, <2>3
    <2>4. CASE Outcome(c)' # Outcome(c)
      <3>1. /\ outcome[c] = "pending"
            /\ kind[c] = "act" <=> Acts(c)
            /\ applied[c] = Len(effects[c])
        BY <1>2, <2>4, PromiseOfCall
      <3>2. \/ Outcome(c)' = "refused" /\ applied[c] = 0
            \/ Outcome(c)' = "unknown"
            \/ Outcome(c)' = "ok" /\ applied[c] = IF kind[c] = "act" THEN 1 ELSE 0
        BY <1>2, <2>4, <3>1, PromiseOfCall
      <3> HIDE DEF kind, outcome, applied
      <3>3. Promise!ReportOk(c) \/ Promise!Refuse(c) \/ Promise!ReportUnknown(c)
        BY <2>1, <2>2, <3>1, <3>2
           DEF Promise!ReportOk, Promise!Refuse, Promise!ReportUnknown,
               kind, outcome, applied
      <3> QED BY <3>3 DEF Promise!Next
    <2> QED BY <2>3, <2>4
  <1>3. ASSUME NEW c \in Calls, ControllerStep(c)
        PROVE  Promise!Next \/ UNCHANGED <<kind, outcome, applied>>
    <2>1. UNCHANGED <<kind, outcome>>
      BY <1>1, <1>3, PromiseOfController DEF Outcome
    <2>2. CASE UNCHANGED effects
      BY <2>1, <2>2
    <2>3. ASSUME NEW e, effects' = [effects EXCEPT ![c] = <<e>>], Acts(c),
                 Len(effects[c]) = 0, Outcome(c) \in {"pending", "unknown"}
          PROVE  Promise!Next
      <3>1. effects \in [Calls -> Seq(RequestType)]
        BY DEF IInv, TypeOK
      <3>2. \A d \in Calls : effects'[d] = IF d = c THEN <<e>> ELSE effects[d]
        BY <2>3, <3>1
      <3>3. applied' = [applied EXCEPT ![c] = 1]
        <4>1. Len(<<e>>) = 1
          OBVIOUS
        <4> QED BY <3>2, <4>1
      <3>4. Promise!Apply(c)
        BY <2>1, <2>3, <3>3 DEF Promise!Apply
      <3> QED BY <3>4 DEF Promise!Next
    <2> QED BY <1>3, <2>2, <2>3, PromiseOfController
  <1>4. CASE EditInventory \/ UNCHANGED vars
    <2>1. UNCHANGED <<op, result, effects>>
      BY <1>4 DEF EditInventory, vars, callVars
    <2> QED BY <1>1, <2>1 DEF Outcome
  <1> QED BY <1>2, <1>3, <1>4 DEF Next

(* Calls on controllers implement OperationOutcome.                        *)
THEOREM Refinement == Spec => KeepsPromise
  <1>1. Init => Promise!Init
    BY PromiseInit
  <1>2. IInv /\ [Next]_vars => [Promise!Next]_Promise!vars
    BY PromiseStep
  <1> QED BY <1>1, <1>2, Invariance, PTL DEF Spec, KeepsPromise, Promise!Spec
=============================================================================
