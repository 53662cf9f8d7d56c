--------------------------- MODULE Scanner_proofs ---------------------------
(***************************************************************************)
(* What parse_text makes of any program, on any lines and with any         *)
(* comments: that it gives the program back, whole, in well-formed         *)
(* operations, and why it refuses an operation that is well formed.        *)
(***************************************************************************)
EXTENDS Scanner, FiniteSetTheorems, SequenceTheorems, WellFoundedInduction, TLAPS

(***************************************************************************)
(* Induction over places: a set of numbers has a least one, and so has the *)
(* set of those for which something fails.                                 *)
(***************************************************************************)
LEMMA Least ==
    ASSUME NEW S, S \subseteq Nat, S # {}
    PROVE  \E m \in S : \A n \in S : m <= n
  <1> DEFINE T == {0..n : n \in S}
  <1>1. T \subseteq FiniteSubsetsOf(Nat) /\ T # {}
    <2>1. \A n \in S : 0..n \subseteq Nat /\ IsFiniteSet(0..n)
      BY FS_Interval
    <2> QED BY <2>1 DEF FiniteSubsetsOf
  <1>2. \E x \in T : \A y \in T : ~ (<<y, x>> \in StrictSubsetOrdering(Nat))
    <2> HIDE DEF T
    <2> QED BY <1>1, FS_StrictSubsetOrderingWellFounded, WFMin
  <1>3. PICK m \in S : \A n \in S : <<0..n, 0..m>> \notin StrictSubsetOrdering(Nat)
    BY <1>2
  <1>4. ASSUME NEW n \in S PROVE ~(n < m)
    <2>1. n < m => 0..n \subseteq 0..m /\ m \in 0..m /\ m \notin 0..n
      OBVIOUS
    <2>2. 0..n \in SUBSET Nat /\ 0..m \in SUBSET Nat
      OBVIOUS
    <2> QED BY <1>3, <2>1, <2>2 DEF StrictSubsetOrdering
  <1> QED BY <1>4

(* Min is the least. *)
LEMMA MinIsLeast ==
    ASSUME NEW S, S \subseteq Nat, S # {}
    PROVE  Min(S) \in S /\ \A n \in S : Min(S) <= n
  BY Least DEF Min

(* What is least is Min. *)
LEMMA MinIs ==
    ASSUME NEW S, S \subseteq Nat, NEW m \in S, \A n \in S : m <= n
    PROVE  Min(S) = m
  <1>1. Min(S) \in S /\ Min(S) <= m /\ m <= Min(S) /\ Min(S) \in Nat /\ m \in Nat
    BY MinIsLeast
  <1> QED BY <1>1

(* A set that has 0, and n + 1 for each n of it, has all numbers. *)
LEMMA Induction ==
    ASSUME NEW S, 0 \in S, \A n \in Nat : n \in S => n + 1 \in S
    PROVE  Nat \subseteq S
  <1> SUFFICES ASSUME Nat \ S # {} PROVE FALSE
    OBVIOUS
  <1>1. PICK m \in Nat \ S : \A n \in Nat \ S : m <= n
    BY Least
  <1>2. m # 0 /\ m - 1 \in Nat /\ ~(m <= m - 1)
    OBVIOUS
  <1>3. m - 1 \in S
    BY <1>1, <1>2
  <1>4. (m - 1) + 1 \in S
    BY <1>2, <1>3
  <1> QED BY <1>4

-----------------------------------------------------------------------------
(* What the texts are made of.  End is a string, which is not told. *)
Symbols == STRING \cup {End}

(* Programs and comments are made of them. *)
LEMMA StringsAre ==
    ASSUME NEW s \in Seq(STRING)
    PROVE  s \in Seq(Symbols)
  BY SeqDef DEF Symbols

-----------------------------------------------------------------------------
(***************************************************************************)
(* Strings.                                                                *)
(***************************************************************************)

(* What a scanner may be in. *)
LexStates ==
    {s \in [quote : Quotes \cup {"none"}, escaped : BOOLEAN] :
        s.quote = "none" => ~s.escaped}

(* A scanner stays in them. *)
LEMMA LexType ==
    ASSUME NEW s \in LexStates, NEW symbol
    PROVE  Lex(s, symbol) \in LexStates
  <1>1. s \in [quote : Quotes \cup {"none"}, escaped : BOOLEAN] /\ (s.quote = "none" => ~s.escaped)
    BY DEF LexStates
  <1>2. CASE s.escaped
    BY <1>1, <1>2 DEF Lex, LexStates, Quotes
  <1>3. CASE ~s.escaped /\ symbol = "\\" /\ s.quote # "none"
    BY <1>1, <1>3 DEF Lex, LexStates, Quotes
  <1>4. CASE ~s.escaped /\ symbol \in Quotes /\ s.quote = "none"
    BY <1>1, <1>4 DEF Lex, LexStates, Quotes
  <1>5. CASE ~s.escaped /\ symbol = s.quote /\ s.quote # "none"
    BY <1>1, <1>5 DEF Lex, LexStates, Quotes
  <1> QED BY <1>1, <1>2, <1>3, <1>4, <1>5 DEF Lex, LexStates

(* One that is in no string is as it was at first. *)
LEMMA OutsideIs == Outside \in LexStates /\ \A s \in LexStates : s.quote = "none" => s = Outside
  BY DEF Outside, LexStates

(* The recursive function is there, for there is one up to each place. *)
LEMMA ScanIs ==
    ASSUME NEW line, Len(line) \in Nat
    PROVE  Scan(line) = [k \in 0..Len(line) |->
                            IF k = 0 THEN Outside ELSE Lex(Scan(line)[k-1], line[k])]
  <1> DEFINE step(g, k) == IF k = 0 THEN Outside ELSE Lex(g[k-1], line[k])
             S == {n \in Nat : \E g : g = [k \in 0..n |-> step(g, k)]}
  <1>1. 0 \in S
    <2> DEFINE g == [k \in 0..0 |-> Outside]
    <2>1. g = [k \in 0..0 |-> step(g, k)]
      OBVIOUS
    <2> QED BY <2>1
  <1>2. ASSUME NEW n \in Nat, n \in S PROVE n + 1 \in S
    <2>1. PICK g : g = [k \in 0..n |-> step(g, k)]
      BY <1>2
    <2> DEFINE h == [k \in 0..n+1 |-> IF k = n + 1 THEN step(g, n + 1) ELSE g[k]]
    <2>2. \A k \in 0..n : g[k] = step(g, k)
      BY <2>1
    <2>3. ASSUME NEW k \in 0..n+1 PROVE h[k] = step(h, k)
      <3>1. CASE k = n + 1
        <4>1. h[k] = step(g, n + 1) /\ k - 1 \in 0..n+1 /\ k - 1 # n + 1
          BY <3>1
        <4>2. h[k-1] = g[k-1]
          BY <4>1
        <4> QED BY <3>1, <4>1, <4>2
      <3>2. CASE k = 0
        BY <2>2, <3>2
      <3>3. CASE k \in 1..n
        <4>1. h[k] = g[k] /\ k - 1 \in 0..n+1 /\ k - 1 # n + 1 /\ k \in 0..n
          BY <3>3
        <4>2. h[k-1] = g[k-1]
          BY <4>1
        <4> QED BY <2>2, <3>3, <4>1, <4>2
      <3> QED BY <3>1, <3>2, <3>3
    <2>4. h = [k \in 0..n+1 |-> step(h, k)]
      <3> HIDE DEF step
      <3> QED BY <2>3
    <2> HIDE DEF h
    <2> QED BY <2>4
  <1>3. Len(line) \in S
    <2> HIDE DEF S
    <2> QED BY <1>1, <1>2, Induction
  <1>4. \E g : g = [k \in 0..Len(line) |-> step(g, k)]
    BY <1>3
  <1> QED BY <1>4 DEF Scan

(* The scanner goes symbol by symbol. *)
LEMMA AfterIs ==
    ASSUME NEW line, Len(line) \in Nat
    PROVE  /\ After(line, 0) = Outside
           /\ \A k \in 1..Len(line) : After(line, k) = Lex(After(line, k-1), line[k])
  <1>1. \A k \in 0..Len(line) :
           Scan(line)[k] = IF k = 0 THEN Outside ELSE Lex(Scan(line)[k-1], line[k])
    BY ScanIs
  <1> QED BY <1>1 DEF After

(* It is always in one of its states. *)
LEMMA AfterType ==
    ASSUME NEW line, Len(line) \in Nat, NEW k \in 0..Len(line)
    PROVE  After(line, k) \in LexStates
  <1> DEFINE S == {n \in Nat : n <= Len(line) => After(line, n) \in LexStates}
  <1>1. 0 \in S
    BY AfterIs, OutsideIs
  <1>2. ASSUME NEW n \in Nat, n \in S, n + 1 <= Len(line) PROVE After(line, n + 1) \in LexStates
    <2>1. After(line, n) \in LexStates
      BY <1>2
    <2>2. n + 1 \in 1..Len(line) /\ (n + 1) - 1 = n
      BY <1>2
    <2>3. After(line, n + 1) = Lex(After(line, n), line[n + 1])
      BY <2>2, AfterIs
    <2> QED BY <2>1, <2>3, LexType
  <1>3. \A n \in Nat : n \in S => n + 1 \in S
    BY <1>2
  <1>4. k \in S
    <2> HIDE DEF S
    <2> QED BY <1>1, <1>3, Induction
  <1> QED BY <1>4

-----------------------------------------------------------------------------
(***************************************************************************)
(* A part of a text that begins outside of strings is read as it is in the *)
(* text.                                                                   *)
(***************************************************************************)

(* The n symbols of text after place e begin part. *)
Part(text, part, e, n) ==
    /\ text \in Seq(Symbols) /\ part \in Seq(Symbols)
    /\ e \in 0..Len(text) /\ n \in 0..Len(part) /\ e + n <= Len(text)
    /\ \A k \in 1..n : part[k] = text[e + k]

(* The scanner of the part is the one of the text. *)
LEMMA AfterPart ==
    ASSUME NEW text, NEW part, NEW e, NEW n, Part(text, part, e, n), After(text, e) = Outside,
           NEW k \in 0..n
    PROVE  After(part, k) = After(text, e + k)
  <1> DEFINE S == {m \in Nat : m <= n => After(part, m) = After(text, e + m)}
  <1>0. /\ Len(text) \in Nat /\ Len(part) \in Nat /\ e \in Nat /\ n \in Nat
        /\ n <= Len(part) /\ e + n <= Len(text)
    BY DEF Part
  <1>1. 0 \in S
    BY <1>0, AfterIs
  <1>2. ASSUME NEW m \in Nat, m \in S, m + 1 <= n
        PROVE  After(part, m + 1) = After(text, e + (m + 1))
    <2>1. After(part, m) = After(text, e + m)
      BY <1>0, <1>2
    <2>2. /\ m + 1 \in 1..Len(part) /\ (m + 1) - 1 = m
          /\ e + (m + 1) \in 1..Len(text) /\ (e + (m + 1)) - 1 = e + m
      BY <1>0, <1>2
    <2>3. After(part, m + 1) = Lex(After(part, m), part[m + 1])
      BY <1>0, <2>2, AfterIs
    <2>4. After(text, e + (m + 1)) = Lex(After(text, e + m), text[e + (m + 1)])
      BY <1>0, <2>2, AfterIs
    <2>5. part[m + 1] = text[e + (m + 1)]
      BY <1>2, <1>0 DEF Part
    <2> QED BY <2>1, <2>3, <2>4, <2>5
  <1>3. \A m \in Nat : m \in S => m + 1 \in S
    BY <1>2
  <1>4. k \in S
    <2> HIDE DEF S
    <2> QED BY <1>0, <1>1, <1>3, Induction
  <1> QED BY <1>0, <1>4

(* What is in a string in the one is in the other. *)
LEMMA BarePart ==
    ASSUME NEW text, NEW part, NEW e, NEW n, Part(text, part, e, n), After(text, e) = Outside,
           NEW k \in 1..n
    PROVE  k \in Bare(part) <=> e + k \in Bare(text)
  <1>1. k - 1 \in 0..n /\ e + (k - 1) = (e + k) - 1
    BY DEF Part
  <1>2. After(part, k - 1) = After(text, (e + k) - 1)
    BY <1>1, AfterPart
  <1>3. k \in DOMAIN part /\ e + k \in DOMAIN text
    BY DEF Part
  <1> QED BY <1>2, <1>3 DEF Bare

-----------------------------------------------------------------------------
(***************************************************************************)
(* Depth.                                                                  *)
(***************************************************************************)
Delta(line, k) ==
    IF k \in Bare(line) /\ line[k] \in Open THEN 1
    ELSE IF k \in Bare(line) /\ line[k] \in Closing THEN -1 ELSE 0

(* The places up to k, outside of strings, of some symbols. *)
Places(line, k, symbols) == {j \in Bare(line) : j <= k /\ line[j] \in symbols}

(* They are none at first, and always so many. *)
LEMMA PlacesAre ==
    ASSUME NEW line \in Seq(Symbols), NEW symbols
    PROVE  /\ Places(line, 0, symbols) = {}
           /\ \A k \in 0..Len(line) :
                 /\ IsFiniteSet(Places(line, k, symbols))
                 /\ Cardinality(Places(line, k, symbols)) \in Nat
  <1>1. Bare(line) \subseteq 1..Len(line) /\ Len(line) \in Nat
    BY DEF Bare
  <1>2. Places(line, 0, symbols) = {}
    BY <1>1 DEF Places
  <1>3. IsFiniteSet(1..Len(line))
    BY <1>1, FS_Interval
  <1>4. ASSUME NEW k \in 0..Len(line)
        PROVE  /\ IsFiniteSet(Places(line, k, symbols))
               /\ Cardinality(Places(line, k, symbols)) \in Nat
    <2>1. Places(line, k, symbols) \subseteq 1..Len(line)
      BY <1>1 DEF Places
    <2>2. IsFiniteSet(Places(line, k, symbols))
      BY <1>3, <2>1, FS_Subset
    <2> QED BY <2>2, FS_CardinalityType
  <1> QED BY <1>2, <1>4

(* A place is added where such a symbol is. *)
LEMMA PlacesGrow ==
    ASSUME NEW line \in Seq(Symbols), NEW symbols, NEW k \in 1..Len(line)
    PROVE  Places(line, k, symbols) =
              Places(line, k - 1, symbols) \cup
              (IF k \in Bare(line) /\ line[k] \in symbols THEN {k} ELSE {})
  <1>1. Bare(line) \subseteq 1..Len(line) /\ Len(line) \in Nat
    BY DEF Bare
  <1> QED BY <1>1 DEF Places

(* And counted. *)
LEMMA OneMore ==
    ASSUME NEW line \in Seq(Symbols), NEW symbols, NEW k \in 1..Len(line)
    PROVE  Cardinality(Places(line, k, symbols)) =
              Cardinality(Places(line, k - 1, symbols)) +
              (IF k \in Bare(line) /\ line[k] \in symbols THEN 1 ELSE 0)
  <1>1. k - 1 \in 0..Len(line) /\ k \in 0..Len(line)
    OBVIOUS
  <1>2. k \notin Places(line, k - 1, symbols)
    BY DEF Places
  <1>3. IsFiniteSet(Places(line, k - 1, symbols)) /\ Cardinality(Places(line, k - 1, symbols)) \in Nat
    BY <1>1, PlacesAre
  <1>4. Places(line, k, symbols) =
           Places(line, k - 1, symbols) \cup
           (IF k \in Bare(line) /\ line[k] \in symbols THEN {k} ELSE {})
    BY PlacesGrow
  <1>5. CASE k \in Bare(line) /\ line[k] \in symbols
    <2>1. Places(line, k, symbols) = Places(line, k - 1, symbols) \cup {k}
      BY <1>5, <1>4
    <2> QED BY <1>2, <1>3, <1>5, <2>1, FS_AddElement
  <1>6. CASE ~(k \in Bare(line) /\ line[k] \in symbols)
    <2>1. Places(line, k, symbols) = Places(line, k - 1, symbols)
      BY <1>6, <1>4
    <2> QED BY <1>3, <1>6, <2>1
  <1> QED BY <1>5, <1>6

(* Depth goes symbol by symbol. *)
LEMMA DepthIs ==
    ASSUME NEW line \in Seq(Symbols)
    PROVE  /\ Depth(line, 0) = 0
           /\ \A k \in 0..Len(line) : Depth(line, k) \in Int
           /\ \A k \in 1..Len(line) : Depth(line, k) = Depth(line, k - 1) + Delta(line, k)
  <1>1. \A k : Depth(line, k) = Cardinality(Places(line, k, Open))
                                  - Cardinality(Places(line, k, Closing))
    BY DEF Depth, Places
  <1>2. Depth(line, 0) = 0
    <2>1. Places(line, 0, Open) = {} /\ Places(line, 0, Closing) = {}
      BY PlacesAre
    <2>2. Cardinality({}) = 0
      BY FS_EmptySet
    <2>3. Depth(line, 0) = Cardinality({}) - Cardinality({})
      BY <1>1, <2>1
    <2> QED BY <2>2, <2>3
  <1>3. ASSUME NEW k \in 0..Len(line) PROVE Depth(line, k) \in Int
    <2>1. /\ Cardinality(Places(line, k, Open)) \in Nat
          /\ Cardinality(Places(line, k, Closing)) \in Nat
      BY PlacesAre
    <2> QED BY <1>1, <2>1
  <1>4. ASSUME NEW k \in 1..Len(line)
        PROVE  Depth(line, k) = Depth(line, k - 1) + Delta(line, k)
    <2>1. k - 1 \in 0..Len(line)
      OBVIOUS
    <2>2. /\ Cardinality(Places(line, k - 1, Open)) \in Nat
          /\ Cardinality(Places(line, k - 1, Closing)) \in Nat
      BY <2>1, PlacesAre
    <2>3. line[k] \in Open => line[k] \notin Closing
      BY DEF Open, Closing
    <2> QED BY <1>1, <2>2, <2>3, OneMore DEF Delta
  <1> QED BY <1>2, <1>3, <1>4

(* The depth of a part is what it adds to that of the text. *)
LEMMA DepthPart ==
    ASSUME NEW text, NEW part, NEW e, NEW n, Part(text, part, e, n), After(text, e) = Outside,
           NEW k \in 0..n
    PROVE  Depth(part, k) = Depth(text, e + k) - Depth(text, e)
  <1> DEFINE S == {m \in Nat : m <= n => Depth(part, m) = Depth(text, e + m) - Depth(text, e)}
  <1>0. /\ text \in Seq(Symbols) /\ part \in Seq(Symbols)
        /\ Len(text) \in Nat /\ Len(part) \in Nat /\ e \in Nat /\ n \in Nat
        /\ n <= Len(part) /\ e + n <= Len(text)
    BY DEF Part
  <1>1. 0 \in S
    <2>1. Depth(text, e) \in Int
      BY <1>0, DepthIs
    <2> QED BY <1>0, <2>1, DepthIs
  <1>2. ASSUME NEW m \in Nat, m \in S, m + 1 <= n
        PROVE  Depth(part, m + 1) = Depth(text, e + (m + 1)) - Depth(text, e)
    <2>1. Depth(part, m) = Depth(text, e + m) - Depth(text, e)
      BY <1>0, <1>2
    <2>2. /\ m + 1 \in 1..Len(part) /\ (m + 1) - 1 = m /\ m + 1 \in 1..n /\ m \in 0..Len(part)
          /\ e + (m + 1) \in 1..Len(text) /\ (e + (m + 1)) - 1 = e + m /\ e + m \in 0..Len(text)
          /\ e \in 0..Len(text)
      BY <1>0, <1>2
    <2>3. Depth(part, m + 1) = Depth(part, m) + Delta(part, m + 1)
      BY <1>0, <2>2, DepthIs
    <2>4. Depth(text, e + (m + 1)) = Depth(text, e + m) + Delta(text, e + (m + 1))
      BY <1>0, <2>2, DepthIs
    <2>5. Delta(part, m + 1) = Delta(text, e + (m + 1))
      <3>1. part[m + 1] = text[e + (m + 1)]
        BY <2>2 DEF Part
      <3>2. m + 1 \in Bare(part) <=> e + (m + 1) \in Bare(text)
        BY <2>2, BarePart
      <3> QED BY <3>1, <3>2 DEF Delta
    <2>6. Depth(part, m) \in Int /\ Depth(text, e + m) \in Int /\ Depth(text, e) \in Int
          /\ Delta(part, m + 1) \in Int
      BY <1>0, <2>2, DepthIs DEF Delta
    <2> QED BY <2>1, <2>3, <2>4, <2>5, <2>6
  <1>3. \A m \in Nat : m \in S => m + 1 \in S
    BY <1>2
  <1>4. k \in S
    <2> HIDE DEF S
    <2> QED BY <1>0, <1>1, <1>3, Induction
  <1> QED BY <1>0, <1>4

-----------------------------------------------------------------------------
(***************************************************************************)
(* Comments.                                                               *)
(***************************************************************************)

(* Of a line with a comment, what is before it is left. *)
LEMMA CommentIsStripped ==
    ASSUME NEW code \in Seq(Symbols), NEW comment \in Seq(Symbols),
           comment # <<>> => comment[1] = "#",
           comment # <<>> => After(code, Len(code)).quote = "none",
           \A k \in DOMAIN code : code[k] = "#" => After(code, k - 1).quote # "none"
    PROVE  StripComment(code \o comment) = code
  <1> DEFINE line == code \o comment
             n == Len(code)
             hashes == {k \in Bare(line) : line[k] = "#"}
  <1>1. /\ line \in Seq(Symbols) /\ Len(line) = n + Len(comment) /\ n \in Nat /\ Len(comment) \in Nat
        /\ \A k \in 1..n : line[k] = code[k]
        /\ \A k \in 1..Len(comment) : line[n + k] = comment[k]
        /\ DOMAIN line = 1..Len(line) /\ DOMAIN code = 1..n
    OBVIOUS
  <1> HIDE DEF line
  <1>2. \A k \in 0..n : After(line, k) = After(code, k)
    <2>1. Part(code, line, 0, n)
      BY <1>1 DEF Part
    <2>2. After(code, 0) = Outside
      BY <1>1, AfterIs
    <2> QED BY <1>1, <2>1, <2>2, AfterPart
  <1>3. \A k \in hashes : k > n /\ k \in Nat
    <2> SUFFICES ASSUME NEW k \in 1..n, k \in hashes PROVE FALSE
      BY <1>1 DEF Bare
    <2>1. k - 1 \in 0..n
      BY <1>1
    <2>2. After(code, k - 1).quote = "none"
      BY <1>2, <2>1 DEF Bare
    <2> QED BY <1>1, <2>2
  <1>4. CASE comment = <<>>
    <2>1. line = code
      BY <1>4 DEF line
    <2>2. hashes = {}
      BY <1>1, <1>3, <1>4 DEF Bare
    <2> QED BY <2>1, <2>2 DEF StripComment, line
  <1>5. CASE comment # <<>>
    <2>1. Len(comment) >= 1
      BY <1>5, <1>1
    <2>2. n + 1 \in hashes
      <3>1. n + 1 \in DOMAIN line /\ line[n + 1] = "#"
        BY <1>1, <1>5, <2>1
      <3>2. After(line, (n + 1) - 1).quote = "none"
        BY <1>1, <1>2, <1>5
      <3> QED BY <3>1, <3>2 DEF Bare
    <2>3. Min(hashes) = n + 1
      <3> HIDE DEF hashes
      <3>1. hashes \subseteq Nat /\ hashes # {} /\ \A k \in hashes : n + 1 <= k
        BY <1>1, <1>3, <2>2
      <3> QED BY <3>1, <2>2, MinIs
    <2>4. StripComment(line) = SubSeq(line, 1, n)
      <3>1. StripComment(line) = SubSeq(line, 1, Min(hashes) - 1)
        BY <2>2 DEF StripComment
      <3>2. Min(hashes) - 1 = n
        BY <1>1, <2>3
      <3> QED BY <3>1, <3>2
    <2>5. SubSeq(line, 1, n) = code
      BY <1>1
    <2> QED BY <2>4, <2>5 DEF line
  <1> QED BY <1>4, <1>5

(* A piece of a text. *)
LEMMA SubSeqIs ==
    ASSUME NEW s \in Seq(Symbols), NEW a \in 0..Len(s), NEW b \in 0..Len(s), a <= b
    PROVE  /\ SubSeq(s, a + 1, b) \in Seq(Symbols)
           /\ Len(SubSeq(s, a + 1, b)) = b - a
           /\ \A k \in 1..(b - a) : SubSeq(s, a + 1, b)[k] = s[a + k]
  OBVIOUS

(* Two pieces, one after the other, are one. *)
LEMMA SubSeqJoin ==
    ASSUME NEW s \in Seq(Symbols), NEW a \in 0..Len(s), NEW b \in 0..Len(s), NEW c \in 0..Len(s),
           a <= b, b <= c
    PROVE  SubSeq(s, a + 1, b) \o SubSeq(s, b + 1, c) = SubSeq(s, a + 1, c)
  <1> DEFINE x == SubSeq(s, a + 1, b)
             y == SubSeq(s, b + 1, c)
             z == SubSeq(s, a + 1, c)
  <1>1. /\ x \in Seq(Symbols) /\ Len(x) = b - a /\ \A k \in 1..(b - a) : x[k] = s[a + k]
        /\ y \in Seq(Symbols) /\ Len(y) = c - b /\ \A k \in 1..(c - b) : y[k] = s[b + k]
        /\ z \in Seq(Symbols) /\ Len(z) = c - a /\ \A k \in 1..(c - a) : z[k] = s[a + k]
    <2>1. a <= c /\ a \in Int /\ b \in Int /\ c \in Int
      OBVIOUS
    <2> QED BY <2>1, SubSeqIs
  <1> HIDE DEF x, y, z
  <1>2. x \o y \in Seq(Symbols) /\ Len(x \o y) = Len(z)
    <2>0. x \in Seq(Symbols) /\ y \in Seq(Symbols)
      BY <1>1
    <2>1. Len(x \o y) = Len(x) + Len(y) /\ x \o y \in Seq(Symbols)
      BY <2>0, ConcatProperties
    <2>2. a \in Int /\ b \in Int /\ c \in Int
      OBVIOUS
    <2>3. (b - a) + (c - b) = c - a
      BY <2>2
    <2> QED BY <1>1, <2>1, <2>3
  <1>3. ASSUME NEW k \in 1..Len(z) PROVE (x \o y)[k] = z[k]
    <2>1. CASE k <= b - a
      <3>1. k \in 1..(b - a) /\ k \in 1..Len(x)
        BY <1>1, <2>1
      <3>2. (x \o y)[k] = x[k]
        BY <1>1, <3>1
      <3>3. k \in 1..(c - a)
        BY <1>1
      <3> QED BY <1>1, <3>1, <3>2, <3>3
    <2>2. CASE k > b - a
      <3>1. k - (b - a) \in 1..(c - b) /\ b + (k - (b - a)) = a + k
        BY <1>1, <2>2
      <3>2. (x \o y)[k] = y[k - (b - a)]
        BY <1>1, <2>2
      <3> QED BY <1>1, <3>1, <3>2
    <2> QED BY <1>1, <2>1, <2>2
  <1>4. x \o y = z
    BY <1>1, <1>2, <1>3, SeqEqual
  <1> QED BY <1>4 DEF x, y, z

-----------------------------------------------------------------------------
(***************************************************************************)
(* The grammar.  Texts end with a symbol of their own.                     *)
(***************************************************************************)
EndsOnce(text) ==
    /\ text \in Seq(Symbols) /\ Len(text) >= 1
    /\ \A k \in 1..Len(text) : text[k] = End <=> k = Len(text)

Closers == {"}", "]", End}
Names   == SUBSET Identifiers

(* After any other symbol there is one more. *)
LEMMA NotLast ==
    ASSUME NEW text, EndsOnce(text), NEW i \in 1..Len(text), text[i] # End
    PROVE  i < Len(text) /\ i + 1 \in 1..Len(text) /\ i + 1 \in i+1..Len(text) /\ Len(text) \in Nat
  <1>1. Len(text) \in Nat /\ i # Len(text)
    BY DEF EndsOnce
  <1> QED BY <1>1

(* What is parsed at a place depends on what is parsed later only. *)
Agree(g, h, text, i) ==
    \A j \in i+1..Len(text), c \in Closers, s \in Names : g[j][c][s] = h[j][c][s]

LEMMA ValueLocal ==
    ASSUME NEW text, EndsOnce(text), NEW i \in 1..Len(text), NEW g, NEW h, Agree(g, h, text, i)
    PROVE  ValueEnd(g, text, i) = ValueEnd(h, text, i)
  <1>1. "}" \in Closers /\ "]" \in Closers /\ {} \in Names
    BY DEF Closers, Names
  <1>2. ASSUME text[i] = "{" PROVE g[i + 1]["}"][{}] = h[i + 1]["}"][{}]
    <2>1. text[i] # End
      BY <1>2 DEF End
    <2>2. i + 1 \in i+1..Len(text)
      BY <2>1, NotLast
    <2> QED BY <1>1, <2>2 DEF Agree
  <1>3. ASSUME text[i] = "[" PROVE g[i + 1]["]"][{}] = h[i + 1]["]"][{}]
    <2>1. text[i] # End
      BY <1>3 DEF End
    <2>2. i + 1 \in i+1..Len(text)
      BY <2>1, NotLast
    <2> QED BY <1>1, <2>2 DEF Agree
  <1>4. CASE text[i] \in Quotes
    <2>1. text[i] # "{" /\ text[i] # "[" /\ text[i] \notin Literals
      BY <1>4 DEF Quotes, Literals
    <2> QED BY <1>4, <2>1 DEF ValueEnd
  <1>5. CASE text[i] = "{"
    BY <1>2, <1>5 DEF ValueEnd, Quotes, Literals
  <1>6. CASE text[i] = "["
    BY <1>3, <1>6 DEF ValueEnd, Quotes, Literals
  <1>7. CASE text[i] \notin Quotes \cup {"{", "["}
    BY <1>7 DEF ValueEnd
  <1> QED BY <1>4, <1>5, <1>6, <1>7

LEMMA ItemLocal ==
    ASSUME NEW text, EndsOnce(text), NEW i \in 1..Len(text), NEW g, NEW h, Agree(g, h, text, i),
           NEW c \in Closers, NEW s \in Names
    PROVE  ItemEnd(g, text, i, c, s) = ItemEnd(h, text, i, c, s)
  <1>1. ValueEnd(g, text, i) = ValueEnd(h, text, i)
    BY ValueLocal
  <1>2. ASSUME text[i] \in Identifiers \ s, text[i+1] = "="
        PROVE  ValueEnd(g, text, i + 2) = ValueEnd(h, text, i + 2)
    <2>1. text[i] # End /\ text[i+1] # End
      BY <1>2 DEF Identifiers, End
    <2>2. i + 1 \in 1..Len(text)
      BY <2>1, NotLast
    <2>3. (i + 1) + 1 \in 1..Len(text)
      BY <2>1, <2>2, NotLast
    <2>4. i + 2 \in 1..Len(text) /\ Agree(g, h, text, i + 2)
      BY <2>3 DEF Agree
    <2> QED BY <2>4, ValueLocal
  <1> QED BY <1>1, <1>2 DEF ItemEnd

LEMMA ItemsLocal ==
    ASSUME NEW text, EndsOnce(text), NEW i \in 1..Len(text), NEW g, NEW h, Agree(g, h, text, i),
           NEW c \in Closers, NEW s \in Names
    PROVE  ItemsEnd(g, text, i, c, s) = ItemsEnd(h, text, i, c, s)
  <1> DEFINE now == IF c = End THEN s \cup {text[i]} ELSE s
             places == ItemEnd(g, text, i, c, s) \cap i+1..Len(text)
             rest(f, j) == CASE text[j] = c -> {j + 1} [] text[j] = "," -> f[j + 1][c][now] [] OTHER -> {}
  <1>1. ItemEnd(g, text, i, c, s) = ItemEnd(h, text, i, c, s)
    BY ItemLocal
  <1>2. ASSUME NEW j \in places, text[j] = ","
        PROVE  g[j + 1][c][now] = h[j + 1][c][now]
    <2>0. text[j] # End
      BY <1>2 DEF End
    <2>1. text[j] # End /\ j \in 1..Len(text)
      <3>1. j \in i+1..Len(text)
        BY <1>2
      <3>2. Len(text) \in Nat
        BY DEF EndsOnce
      <3> QED BY <2>0, <3>1, <3>2
    <2>2. j + 1 \in i+1..Len(text)
      <3>1. j + 1 \in j+1..Len(text) /\ j \in i+1..Len(text)
        BY <1>2, <2>1, NotLast
      <3> QED BY <3>1
    <2>3. now \in Names
      <3>1. c = End => text[i] \in Identifiers
        BY <1>2 DEF ItemEnd, End
      <3> QED BY <3>1 DEF Names
    <2> HIDE DEF now
    <2> QED BY <2>2, <2>3 DEF Agree
  <1>3. \A j \in places : rest(g, j) = rest(h, j)
    <2> HIDE DEF now
    <2> QED BY <1>2
  <1>4. UNION {rest(g, j) : j \in places} = UNION {rest(h, j) : j \in places}
    <2> HIDE DEF rest, places
    <2> QED BY <1>3
  <1> QED BY <1>1, <1>4 DEF ItemsEnd

(* The recursive function is there: there is one from each place to the end. *)
LEMMA ItemsIs ==
    ASSUME NEW text, EndsOnce(text)
    PROVE  \A i \in 1..Len(text), c \in Closers, s \in Names :
              Items(text)[i][c][s] = ItemsEnd(Items(text), text, i, c, s)
  <1> DEFINE n == Len(text)
             Parser(from, g) ==
                g = [i \in from..n |-> [c \in Closers |-> [s \in Names |-> ItemsEnd(g, text, i, c, s)]]]
             S == {m \in Nat : m <= n => \E g : Parser(n - m + 1, g)}
  <1>1. n \in Nat
    BY DEF EndsOnce
  <1>2. 0 \in S
    <2> DEFINE g == [i \in n+1..n |-> [c \in Closers |-> [s \in Names |-> {}]]]
    <2>1. Parser(n + 1, g)
      BY <1>1
    <2> QED BY <1>1, <2>1
  <1>3. ASSUME NEW m \in Nat, m \in S, m + 1 <= n
        PROVE  \E g : Parser(n - (m + 1) + 1, g)
    <2> DEFINE from == n - m
    <2>1. PICK g : Parser(from + 1, g)
      BY <1>1, <1>3
    <2>2. from \in 1..n /\ n - (m + 1) + 1 = from
      BY <1>1, <1>3
    <2> DEFINE h == [i \in from..n |-> [c \in Closers |-> [s \in Names |->
                        IF i = from THEN ItemsEnd(g, text, i, c, s) ELSE g[i][c][s]]]]
    <2> HIDE DEF from
    <2>3. \A i \in from+1..n, c \in Closers, s \in Names :
             g[i][c][s] = ItemsEnd(g, text, i, c, s)
      <3> SUFFICES ASSUME NEW i \in from+1..n, NEW c \in Closers, NEW s \in Names
                   PROVE  g[i][c][s] = ItemsEnd(g, text, i, c, s)
        OBVIOUS
      <3> DEFINE row(k) == [d \in Closers |-> [t \in Names |-> ItemsEnd(g, text, k, d, t)]]
      <3>1. g = [k \in from+1..n |-> row(k)]
        BY <2>1
      <3>2. row(i)[c][s] = ItemsEnd(g, text, i, c, s)
        OBVIOUS
      <3> HIDE DEF row
      <3>3. g[i] = row(i)
        BY <3>1
      <3> QED BY <3>2, <3>3
    <2>4. ASSUME NEW i \in from..n, NEW c \in Closers, NEW s \in Names
          PROVE  h[i][c][s] = ItemsEnd(h, text, i, c, s)
      <3>1. h[i][c][s] = IF i = from THEN ItemsEnd(g, text, i, c, s) ELSE g[i][c][s]
        OBVIOUS
      <3>2. Agree(g, h, text, i)
        <4>1. \A j \in i+1..n : j \in from..n /\ j # from
          BY <1>1, <2>2
        <4> QED BY <4>1 DEF Agree
      <3> HIDE DEF h
      <3>3. i \in 1..n
        BY <1>1, <2>2
      <3>4. ItemsEnd(g, text, i, c, s) = ItemsEnd(h, text, i, c, s)
        BY <3>2, <3>3, ItemsLocal
      <3>5. i # from => i \in from+1..n
        BY <1>1, <2>2
      <3> QED BY <2>3, <3>1, <3>4, <3>5
    <2>5. Parser(from, h)
      <3>1. h = [i \in from..n |-> [c \in Closers |-> [s \in Names |-> h[i][c][s]]]]
        OBVIOUS
      <3> HIDE DEF h
      <3> QED BY <2>4, <3>1
    <2> HIDE DEF h
    <2> QED BY <2>2, <2>5
  <1>4. n \in S
    <2>1. \A m \in Nat : m \in S => m + 1 \in S
      <3> HIDE DEF Parser
      <3> QED BY <1>3
    <2> HIDE DEF S
    <2> QED BY <1>1, <1>2, <2>1, Induction
  <1>5. \E g : Parser(1, g)
    BY <1>1, <1>4
  <1>6. Parser(1, Items(text))
    BY <1>5 DEF Items, Closers, Names
  <1> QED BY <1>6

-----------------------------------------------------------------------------
(***************************************************************************)
(* What is parsed balances.                                                *)
(***************************************************************************)

(* From place i up to place j, which is not of it, text is at no smaller   *)
(* depth than before, and after it at the same, in no string.              *)
Level(text, i, j) ==
    /\ i \in Nat \ {0} /\ j \in Nat /\ i <= j /\ j <= Len(text) + 1
    /\ After(text, j - 1) = Outside
    /\ Depth(text, j - 1) = Depth(text, i - 1)
    /\ \A k \in i..j-1 : Depth(text, k) >= Depth(text, i - 1)

(* Two that are level, one after the other. *)
LEMMA LevelJoin ==
    ASSUME NEW text \in Seq(Symbols), NEW i, NEW j, NEW k, Level(text, i, j), Level(text, j, k)
    PROVE  Level(text, i, k)
  <1>1. i \in Nat \ {0} /\ j \in Nat /\ k \in Nat /\ i <= j /\ j <= k /\ k <= Len(text) + 1
    BY DEF Level
  <1>2. After(text, k - 1) = Outside /\ Depth(text, k - 1) = Depth(text, i - 1)
    BY DEF Level
  <1>3. ASSUME NEW m \in i..k-1 PROVE Depth(text, m) >= Depth(text, i - 1)
    <2>1. m \in i..j-1 \/ m \in j..k-1
      BY <1>1
    <2> QED BY <2>1 DEF Level
  <1> QED BY <1>1, <1>2, <1>3 DEF Level

(* Nothing at all. *)
LEMMA LevelNothing ==
    ASSUME NEW text \in Seq(Symbols), NEW i \in 1..Len(text), After(text, i - 1) = Outside
    PROVE  Level(text, i, i)
  BY DEF Level

(* One symbol that is read outside of strings. *)
LEMMA OneSymbol ==
    ASSUME NEW text \in Seq(Symbols), NEW i \in 1..Len(text), After(text, i - 1) = Outside
    PROVE  /\ text[i] \notin Quotes => After(text, i) = Outside
           /\ text[i] \in Quotes => After(text, i).quote # "none"
           /\ Depth(text, i - 1) \in Int /\ Depth(text, i) \in Int
           /\ Depth(text, i) = Depth(text, i - 1) +
                 (IF text[i] \in Open THEN 1 ELSE IF text[i] \in Closing THEN -1 ELSE 0)
  <1>1. After(text, i) = Lex(Outside, text[i])
    BY AfterIs
  <1>2. i \in Bare(text)
    BY DEF Bare, Outside
  <1>3. Depth(text, i) = Depth(text, i - 1) + Delta(text, i)
    BY DepthIs
  <1>4. i \in 0..Len(text) /\ i - 1 \in 0..Len(text)
    OBVIOUS
  <1>5. Depth(text, i) \in Int /\ Depth(text, i - 1) \in Int
    BY <1>4, DepthIs
  <1>6. Lex(Outside, text[i]) = IF text[i] \in Quotes THEN [Outside EXCEPT !.quote = text[i]] ELSE Outside
    <2>1. Outside.quote = "none" /\ Outside.escaped = FALSE
      BY DEF Outside
    <2>2. text[i] \in Quotes => text[i] # "\\" /\ text[i] # "none"
      BY DEF Quotes
    <2>3. text[i] = "none" => [Outside EXCEPT !.quote = "none"] = Outside
      BY DEF Outside
    <2>4. CASE text[i] \in Quotes
      BY <2>1, <2>2, <2>4 DEF Lex
    <2>5. CASE text[i] \notin Quotes
      BY <2>1, <2>3, <2>5 DEF Lex
    <2> QED BY <2>4, <2>5
  <1>7. text[i] \notin Quotes => After(text, i) = Outside
    BY <1>1, <1>6
  <1>8. text[i] \in Quotes => After(text, i).quote # "none"
    BY <1>1, <1>6 DEF Outside, Quotes
  <1> QED BY <1>2, <1>3, <1>5, <1>7, <1>8 DEF Delta

(* A symbol that is neither a quote nor a delimiter. *)
LEMMA LevelOne ==
    ASSUME NEW text \in Seq(Symbols), NEW i \in 1..Len(text), After(text, i - 1) = Outside,
           text[i] \notin Quotes \cup Open \cup Closing
    PROVE  Level(text, i, i + 1)
  <1>1. After(text, i) = Outside /\ Depth(text, i) = Depth(text, i - 1) /\ Depth(text, i) \in Int
    BY OneSymbol
  <1>2. (i + 1) - 1 = i /\ i..i = {i}
    OBVIOUS
  <1> QED BY <1>1, <1>2 DEF Level

(* What is between delimiters. *)
LEMMA LevelNest ==
    ASSUME NEW text \in Seq(Symbols), NEW i \in 1..Len(text), After(text, i - 1) = Outside,
           text[i] \in Open, NEW j \in 1..Len(text), Level(text, i + 1, j), text[j] \in Closing
    PROVE  Level(text, i, j + 1)
  <1>1. text[i] \notin Quotes /\ text[j] \notin Quotes \cup Open
    BY DEF Quotes, Open, Closing
  <1>2. After(text, i) = Outside /\ Depth(text, i) = Depth(text, i - 1) + 1 /\ Depth(text, i - 1) \in Int
    BY <1>1, OneSymbol
  <1>3. /\ i + 1 <= j /\ After(text, j - 1) = Outside
        /\ Depth(text, j - 1) = Depth(text, i)
        /\ \A k \in i+1..j-1 : Depth(text, k) >= Depth(text, i)
    <2>1. (i + 1) - 1 = i
      OBVIOUS
    <2> QED BY <2>1 DEF Level
  <1>4. /\ After(text, j) = Outside /\ Depth(text, j) = Depth(text, j - 1) - 1
    <2>1. After(text, j) = Outside /\ Depth(text, j) = Depth(text, j - 1) + -1 /\ Depth(text, j - 1) \in Int
      BY <1>1, <1>3, OneSymbol
    <2> QED BY <2>1
  <1>5. Depth(text, j) = Depth(text, i - 1)
    BY <1>2, <1>3, <1>4
  <1>6. ASSUME NEW k \in i..j PROVE Depth(text, k) >= Depth(text, i - 1)
    <2>1. k \in i+1..j-1 \/ k = i \/ k = j
      OBVIOUS
    <2>2. k \in 0..Len(text)
      OBVIOUS
    <2>3. Depth(text, k) \in Int
      BY <2>2, DepthIs
    <2> QED BY <1>2, <1>3, <1>5, <2>1, <2>3
  <1>7. (j + 1) - 1 = j
    OBVIOUS
  <1> QED BY <1>3, <1>4, <1>5, <1>6, <1>7 DEF Level

(* A string. *)
LEMMA LevelString ==
    ASSUME NEW text \in Seq(Symbols), NEW i \in 1..Len(text), After(text, i - 1) = Outside,
           text[i] \in Quotes, NEW e \in StringEnd(text, i)
    PROVE  e > i /\ Level(text, i, e)
  <1> DEFINE closed == {j \in i+1..Len(text) : After(SubSeq(text, i, j), j - i + 1) = Outside}
             m == Min(closed)
  <1>0. Len(text) \in Nat
    OBVIOUS
  <1>1. closed # {} /\ e = m + 1
    BY DEF StringEnd
  <1>2. m \in closed /\ \A j \in closed : m <= j
    <2>1. closed \subseteq Nat
      OBVIOUS
    <2> HIDE DEF closed
    <2> QED BY <1>1, <2>1, MinIsLeast
  <1> HIDE DEF m
  <1>3. m \in i+1..Len(text)
    BY <1>2
  <1>4. ASSUME NEW j \in i+1..Len(text)
        PROVE  After(SubSeq(text, i, j), j - i + 1) = After(text, j)
    <2> DEFINE part == SubSeq(text, i, j)
               n == j - i + 1
    <2>0. i - 1 \in 0..Len(text) /\ j \in 0..Len(text) /\ i - 1 <= j /\ j - (i - 1) = n
          /\ (i - 1) + 1 = i
      OBVIOUS
    <2>1. part \in Seq(Symbols) /\ Len(part) = n /\ \A k \in 1..n : part[k] = text[(i - 1) + k]
      BY <2>0, SubSeqIs
    <2> HIDE DEF part
    <2>2. Part(text, part, i - 1, n) /\ n \in 0..n /\ (i - 1) + n = j
      BY <2>0, <2>1 DEF Part
    <2>3. After(part, n) = After(text, (i - 1) + n)
      BY <2>2, AfterPart
    <2> QED BY <2>2, <2>3 DEF part
  <1>5. After(text, m) = Outside
    BY <1>2, <1>3, <1>4
  <1>6. ASSUME NEW k \in i..m-1 PROVE After(text, k).quote # "none"
    <2>1. CASE k = i
      BY <2>1, OneSymbol
    <2>2. CASE k \in i+1..m-1
      <3>1. k \in i+1..Len(text) /\ ~(m <= k) /\ k \in 0..Len(text)
        BY <1>3, <2>2
      <3>2. k \notin closed
        BY <1>2, <3>1
      <3>3. After(text, k) # Outside
        BY <1>4, <3>1, <3>2
      <3>4. After(text, k) \in LexStates
        BY <3>1, AfterType
      <3> QED BY <3>3, <3>4, OutsideIs
    <2>3. k = i \/ k \in i+1..m-1
      BY <1>3
    <2> QED BY <2>1, <2>2, <2>3
  <1>7. ASSUME NEW k \in i..m PROVE Delta(text, k) = 0
    <2>1. CASE k = i
      BY <2>1 DEF Delta, Quotes, Open, Closing
    <2>2. CASE k # i
      <3>1. k - 1 \in i..m-1
        BY <1>3, <2>2
      <3>2. k \notin Bare(text)
        BY <1>6, <3>1 DEF Bare
      <3> QED BY <3>2 DEF Delta
    <2> QED BY <2>1, <2>2
  <1>8. \A k \in i..m : Depth(text, k) = Depth(text, i - 1)
    <2> DEFINE S == {n \in Nat : i - 1 + n <= m => Depth(text, i - 1 + n) = Depth(text, i - 1)}
    <2>1. 0 \in S
      OBVIOUS
    <2>2. ASSUME NEW n \in Nat, n \in S PROVE n + 1 \in S
      <3> SUFFICES ASSUME i - 1 + (n + 1) <= m
                   PROVE  Depth(text, i - 1 + (n + 1)) = Depth(text, i - 1)
        OBVIOUS
      <3>1. i + n \in 1..Len(text) /\ i + n \in i..m /\ (i + n) - 1 = i - 1 + n /\ i - 1 + (n + 1) = i + n
            /\ i - 1 + n <= m /\ i - 1 \in 0..Len(text)
        BY <1>3
      <3>2. Depth(text, i + n) = Depth(text, i - 1 + n) + Delta(text, i + n)
        BY <3>1, DepthIs
      <3>3. Depth(text, i - 1 + n) = Depth(text, i - 1)
        BY <2>2, <3>1
      <3>4. Depth(text, i - 1) \in Int
        BY <3>1, DepthIs
      <3> QED BY <1>7, <3>1, <3>2, <3>3, <3>4
    <2>3. Nat \subseteq S
      <3> HIDE DEF S
      <3> QED BY <2>1, <2>2, Induction
    <2> SUFFICES ASSUME NEW k \in i..m PROVE Depth(text, k) = Depth(text, i - 1)
      OBVIOUS
    <2>4. k - i + 1 \in Nat /\ i - 1 + (k - i + 1) = k /\ k <= m
      BY <1>3
    <2>5. k - i + 1 \in S
      BY <2>3, <2>4
    <2> QED BY <2>4, <2>5
  <1>9. Depth(text, i - 1) \in Int
    BY OneSymbol
  <1>10. /\ e \in Nat /\ i < e /\ e <= Len(text) + 1 /\ e - 1 = m /\ m \in i..m
    BY <1>0, <1>1, <1>3
  <1> QED BY <1>5, <1>8, <1>9, <1>10 DEF Level

(* What items parse from a place balances, up to what closes it. *)
Closed(items, text, i) ==
    After(text, i - 1) = Outside =>
        \A c \in Closers, s \in Names : \A j \in items[i][c][s] :
            j \in Nat /\ j - 1 \in i..Len(text) /\ text[j - 1] = c /\ Level(text, i, j - 1)

LaterClosed(items, text, i) == \A k \in i+1..Len(text) : Closed(items, text, k)

(* A value. *)
LEMMA ValueLevel ==
    ASSUME NEW text, EndsOnce(text), NEW i \in 1..Len(text), After(text, i - 1) = Outside,
           NEW items, LaterClosed(items, text, i), NEW e \in ValueEnd(items, text, i)
    PROVE  e > i /\ Level(text, i, e)
  <1>0. text \in Seq(Symbols) /\ Len(text) \in Nat
    BY DEF EndsOnce
  <1>1. CASE text[i] \in Quotes
    <2>1. ValueEnd(items, text, i) = StringEnd(text, i)
      BY <1>1 DEF ValueEnd, Quotes, Literals
    <2> QED BY <1>0, <1>1, <2>1, LevelString
  <1>2. /\ (i + 1) - 1 = i
        /\ \A k \in Nat : k - 1 \in i+1..Len(text) =>
              k - 1 \in 1..Len(text) /\ k > i /\ (k - 1) + 1 = k
    BY <1>0
  <1>3. ASSUME NEW c \in {"}", "]"}, text[i] \in Open, e \in items[i + 1][c][{}]
        PROVE  e > i /\ Level(text, i, e)
    <2>1. text[i] # End
      BY <1>3 DEF Open, End
    <2>2. i + 1 \in i+1..Len(text) /\ (i + 1) - 1 = i
      <3>1. i + 1 \in i+1..Len(text)
        BY <2>1, NotLast
      <3> QED BY <1>2, <3>1
    <2>3. text[i] \notin Quotes
      BY <1>3 DEF Open, Quotes
    <2>4. After(text, (i + 1) - 1) = Outside
      BY <1>0, <2>2, <2>3, OneSymbol
    <2>5. c \in Closers /\ {} \in Names
      BY DEF Closers, Names
    <2>6. Closed(items, text, i + 1)
      BY <2>2 DEF LaterClosed
    <2>7. e \in Nat /\ e - 1 \in i+1..Len(text) /\ text[e - 1] = c /\ Level(text, i + 1, e - 1)
      BY <1>3, <2>4, <2>5, <2>6 DEF Closed
    <2>8. e \in Nat /\ e - 1 \in i+1..Len(text)
      BY <2>7
    <2>9. e - 1 \in 1..Len(text) /\ e > i /\ (e - 1) + 1 = e
      BY <1>2, <2>8
    <2>10. text[e - 1] \in Closing
      BY <2>7 DEF Closing
    <2>11. Level(text, i, (e - 1) + 1)
      BY <1>0, <1>3, <2>7, <2>9, <2>10, LevelNest
    <2> QED BY <2>9, <2>11
  <1>4. CASE text[i] = "{"
    <2>1. ValueEnd(items, text, i) = items[i + 1]["}"][{}]
      BY <1>4 DEF ValueEnd, Quotes, Literals
    <2> QED BY <1>3, <1>4, <2>1 DEF Open
  <1>5. CASE text[i] = "["
    <2>1. ValueEnd(items, text, i) = items[i + 1]["]"][{}]
      BY <1>5 DEF ValueEnd, Quotes, Literals
    <2> QED BY <1>3, <1>5, <2>1 DEF Open
  <1>6. CASE text[i] \in Literals
    <2>1. ValueEnd(items, text, i) = {i + 1}
      BY <1>6 DEF ValueEnd, Quotes, Literals
    <2>2. text[i] \notin Quotes \cup Open \cup Closing
      BY <1>6 DEF Quotes, Literals, Open, Closing
    <2> QED BY <1>0, <2>1, <2>2, LevelOne
  <1>7. CASE text[i] \notin Quotes \cup {"{", "["} \cup Literals
    <2>1. ValueEnd(items, text, i) = {}
      BY <1>7 DEF ValueEnd
    <2> QED BY <2>1
  <1> QED BY <1>1, <1>4, <1>5, <1>6, <1>7

(* A value of a list, or a field. *)
LEMMA ItemLevel ==
    ASSUME NEW text, EndsOnce(text), NEW i \in 1..Len(text), After(text, i - 1) = Outside,
           NEW items, LaterClosed(items, text, i), NEW c \in Closers, NEW s \in Names,
           NEW e \in ItemEnd(items, text, i, c, s)
    PROVE  e > i /\ Level(text, i, e)
  <1>0. text \in Seq(Symbols) /\ Len(text) \in Nat
    BY DEF EndsOnce
  <1>1. CASE c = "]"
    BY <1>1, ValueLevel DEF ItemEnd
  <1>2. CASE c # "]"
    <2>1. text[i] \in Identifiers /\ text[i + 1] = "=" /\ e \in ValueEnd(items, text, i + 2)
      BY <1>2 DEF ItemEnd
    <2>2. /\ text[i] # End /\ text[i + 1] # End
          /\ text[i] \notin Quotes \cup Open \cup Closing
          /\ text[i + 1] \notin Quotes \cup Open \cup Closing
      BY <2>1 DEF Identifiers, End, Quotes, Open, Closing
    <2>3. i + 1 \in 1..Len(text) /\ (i + 1) - 1 = i
      BY <2>2, NotLast
    <2>4. i + 2 \in 1..Len(text) /\ (i + 1) + 1 = i + 2 /\ (i + 2) - 1 = i + 1
      <3>1. (i + 1) + 1 \in 1..Len(text)
        BY <2>2, <2>3, NotLast
      <3> QED BY <3>1
    <2>5. Level(text, i, i + 1)
      BY <1>0, <2>2, LevelOne
    <2>6. After(text, (i + 1) - 1) = Outside
      BY <2>5 DEF Level
    <2>7. Level(text, i + 1, i + 2)
      BY <1>0, <2>2, <2>3, <2>4, <2>6, LevelOne
    <2>8. After(text, (i + 2) - 1) = Outside
      BY <2>7 DEF Level
    <2>9. LaterClosed(items, text, i + 2)
      BY <1>0 DEF LaterClosed
    <2>10. e > i + 2 /\ Level(text, i + 2, e)
      BY <2>1, <2>4, <2>8, <2>9, ValueLevel
    <2>11. Level(text, i, i + 2)
      BY <1>0, <2>5, <2>7, LevelJoin
    <2>12. Level(text, i, e)
      BY <1>0, <2>10, <2>11, LevelJoin
    <2>13. e \in Nat
      BY <2>12 DEF Level
    <2> QED BY <2>10, <2>12, <2>13
  <1> QED BY <1>1, <1>2

(* Items, if all that are parsed later do. *)
LEMMA ItemsStep ==
    ASSUME NEW text, EndsOnce(text), NEW i \in 1..Len(text), LaterClosed(Items(text), text, i)
    PROVE  Closed(Items(text), text, i)
  <1> SUFFICES ASSUME After(text, i - 1) = Outside, NEW c \in Closers, NEW s \in Names,
                      NEW j \in Items(text)[i][c][s]
               PROVE  j \in Nat /\ j - 1 \in i..Len(text) /\ text[j - 1] = c /\ Level(text, i, j - 1)
    BY DEF Closed
  <1> DEFINE items == Items(text)
             now == IF c = End THEN s \cup {text[i]} ELSE s
             places == ItemEnd(items, text, i, c, s) \cap i+1..Len(text)
             rest(m) == CASE text[m] = c -> {m + 1}
                          [] text[m] = "," -> items[m + 1][c][now]
                          [] OTHER -> {}
  <1>0. text \in Seq(Symbols) /\ Len(text) \in Nat
    BY DEF EndsOnce
  <1>1. j \in ItemsEnd(items, text, i, c, s)
    BY ItemsIs
  <1> HIDE DEF items
  <1>2. CASE text[i] = c
    <2>1. j = i + 1
      BY <1>1, <1>2 DEF ItemsEnd
    <2>2. j - 1 = i /\ j \in Nat
      BY <2>1
    <2>3. Level(text, i, i)
      BY <1>0, LevelNothing
    <2> QED BY <1>0, <1>2, <2>2, <2>3
  <1>3. CASE text[i] # c
    <2>1. PICK m \in places : j \in rest(m)
      <3>1. j \in UNION {rest(m) : m \in places}
        BY <1>1, <1>3 DEF ItemsEnd
      <3> HIDE DEF rest, places
      <3> QED BY <3>1
    <2>2. Level(text, i, m) /\ m \in 1..Len(text) /\ m > i
      <3>1. LaterClosed(items, text, i) /\ m \in ItemEnd(items, text, i, c, s) /\ m \in i+1..Len(text)
        BY <2>1 DEF items
      <3>2. Level(text, i, m)
        BY <3>1, ItemLevel
      <3> QED BY <1>0, <3>1, <3>2
    <2>3. CASE text[m] = c
      <3>0. text[m] # ","
        BY <2>3 DEF Closers, End
      <3>1. j = m + 1
        BY <2>1, <2>3, <3>0
      <3>2. j - 1 = m /\ j \in Nat
        BY <2>2, <3>1
      <3> QED BY <1>0, <2>2, <2>3, <3>2
    <2>4. CASE text[m] # c /\ text[m] = ","
      <3>1. j \in items[m + 1][c][now]
        BY <2>1, <2>4
      <3>2. text[m] # End /\ text[m] \notin Quotes \cup Open \cup Closing
        BY <2>4 DEF End, Quotes, Open, Closing
      <3>3. m + 1 \in 1..Len(text) /\ m + 1 \in i+1..Len(text)
        BY <2>2, <3>2, NotLast
      <3>4. Level(text, m, m + 1)
        <4>1. After(text, m - 1) = Outside
          BY <2>2 DEF Level
        <4> QED BY <1>0, <2>2, <3>2, <4>1, LevelOne
      <3>5. Level(text, i, m + 1)
        BY <1>0, <2>2, <3>4, LevelJoin
      <3>6. After(text, (m + 1) - 1) = Outside
        BY <3>4 DEF Level
      <3>7. now \in Names
        <4>1. c = End => text[i] \in Identifiers
          BY <2>1 DEF ItemEnd, End
        <4> QED BY <4>1 DEF Names
      <3> HIDE DEF now
      <3>8. j \in Nat /\ j - 1 \in m+1..Len(text) /\ text[j - 1] = c /\ Level(text, m + 1, j - 1)
        <4>1. Closed(items, text, m + 1)
          BY <3>3 DEF LaterClosed, items
        <4> QED BY <3>1, <3>6, <3>7, <4>1 DEF Closed
      <3>9. Level(text, i, j - 1)
        BY <1>0, <3>5, <3>8, LevelJoin
      <3>10. j - 1 \in i..Len(text)
        BY <2>2, <3>8
      <3> QED BY <3>8, <3>9, <3>10
    <2>5. CASE text[m] # c /\ text[m] # ","
      <3>1. rest(m) = {}
        BY <2>5
      <3> QED BY <2>1, <3>1
    <2> QED BY <2>3, <2>4, <2>5
  <1> QED BY <1>2, <1>3

(* All items, from the end of the text to its beginning. *)
LEMMA ItemsClosed ==
    ASSUME NEW text, EndsOnce(text)
    PROVE  \A i \in 1..Len(text) : Closed(Items(text), text, i)
  <1> DEFINE n == Len(text)
             P(i) == Closed(Items(text), text, i)
             S == {m \in Nat : \A i \in 1..n : i > n - m => P(i)}
  <1>0. n \in Nat
    BY DEF EndsOnce
  <1>1. 0 \in S
    BY <1>0
  <1>2. ASSUME NEW m \in Nat, m \in S PROVE m + 1 \in S
    <2> SUFFICES ASSUME NEW i \in 1..n, i > n - (m + 1) PROVE P(i)
      OBVIOUS
    <2>1. \A k \in i+1..n : k \in 1..n /\ k > n - m
      BY <1>0
    <2>2. LaterClosed(Items(text), text, i)
      BY <1>2, <2>1 DEF LaterClosed
    <2> QED BY <2>2, ItemsStep
  <1>3. n \in S
    <2> HIDE DEF S
    <2> QED BY <1>0, <1>1, <1>2, Induction
  <1>4. \A i \in 1..n : i > n - n
    BY <1>0
  <1> HIDE DEF P
  <1>5. \A i \in 1..n : P(i)
    BY <1>3, <1>4
  <1> QED BY <1>5 DEF P

(* An operation has no depth at its ends, and has one within.              *)
THEOREM OperationBalances ==
    ASSUME NEW p \in Seq(Symbols), End \notin {p[k] : k \in DOMAIN p}, IsOperation(p)
    PROVE  /\ Len(p) >= 3
           /\ After(p, Len(p)) = Outside /\ Depth(p, Len(p)) = 0
           /\ \A k \in 2..Len(p)-1 : Depth(p, k) >= 1
  <1> DEFINE n == Len(p)
             inner == SubSeq(p, 3, n - 1)
             text == inner \o <<End>>
  <1>1. /\ n \in Nat /\ n >= 3 /\ p[1] = Name /\ p[2] = "(" /\ p[n] = ")"
        /\ Items(text)[1][End][{}] # {}
    BY DEF IsOperation
  <1>2. inner \in Seq(Symbols) /\ Len(inner) = n - 3 /\ \A k \in 1..n-3 : inner[k] = p[2 + k]
    <2>1. 2 \in 0..n /\ n - 1 \in 0..n /\ 2 <= n - 1 /\ 2 + 1 = 3 /\ (n - 1) - 2 = n - 3
      BY <1>1
    <2> QED BY <2>1, SubSeqIs
  <1> HIDE DEF inner
  <1>3. /\ text \in Seq(Symbols) /\ Len(text) = n - 2 /\ text[n - 2] = End
        /\ \A k \in 1..n-3 : text[k] = inner[k]
    <2>1. <<End>> \in Seq(Symbols) /\ Len(<<End>>) = 1 /\ <<End>>[1] = End
      BY DEF Symbols
    <2>2. /\ text \in Seq(Symbols) /\ Len(text) = (n - 3) + 1
          /\ \A k \in 1..(n - 3) + 1 : text[k] = IF k <= n - 3 THEN inner[k] ELSE <<End>>[k - (n - 3)]
      BY <1>2, <2>1, ConcatProperties
    <2>3. n - 2 \in 1..(n - 3) + 1 /\ ~(n - 2 <= n - 3) /\ (n - 2) - (n - 3) = 1 /\ (n - 3) + 1 = n - 2
      BY <1>1
    <2>4. \A k \in 1..n-3 : k \in 1..(n - 3) + 1 /\ k <= n - 3
      BY <1>1
    <2> HIDE DEF n, text
    <2> QED BY <2>1, <2>2, <2>3, <2>4
  <1> HIDE DEF text
  <1>4. \A k \in 1..n-3 : text[k] # End
    <2>1. ASSUME NEW k \in 1..n-3 PROVE text[k] # End
      <3>1. 2 + k \in DOMAIN p
        BY <1>1
      <3>2. p[2 + k] # End
        BY <3>1
      <3> QED BY <1>2, <1>3, <3>2
    <2> QED BY <2>1
  <1>5. EndsOnce(text)
    <2>1. \A k \in 1..n-2 : k \in 1..n-3 \/ k = n - 2
      BY <1>1
    <2>2. \A k \in 1..n-3 : k # n - 2
      BY <1>1
    <2>3. n - 2 >= 1
      BY <1>1
    <2> QED BY <1>3, <1>4, <2>1, <2>2, <2>3 DEF EndsOnce
  <1>6. Part(p, text, 2, n - 3)
    <2>1. \A k \in 1..n-3 : text[k] = p[2 + k]
      BY <1>2, <1>3
    <2>2. 2 \in 0..n /\ n - 3 \in 0..n-2 /\ 2 + (n - 3) <= n
      BY <1>1
    <2> QED BY <1>3, <2>1, <2>2 DEF Part
  <1>7. After(p, 2) = Outside /\ Depth(p, 2) = 1
    <2>1. After(p, 0) = Outside /\ Depth(p, 0) = 0
      BY AfterIs, DepthIs
    <2>2. p[1] \notin Quotes \cup Open \cup Closing
      BY <1>1 DEF Name, Quotes, Open, Closing
    <2>3. 1 \in 1..n /\ 2 \in 1..n /\ 1 - 1 = 0 /\ 2 - 1 = 1
      BY <1>1
    <2>4. After(p, 1) = Outside /\ Depth(p, 1) = 0
      BY <2>1, <2>2, <2>3, OneSymbol
    <2>5. p[2] \notin Quotes /\ p[2] \in Open
      BY <1>1 DEF Quotes, Open
    <2> QED BY <2>3, <2>4, <2>5, OneSymbol
  <1>8. PICK j : j \in Items(text)[1][End][{}]
    BY <1>1
  <1>9. Level(text, 1, n - 2)
    <2>1. End \in Closers /\ {} \in Names /\ 1 \in 1..Len(text)
      BY <1>1, <1>3 DEF Closers, Names
    <2>2. After(text, 1 - 1) = Outside
      BY <1>1, <1>3, AfterIs
    <2>3. j - 1 \in 1..Len(text) /\ text[j - 1] = End /\ Level(text, 1, j - 1)
      BY <1>5, <1>8, <2>1, <2>2, ItemsClosed DEF Closed
    <2>4. j - 1 = n - 2
      BY <1>3, <1>5, <2>3 DEF EndsOnce
    <2> QED BY <2>3, <2>4
  <1>10. /\ After(text, n - 3) = Outside /\ Depth(text, n - 3) = 0
         /\ \A k \in 1..n-3 : Depth(text, k) >= 0
    <2>1. 1 - 1 = 0 /\ (n - 2) - 1 = n - 3
      BY <1>1
    <2>2. Depth(text, 0) = 0
      BY <1>3, DepthIs
    <2> QED BY <1>9, <2>1, <2>2 DEF Level
  <1>11. \A k \in 0..n-3 : Depth(p, 2 + k) = Depth(text, k) + 1
    <2> SUFFICES ASSUME NEW k \in 0..n-3 PROVE Depth(p, 2 + k) = Depth(text, k) + 1
      OBVIOUS
    <2>1. Depth(text, k) = Depth(p, 2 + k) - Depth(p, 2)
      BY <1>6, <1>7, DepthPart
    <2>2. 2 + k \in 0..n
      BY <1>1
    <2>3. Depth(p, 2 + k) \in Int
      BY <2>2, DepthIs
    <2> QED BY <1>7, <2>1, <2>3
  <1>12. ASSUME NEW k \in 2..n-1 PROVE Depth(p, k) >= 1
    <2>1. k - 2 \in 0..n-3 /\ 2 + (k - 2) = k
      BY <1>1
    <2>2. Depth(text, k - 2) \in Int /\ Depth(text, k - 2) >= 0
      <3>1. k - 2 = 0 \/ k - 2 \in 1..n-3
        BY <2>1
      <3>2. k - 2 \in 0..Len(text)
        BY <1>1, <1>3, <2>1
      <3> QED BY <1>3, <1>10, <3>1, <3>2, DepthIs
    <2> QED BY <1>11, <2>1, <2>2
  <1>13. After(p, n - 1) = Outside /\ Depth(p, n - 1) = 1
    <2>1. n - 3 \in 0..n-3 /\ 2 + (n - 3) = n - 1
      BY <1>1
    <2>2. After(text, n - 3) = After(p, n - 1)
      BY <1>6, <1>7, <2>1, AfterPart
    <2> QED BY <1>10, <1>11, <2>1, <2>2
  <1>14. After(p, n) = Outside /\ Depth(p, n) = 0
    <2>1. p[n] \notin Quotes \cup Open /\ p[n] \in Closing /\ n \in 1..n
      BY <1>1 DEF Quotes, Open, Closing
    <2>2. Depth(p, n) = Depth(p, n - 1) + -1
      BY <1>13, <2>1, OneSymbol
    <2> QED BY <1>13, <2>1, <2>2, OneSymbol
  <1> QED BY <1>1, <1>12, <1>14

-----------------------------------------------------------------------------
(***************************************************************************)
(* The inductive invariant.                                                *)
(***************************************************************************)
Types ==
    /\ program \in Programs
    /\ \E n \in Nat : comments \in [1..n -> Comments] /\ ends \in Breaks(program, n)
    /\ read \in 0..Len(comments)
    /\ buffer \in Seq(Symbols)
    /\ start \in Nat
    /\ operations \in Seq([code : Seq(Symbols), line : Nat])
    /\ outcome \in {"reading", "done", "refused"}

(* No comment is begun in a string. *)
Clean == \A k \in DOMAIN comments : InString(ends[k]) => comments[k] = <<>>

(* What has been read is the beginning of the program: the operations, in  *)
(* pieces that balance, and the statement so far.                          *)
Pieces(cut) ==
    LET last == cut[Len(operations)]
    IN  /\ CutAt(cut)
        /\ \A k \in DOMAIN operations : cut[k-1] < cut[k] /\ Depth(program, cut[k]) = 0
        /\ last <= ends[read]
        /\ buffer = SubSeq(program, last + 1, ends[read])
        /\ buffer # <<>> =>
              start \in 1..read /\ ends[start - 1] <= last /\ last < ends[start]

ReadSoFar ==
    /\ \E cut \in [0..Len(operations) -> 0..Len(program)] : Pieces(cut)
    /\ After(program, ends[read]) = Outside
    /\ depth = Depth(program, ends[read])
    /\ buffer # <<>> => depth > 0
    /\ \A k \in DOMAIN operations : IsOperation(operations[k].code)

(* The reason of a refusal. *)
BadLine      == read < Len(Lines) /\ ~Fits
BadStatement ==
    /\ read < Len(Lines) /\ (Line # <<>> \/ buffer # <<>>)
    /\ Fits /\ NewDepth = 0 /\ ~IsOperation(Statement)
Unclosed     == read = Len(Lines) /\ buffer # <<>>

Ended ==
    /\ outcome = "done" => read = Len(Lines) /\ buffer = <<>>
    /\ outcome = "refused" => BadLine \/ BadStatement \/ Unclosed

IInv == Types /\ (Clean => ReadSoFar) /\ Ended

-----------------------------------------------------------------------------
(***************************************************************************)
(* A line.                                                                 *)
(***************************************************************************)
(* What the types say. *)
LEMMA Texts ==
    ASSUME Types
    PROVE  /\ program \in Seq(Symbols) /\ Len(program) \in Nat
           /\ Len(comments) \in Nat /\ DOMAIN comments = 1..Len(comments)
           /\ Len(Lines) = Len(comments) /\ DOMAIN Lines = 1..Len(comments)
           /\ \A k \in 1..Len(comments) :
                 comments[k] \in Seq(Symbols) /\ (comments[k] # <<>> => comments[k][1] = "#")
           /\ ends[0] = 0 /\ ends[Len(comments)] = Len(program)
           /\ \A k \in 0..Len(comments) : ends[k] \in 0..Len(program)
           /\ \A k \in 1..Len(comments) : ends[k-1] <= ends[k]
           /\ read \in Nat /\ read <= Len(comments) /\ buffer \in Seq(Symbols)
  <1>1. program \in Seq(Symbols) /\ Len(program) \in Nat
    BY ProgramsAssumption, StringsAre DEF Types
  <1>2. PICK n \in Nat : comments \in [1..n -> Comments] /\ ends \in Breaks(program, n)
    BY DEF Types
  <1>3. comments \in Seq(Comments) /\ Len(comments) = n /\ DOMAIN comments = 1..n
    BY <1>2, SeqDef
  <1>4. Len(Lines) = n /\ DOMAIN Lines = 1..n
    <2> DEFINE texts == {Code(k) \o comments[k] : k \in 1..n}
    <2>1. Lines \in [1..n -> texts]
      BY <1>3 DEF Lines
    <2> HIDE DEF texts
    <2>2. Lines \in Seq(texts)
      BY <2>1, SeqDef
    <2> QED BY <2>1, <2>2
  <1>5. \A k \in 1..n :
           comments[k] \in Seq(Symbols) /\ (comments[k] # <<>> => comments[k][1] = "#")
    BY <1>2, CommentsAssumption, StringsAre
  <1> QED BY <1>1, <1>2, <1>3, <1>4, <1>5 DEF Breaks, Types

(* A line is a text, whatever its comment begins in. *)
LEMMA LineType ==
    ASSUME Types, read < Len(Lines)
    PROVE  Line \in Seq(Symbols) /\ Statement \in Seq(Symbols)
  <1> DEFINE code == Code(read + 1)
             line == code \o comments[read + 1]
             hashes == {k \in Bare(line) : line[k] = "#"}
  <1>1. /\ read + 1 \in 1..Len(comments) /\ (read + 1) - 1 = read /\ read \in 0..Len(comments)
        /\ read + 1 \in 0..Len(comments)
    BY Texts
  <1>2. code \in Seq(Symbols)
    <2>1. ends[read] \in 0..Len(program) /\ ends[read + 1] \in 0..Len(program) /\ ends[read] <= ends[read + 1]
      BY <1>1, Texts
    <2> QED BY <1>1, <2>1, SubSeqIs, Texts DEF Code
  <1>3. line \in Seq(Symbols) /\ Len(line) \in Nat /\ DOMAIN line = 1..Len(line)
    <2> HIDE DEF code
    <2> QED BY <1>1, <1>2, Texts, ConcatProperties
  <1>4. Line = StripComment(line)
    BY <1>1, Texts DEF Line, Lines
  <1> HIDE DEF line
  <1>5. hashes # {} => Min(hashes) \in 1..Len(line)
    <2>1. hashes \subseteq 1..Len(line)
      BY <1>3 DEF Bare
    <2> HIDE DEF hashes
    <2>2. hashes \subseteq Nat
      BY <1>3, <2>1
    <2> QED BY <2>1, <2>2, MinIsLeast
  <1>6. StripComment(line) \in Seq(Symbols)
    <2>1. CASE hashes = {}
      BY <1>3, <2>1 DEF StripComment
    <2>2. CASE hashes # {}
      <3>1. StripComment(line) = SubSeq(line, 1, Min(hashes) - 1)
        BY <2>2 DEF StripComment
      <3>2. Min(hashes) \in 1..Len(line)
        BY <1>5, <2>2
      <3> HIDE DEF hashes
      <3>3. Min(hashes) - 1 \in 0..Len(line) /\ 0 \in 0..Len(line) /\ 0 <= Min(hashes) - 1
        BY <1>3, <3>2
      <3>4. SubSeq(line, 0 + 1, Min(hashes) - 1) \in Seq(Symbols)
        BY <1>3, <3>3, SubSeqIs
      <3> QED BY <3>1, <3>4
    <2> QED BY <2>1, <2>2
  <1>7. Line \in Seq(Symbols)
    BY <1>4, <1>6
  <1> QED BY <1>7, Texts, ConcatProperties DEF Statement

(* The next line is what is written on it, without its comment. *)
LEMMA NextLine ==
    ASSUME Types, Clean, After(program, ends[read]) = Outside, read < Len(Lines)
    PROVE  /\ read + 1 \in 1..Len(comments) /\ ends[read] <= ends[read + 1]
           /\ Line = SubSeq(program, ends[read] + 1, ends[read + 1])
           /\ Line \in Seq(Symbols)
           /\ Len(Line) = ends[read + 1] - ends[read]
           /\ Part(program, Line, ends[read], Len(Line))
  <1> DEFINE code == SubSeq(program, ends[read] + 1, ends[read + 1])
             n == ends[read + 1] - ends[read]
  <1>1. /\ read + 1 \in 1..Len(comments) /\ (read + 1) - 1 = read /\ read \in 0..Len(comments)
        /\ read + 1 \in 0..Len(comments)
    BY Texts
  <1>2. /\ ends[read] \in 0..Len(program) /\ ends[read + 1] \in 0..Len(program)
        /\ ends[read] <= ends[read + 1]
    BY <1>1, Texts
  <1>3. code \in Seq(Symbols) /\ Len(code) = n /\ \A k \in 1..n : code[k] = program[ends[read] + k]
    BY <1>2, SubSeqIs, Texts
  <1> HIDE DEF code
  <1>4. Part(program, code, ends[read], n) /\ n \in 0..n
    BY <1>2, <1>3, Texts DEF Part
  <1>5. \A k \in 0..n : After(code, k) = After(program, ends[read] + k)
    BY <1>4, AfterPart
  <1>6. After(code, Len(code)) = After(program, ends[read + 1])
    BY <1>2, <1>3, <1>4, <1>5
  <1>7. comments[read + 1] # <<>> => After(code, Len(code)).quote = "none"
    BY <1>1, <1>6, Texts DEF Clean, InString
  <1>8. ASSUME NEW k \in DOMAIN code, code[k] = "#" PROVE After(code, k - 1).quote # "none"
    <2>1. k \in 1..n /\ k - 1 \in 0..n /\ ends[read] + (k - 1) = (ends[read] + k) - 1
          /\ ends[read] + k \in DOMAIN program
      <3>1. DOMAIN code = 1..n /\ DOMAIN program = 1..Len(program) /\ Len(program) \in Nat
        BY <1>3, Texts
      <3>2. k \in 1..n
        BY <1>8, <3>1
      <3> QED BY <1>2, <3>1, <3>2
    <2>2. program[ends[read] + k] = "#"
      BY <1>3, <1>8, <2>1
    <2>3. After(program, (ends[read] + k) - 1).quote # "none"
      BY <2>1, <2>2, ProgramsAssumption DEF Types
    <2> QED BY <1>5, <2>1, <2>3
  <1>9. Line = code
    <2>1. Lines[read + 1] = code \o comments[read + 1]
      BY <1>1, Texts DEF Lines, Code, code
    <2>2. comments[read + 1] \in Seq(Symbols) /\ (comments[read + 1] # <<>> => comments[read + 1][1] = "#")
      BY <1>1, Texts
    <2>3. StripComment(code \o comments[read + 1]) = code
      BY <1>3, <1>7, <1>8, <2>2, CommentIsStripped
    <2> QED BY <2>1, <2>3 DEF Line
  <1> QED BY <1>1, <1>2, <1>3, <1>4, <1>9 DEF code

(* A line that has no open string ends outside of strings. *)
LEMMA LineEnds ==
    ASSUME Types, Clean, After(program, ends[read]) = Outside, read < Len(Lines)
    PROVE  /\ Unterminated(Line) <=> InString(ends[read + 1])
           /\ ~Unterminated(Line) => After(program, ends[read + 1]) = Outside
           /\ DepthDelta(Line) = Depth(program, ends[read + 1]) - Depth(program, ends[read])
  <1>1. /\ Part(program, Line, ends[read], Len(Line)) /\ Len(Line) = ends[read + 1] - ends[read]
        /\ Line \in Seq(Symbols) /\ Len(Line) \in 0..Len(Line)
        /\ read \in 0..Len(comments) /\ read + 1 \in 0..Len(comments)
    BY NextLine, Texts
  <1>2. ends[read] \in 0..Len(program) /\ ends[read + 1] \in 0..Len(program)
    BY <1>1, Texts
  <1>3. ends[read] + Len(Line) = ends[read + 1]
    BY <1>1, <1>2
  <1>4. After(Line, Len(Line)) = After(program, ends[read + 1])
    BY <1>1, <1>3, AfterPart
  <1>5. Depth(Line, Len(Line)) = Depth(program, ends[read + 1]) - Depth(program, ends[read])
    BY <1>1, <1>3, DepthPart
  <1>6. After(program, ends[read + 1]) \in LexStates
    BY <1>2, Texts, AfterType
  <1> QED BY <1>4, <1>5, <1>6, OutsideIs DEF Unterminated, InString, DepthDelta

-----------------------------------------------------------------------------
(***************************************************************************)
(* The steps.                                                              *)
(***************************************************************************)
(* Nothing has been read. *)
LEMMA InitIsInvariant == Init => IInv
  <1> SUFFICES ASSUME Init PROVE IInv
    OBVIOUS
  <1>1. PICK n \in 1..MaxLines : comments \in [1..n -> Comments] /\ ends \in Breaks(program, n)
    BY DEF Init
  <1>2. n \in Nat
    BY CommentsAssumption
  <1>3. Types
    <2>1. Len(comments) \in Nat
      BY <1>1, <1>2, SeqDef
    <2> QED BY <1>1, <1>2, <2>1 DEF Init, Types
  <1>4. ends[0] = 0 /\ program \in Seq(Symbols) /\ Len(program) \in Nat
    BY <1>3, Texts
  <1>5. ReadSoFar
    <2>1. Len(operations) = 0 /\ DOMAIN operations = {} /\ read = 0 /\ buffer = <<>>
      BY DEF Init
    <2> DEFINE cut == [k \in 0..Len(operations) |-> 0]
    <2>2. cut \in [0..Len(operations) -> 0..Len(program)] /\ cut[0] = 0
      BY <1>4, <2>1
    <2>3. SubSeq(program, 1, 0) = <<>>
      BY <1>4
    <2>4. Pieces(cut)
      <3> HIDE DEF cut
      <3> QED BY <1>4, <2>1, <2>2, <2>3 DEF Pieces, CutAt
    <2>5. After(program, 0) = Outside /\ Depth(program, 0) = 0
      BY <1>4, AfterIs, DepthIs
    <2>6. depth = 0
      BY DEF Init
    <2> HIDE DEF cut
    <2> QED BY <1>4, <2>1, <2>2, <2>4, <2>5, <2>6 DEF ReadSoFar
  <1> QED BY <1>3, <1>5 DEF Init, IInv, Ended

(* What is written stays. *)
LEMMA WrittenStays ==
    ASSUME UNCHANGED written
    PROVE  /\ program' = program /\ comments' = comments /\ ends' = ends
           /\ Clean' <=> Clean
           /\ Len(Lines)' = Len(Lines)
           /\ Lines' = Lines
  BY DEF written, Clean, InString, Lines, Code

(* The types, if what changes keeps to them. *)
LEMMA TypesStay ==
    ASSUME Types, UNCHANGED written, read' \in 0..Len(comments), buffer' \in Seq(Symbols),
           start' \in Nat,
           operations' \in Seq([code : Seq(Symbols), line : Nat]),
           outcome' \in {"reading", "done", "refused"}
    PROVE  Types'
  BY DEF Types, written

(* All but the outcome is the same. *)
LEMMA RestStays ==
    ASSUME UNCHANGED <<written, read, buffer, start, depth, operations>>, Types, Clean => ReadSoFar,
           outcome' \in {"reading", "done", "refused"}
    PROVE  /\ Types' /\ (Clean => ReadSoFar)'
           /\ BadLine' <=> BadLine
           /\ BadStatement' <=> BadStatement
           /\ Unclosed' <=> Unclosed
           /\ Len(Lines)' = Len(Lines)
  <1>1. Types'
    <2>1. read \in 0..Len(comments) /\ buffer \in Seq(Symbols) /\ start \in Nat /\ operations \in Seq([code : Seq(Symbols), line : Nat])
      BY DEF Types
    <2> QED BY <2>1, TypesStay
  <1>2. /\ program' = program /\ comments' = comments /\ ends' = ends /\ (Clean' <=> Clean)
        /\ Lines' = Lines /\ Len(Lines)' = Len(Lines)
    BY WrittenStays
  <1>3. ReadSoFar' <=> ReadSoFar
    BY <1>2 DEF ReadSoFar, Pieces, CutAt
  <1>4. Line' = Line /\ Statement' = Statement /\ NewDepth' = NewDepth /\ (Fits' <=> Fits)
    BY <1>2 DEF Line, Statement, NewDepth, Fits
  <1>5. read' = read /\ buffer' = buffer
    OBVIOUS
  <1>6. BadLine' <=> BadLine
    BY <1>2, <1>4, <1>5 DEF BadLine
  <1>7. BadStatement' <=> BadStatement
    BY <1>2, <1>4, <1>5 DEF BadStatement
  <1>8. Unclosed' <=> Unclosed
    BY <1>2, <1>5 DEF Unclosed
  <1>9. (Clean => ReadSoFar)'
    BY <1>2, <1>3
  <1> QED BY <1>1, <1>2, <1>6, <1>7, <1>8, <1>9

(* A blank line adds nothing to the program. *)
LEMMA SkipLineKeeps ==
    ASSUME IInv, SkipLine
    PROVE  IInv'
  <1>0. Types /\ (Clean => ReadSoFar) /\ outcome = "reading" /\ read < Len(Lines)
    BY DEF IInv, SkipLine, Reading
  <1>1. /\ UNCHANGED written /\ buffer' = buffer /\ start' = start /\ depth' = depth
        /\ operations' = operations /\ outcome' = outcome /\ read' = read + 1
        /\ Line = <<>> /\ buffer = <<>>
    BY DEF SkipLine
  <1>2. program' = program /\ comments' = comments /\ ends' = ends /\ (Clean' <=> Clean)
    BY <1>1, WrittenStays
  <1>3. Types'
    <2>1. read + 1 \in 0..Len(comments)
      BY <1>0, Texts
    <2>2. start \in Nat /\ operations \in Seq([code : Seq(Symbols), line : Nat]) /\ buffer \in Seq(Symbols)
      BY <1>0 DEF Types
    <2> QED BY <1>0, <1>1, <2>1, <2>2, TypesStay
  <1>4. ASSUME Clean PROVE ReadSoFar'
    <2>1. ReadSoFar
      BY <1>0, <1>4
    <2>2. ends[read + 1] = ends[read]
      <3>1. Len(Line) = ends[read + 1] - ends[read] /\ read + 1 \in 0..Len(comments)
            /\ read \in 0..Len(comments)
        BY <1>0, <1>4, <2>1, NextLine, Texts DEF ReadSoFar
      <3>2. ends[read] \in Int /\ ends[read + 1] \in Int
        BY <1>0, <3>1, Texts
      <3>3. Len(Line) = 0
        BY <1>1
      <3> QED BY <3>1, <3>2, <3>3
    <2>3. PICK cut \in [0..Len(operations) -> 0..Len(program)] : Pieces(cut)
      BY <2>1 DEF ReadSoFar
    <2>4. Pieces(cut)'
      BY <1>1, <1>2, <2>2, <2>3 DEF Pieces, CutAt
    <2> QED BY <1>1, <1>2, <2>1, <2>2, <2>3, <2>4 DEF ReadSoFar
  <1> QED BY <1>0, <1>1, <1>2, <1>3, <1>4 DEF IInv, Ended

(* The statement, with a line that fits. *)
LEMMA LineFits ==
    ASSUME Types, Clean, ReadSoFar, read < Len(Lines), Line # <<>> \/ buffer # <<>>, Fits,
           NEW cut \in [0..Len(operations) -> 0..Len(program)], Pieces(cut)
    PROVE  LET last == cut[Len(operations)]
           IN  /\ Statement = SubSeq(program, last + 1, ends[read + 1])
               /\ Statement \in Seq(Symbols) /\ last < ends[read + 1]
               /\ last \in 0..Len(program) /\ ends[read + 1] \in 0..Len(program)
               /\ After(program, ends[read + 1]) = Outside
               /\ NewDepth = Depth(program, ends[read + 1])
               /\ Start \in 1..read + 1 /\ ends[Start - 1] <= last /\ last < ends[Start]
               /\ Len(operations) \in Nat
  <1> DEFINE last == cut[Len(operations)]
  <1>0. After(program, ends[read]) = Outside /\ depth = Depth(program, ends[read])
    BY DEF ReadSoFar
  <1>1. /\ read \in Nat /\ read + 1 \in 1..Len(comments) /\ read \in 0..Len(comments)
        /\ read + 1 \in 0..Len(comments) /\ ends[read] <= ends[read + 1]
        /\ Line = SubSeq(program, ends[read] + 1, ends[read + 1])
        /\ Len(Line) = ends[read + 1] - ends[read]
    <2>1. read \in Nat /\ Len(comments) \in Nat /\ read < Len(comments)
      BY Texts
    <2>2. /\ read + 1 \in 1..Len(comments) /\ ends[read] <= ends[read + 1]
          /\ Line = SubSeq(program, ends[read] + 1, ends[read + 1])
          /\ Len(Line) = ends[read + 1] - ends[read]
      BY <1>0, NextLine
    <2>3. read \in 0..Len(comments) /\ read + 1 \in 0..Len(comments)
      BY <2>1
    <2> QED BY <2>1, <2>2, <2>3
  <1>2. /\ program \in Seq(Symbols) /\ Len(operations) \in Nat
        /\ ends[read] \in 0..Len(program) /\ ends[read + 1] \in 0..Len(program)
        /\ last \in 0..Len(program)
    <2>1. Len(operations) \in Nat
      BY DEF Types
    <2>2. last \in 0..Len(program)
      BY <2>1
    <2> HIDE DEF last
    <2> QED BY <1>1, <2>1, <2>2, Texts
  <1>3. last <= ends[read] /\ buffer = SubSeq(program, last + 1, ends[read])
        /\ (buffer # <<>> => start \in 1..read /\ ends[start - 1] <= last /\ last < ends[start])
    BY DEF Pieces
  <1>4. Statement = SubSeq(program, last + 1, ends[read + 1])
    <2> HIDE DEF last
    <2>1. Statement = SubSeq(program, last + 1, ends[read]) \o SubSeq(program, ends[read] + 1, ends[read + 1])
      BY <1>1, <1>3 DEF Statement
    <2> QED BY <1>1, <1>2, <1>3, <2>1, SubSeqJoin
  <1>5. Len(buffer) = ends[read] - last
    <2> HIDE DEF last
    <2> QED BY <1>2, <1>3, SubSeqIs
  <1>6. buffer = <<>> => last = ends[read] /\ ends[read] < ends[read + 1]
    <2> HIDE DEF last
    <2>0. Line \in Seq(Symbols)
      BY <1>0, NextLine
    <2> SUFFICES ASSUME buffer = <<>> PROVE last = ends[read] /\ ends[read] < ends[read + 1]
      OBVIOUS
    <2>1. Len(buffer) = 0
      OBVIOUS
    <2>2. Len(Line) # 0
      BY <2>0, EmptySeq
    <2>3. ends[read] \in Int /\ ends[read + 1] \in Int /\ last \in Int
      BY <1>2
    <2>4. 0 = ends[read] - last /\ ends[read + 1] - ends[read] # 0
      BY <1>1, <1>5, <2>1, <2>2
    <2> QED BY <1>1, <2>3, <2>4
  <1>7. buffer # <<>> => last < ends[read]
    <2> HIDE DEF last
    <2> SUFFICES ASSUME buffer # <<>> PROVE last < ends[read]
      OBVIOUS
    <2>0. buffer \in Seq(Symbols)
      BY <1>2, <1>3, SubSeqIs
    <2>1. Len(buffer) # 0
      BY <2>0
    <2> QED BY <1>2, <1>3, <1>5, <2>1
  <1>8. last < ends[read + 1]
    <2> HIDE DEF last
    <2> QED BY <1>1, <1>2, <1>6, <1>7
  <1>9. Statement \in Seq(Symbols)
    <2> HIDE DEF last
    <2> QED BY <1>2, <1>4, <1>8, SubSeqIs
  <1>10. After(program, ends[read + 1]) = Outside
    BY <1>0, LineEnds DEF Fits
  <1>11. NewDepth = Depth(program, ends[read + 1])
    <2>1. DepthDelta(Line) = Depth(program, ends[read + 1]) - Depth(program, ends[read])
      BY <1>0, LineEnds
    <2>2. Depth(program, ends[read + 1]) \in Int /\ Depth(program, ends[read]) \in Int
      BY <1>2, DepthIs
    <2> QED BY <1>0, <2>1, <2>2 DEF NewDepth
  <1>12. Start \in 1..read + 1 /\ ends[Start - 1] <= last /\ last < ends[Start]
    <2> HIDE DEF last
    <2>1. CASE buffer = <<>>
      <3>1. Start = read + 1 /\ Start - 1 = read
        BY <1>1, <2>1 DEF Start
      <3> QED BY <1>1, <1>2, <1>6, <2>1, <3>1
    <2>2. CASE buffer # <<>>
      <3>1. Start = start
        BY <2>2 DEF Start
      <3> QED BY <1>1, <1>3, <2>2, <3>1
    <2> QED BY <2>1, <2>2
  <1> QED BY <1>2, <1>4, <1>8, <1>9, <1>10, <1>11, <1>12

(* The statement grows by the line. *)
LEMMA KeepLineKeeps ==
    ASSUME IInv, KeepLine
    PROVE  IInv'
  <1>0. /\ Types /\ (Clean => ReadSoFar) /\ outcome = "reading" /\ read < Len(Lines)
        /\ Line # <<>> \/ buffer # <<>>
        /\ Fits /\ NewDepth > 0
    BY DEF IInv, KeepLine, Reading
  <1>1. /\ UNCHANGED written /\ buffer' = Statement /\ start' = Start /\ depth' = NewDepth
        /\ operations' = operations /\ outcome' = outcome /\ read' = read + 1
    BY DEF KeepLine
  <1>2. program' = program /\ comments' = comments /\ ends' = ends /\ (Clean' <=> Clean)
    BY <1>1, WrittenStays
  <1>3. Types'
    <2>1. read + 1 \in 0..Len(comments) /\ read \in Nat
      BY <1>0, Texts
    <2>2. Start \in Nat /\ operations \in Seq([code : Seq(Symbols), line : Nat])
      BY <1>0, <2>1 DEF Types, Start
    <2>3. Statement \in Seq(Symbols)
      BY <1>0, LineType
    <2> QED BY <1>0, <1>1, <2>1, <2>2, <2>3, TypesStay
  <1>4. ASSUME Clean PROVE ReadSoFar'
    <2>1. ReadSoFar
      BY <1>0, <1>4
    <2>2. PICK cut \in [0..Len(operations) -> 0..Len(program)] : Pieces(cut)
      BY <2>1 DEF ReadSoFar
    <2> DEFINE last == cut[Len(operations)]
    <2>3. /\ Statement = SubSeq(program, last + 1, ends[read + 1])
          /\ Statement \in Seq(Symbols) /\ last < ends[read + 1]
          /\ last \in 0..Len(program) /\ ends[read + 1] \in 0..Len(program)
          /\ After(program, ends[read + 1]) = Outside
          /\ NewDepth = Depth(program, ends[read + 1])
          /\ Start \in 1..read + 1 /\ ends[Start - 1] <= last /\ last < ends[Start]
      BY <1>0, <1>4, <2>1, <2>2, LineFits
    <2>4. last <= ends[read + 1]
      <3> HIDE DEF last
      <3> QED BY <2>3
    <2>5. Pieces(cut)'
      <3>1. CutAt(cut)'
        BY <1>1, <1>2, <2>2 DEF Pieces, CutAt
      <3>2. \A k \in DOMAIN operations : cut[k-1] < cut[k] /\ Depth(program, cut[k]) = 0
        BY <2>2 DEF Pieces
      <3> QED BY <1>1, <1>2, <2>3, <2>4, <3>1, <3>2 DEF Pieces
    <2> QED BY <1>0, <1>1, <1>2, <2>1, <2>2, <2>3, <2>5 DEF ReadSoFar
  <1> QED BY <1>0, <1>1, <1>2, <1>3, <1>4 DEF IInv, Ended

(* The statement is one piece more. *)
LEMMA ParseStatementKeeps ==
    ASSUME IInv, ParseStatement
    PROVE  IInv'
  <1>0. /\ Types /\ (Clean => ReadSoFar) /\ outcome = "reading" /\ read < Len(Lines)
        /\ Line # <<>> \/ buffer # <<>>
        /\ Fits /\ NewDepth = 0 /\ IsOperation(Statement)
    BY DEF IInv, ParseStatement, Reading
  <1> DEFINE operation == [code |-> Statement, line |-> Start]
             n == Len(operations)
  <1>1. /\ UNCHANGED written /\ buffer' = <<>> /\ start' = Start /\ depth' = 0
        /\ operations' = Append(operations, operation)
        /\ outcome' = outcome /\ read' = read + 1
    BY DEF ParseStatement
  <1>2. program' = program /\ comments' = comments /\ ends' = ends /\ (Clean' <=> Clean)
    BY <1>1, WrittenStays
  <1>3. read + 1 \in 0..Len(comments) /\ read \in Nat /\ Start \in Nat
    BY <1>0, Texts DEF Types, Start
  <1>4. Statement \in Seq(Symbols)
    BY <1>0, LineType
  <1>5. Types'
    <2>1. operations \in Seq([code : Seq(Symbols), line : Nat])
      BY <1>0 DEF Types
    <2>2. operation \in [code : Seq(Symbols), line : Nat]
      BY <1>3, <1>4
    <2> HIDE DEF operation
    <2>3. Append(operations, operation) \in Seq([code : Seq(Symbols), line : Nat])
      BY <2>1, <2>2, AppendProperties
    <2> QED BY <1>0, <1>1, <1>3, <2>3, TypesStay
  <1>6. ASSUME Clean PROVE ReadSoFar'
    <2>1. ReadSoFar
      BY <1>0, <1>6
    <2>2. PICK cut \in [0..n -> 0..Len(program)] : Pieces(cut)
      BY <2>1 DEF ReadSoFar
    <2> DEFINE last == cut[n]
               e == ends[read + 1]
    <2>3. /\ Statement = SubSeq(program, last + 1, e)
          /\ Statement \in Seq(Symbols) /\ last < e
          /\ last \in 0..Len(program) /\ e \in 0..Len(program)
          /\ After(program, e) = Outside
          /\ NewDepth = Depth(program, e)
          /\ Start \in 1..read + 1 /\ ends[Start - 1] <= last /\ last < ends[Start]
          /\ n \in Nat
      BY <1>0, <1>6, <2>1, <2>2, LineFits
    <2>4. PICK new \in [0..n + 1 -> 0..Len(program)] :
             new[n + 1] = e /\ \A k \in 0..n : new[k] = cut[k]
      <3> DEFINE longer == [k \in 0..n + 1 |-> IF k = n + 1 THEN e ELSE cut[k]]
      <3> HIDE DEF e
      <3>1. longer \in [0..n + 1 -> 0..Len(program)]
        BY <2>2, <2>3
      <3>2. longer[n + 1] = e /\ \A k \in 0..n : longer[k] = cut[k]
        BY <2>2, <2>3
      <3> HIDE DEF longer
      <3> QED BY <3>1, <3>2
    <2>5. /\ Len(operations') = n + 1 /\ DOMAIN operations' = 1..n + 1 /\ DOMAIN operations = 1..n
          /\ operations'[n + 1] = operation
          /\ \A k \in 1..n : operations'[k] = operations[k]
      <3>1. operations \in Seq([code : Seq(Symbols), line : Nat])
        BY <1>0 DEF Types
      <3>2. operation \in [code : Seq(Symbols), line : Nat]
        BY <1>3, <1>4
      <3> HIDE DEF operation
      <3> QED BY <1>1, <3>1, <3>2, AppendProperties
    <2> HIDE DEF e, last
    <2>6. /\ cut[0] = 0
          /\ \A k \in 1..n :
                /\ operations[k].code = SubSeq(program, cut[k-1] + 1, cut[k])
                /\ ends[operations[k].line - 1] <= cut[k-1] /\ cut[k-1] < ends[operations[k].line]
                /\ cut[k-1] < cut[k] /\ Depth(program, cut[k]) = 0
      BY <2>2, <2>5 DEF Pieces, CutAt
    <2>7. ASSUME NEW k \in 1..n + 1
          PROVE  /\ operations'[k].code = SubSeq(program, new[k-1] + 1, new[k])
                 /\ ends[operations'[k].line - 1] <= new[k-1] /\ new[k-1] < ends[operations'[k].line]
                 /\ new[k-1] < new[k] /\ Depth(program, new[k]) = 0
                 /\ IsOperation(operations'[k].code)
      <3>1. CASE k = n + 1
        <4>1. k - 1 = n /\ n \in 0..n
          BY <2>3, <3>1
        <4>2. new[k] = e /\ new[k-1] = last /\ operations'[k] = operation
          BY <2>4, <2>5, <3>1, <4>1 DEF last
        <4>3. operation.code = Statement /\ operation.line = Start
          OBVIOUS
        <4> HIDE DEF operation
        <4> QED BY <1>0, <2>3, <4>2, <4>3
      <3>2. CASE k \in 1..n
        <4>1. k - 1 \in 0..n /\ k \in 0..n
          BY <2>3, <3>2
        <4>2. new[k] = cut[k] /\ new[k-1] = cut[k-1] /\ operations'[k] = operations[k]
          BY <2>4, <2>5, <3>2, <4>1
        <4>3. IsOperation(operations[k].code)
          BY <2>1, <2>5, <3>2 DEF ReadSoFar
        <4> QED BY <2>6, <3>2, <4>2, <4>3
      <3> QED BY <2>3, <3>1, <3>2
    <2>8. SubSeq(program, e + 1, e) = <<>>
      <3>1. Len(SubSeq(program, e + 1, e)) = e - e /\ SubSeq(program, e + 1, e) \in Seq(Symbols)
        BY <1>0, <2>3, SubSeqIs, Texts
      <3> QED BY <2>3, <3>1, EmptySeq
    <2>9. new[0] = 0
      BY <2>3, <2>4, <2>6
    <2>10. Pieces(new)'
      <3>1. CutAt(new)'
        BY <1>2, <2>5, <2>7, <2>9 DEF CutAt
      <3>2. new[Len(operations')] = e /\ ends[read'] = e
        BY <1>1, <2>4, <2>5 DEF e
      <3>3. \A k \in DOMAIN operations' : new[k-1] < new[k] /\ Depth(program, new[k]) = 0
        BY <2>5, <2>7
      <3>4. e <= e
        BY <2>3
      <3> QED BY <1>1, <1>2, <2>8, <3>1, <3>2, <3>3, <3>4 DEF Pieces
    <2>11. /\ ends[read'] = e /\ \A k \in DOMAIN operations' : IsOperation(operations'[k].code)
      BY <1>1, <2>5, <2>7 DEF e
    <2> QED BY <1>0, <1>1, <1>2, <2>3, <2>4, <2>5, <2>10, <2>11 DEF ReadSoFar
  <1> QED BY <1>0, <1>1, <1>2, <1>5, <1>6 DEF IInv, Ended

(* A refusal changes nothing else, and its reason remains. *)
LEMMA RefusedKeeps ==
    ASSUME IInv, RefuseLine \/ RefuseStatement \/ RefuseUnclosed
    PROVE  IInv'
  <1>1. Refuse /\ Types /\ (Clean => ReadSoFar)
    BY DEF IInv, RefuseLine, RefuseStatement, RefuseUnclosed
  <1>2. UNCHANGED <<written, read, buffer, start, depth, operations>> /\ outcome' = "refused"
    BY <1>1 DEF Refuse
  <1>3. /\ Types' /\ (Clean => ReadSoFar)'
        /\ BadLine' <=> BadLine
        /\ BadStatement' <=> BadStatement
        /\ Unclosed' <=> Unclosed
    BY <1>1, <1>2, RestStays
  <1>4. BadLine \/ BadStatement \/ Unclosed
    BY DEF RefuseLine, RefuseStatement, RefuseUnclosed, BadLine, BadStatement, Unclosed, Reading
  <1> QED BY <1>2, <1>3, <1>4 DEF IInv, Ended

(* Neither does the end. *)
LEMMA FinishKeeps ==
    ASSUME IInv, Finish
    PROVE  IInv'
  <1>1. /\ UNCHANGED <<written, read, buffer, start, depth, operations>> /\ outcome' = "done"
        /\ read = Len(Lines) /\ buffer = <<>> /\ Types /\ (Clean => ReadSoFar)
    BY DEF IInv, Finish
  <1>2. Types' /\ (Clean => ReadSoFar)' /\ Len(Lines)' = Len(Lines)
    BY <1>1, RestStays
  <1> QED BY <1>1, <1>2 DEF IInv, Ended

(* Nothing changes. *)
LEMMA StutterKeeps ==
    ASSUME IInv, UNCHANGED vars
    PROVE  IInv'
  <1>1. /\ UNCHANGED <<written, read, buffer, start, depth, operations>> /\ outcome' = outcome
        /\ Types /\ (Clean => ReadSoFar) /\ Ended
    BY DEF IInv, vars
  <1>2. outcome' \in {"reading", "done", "refused"}
    BY <1>1 DEF Types
  <1>3. /\ Types' /\ (Clean => ReadSoFar)'
        /\ BadLine' <=> BadLine
        /\ BadStatement' <=> BadStatement
        /\ Unclosed' <=> Unclosed
        /\ Len(Lines)' = Len(Lines)
    BY <1>1, <1>2, RestStays
  <1>4. Ended'
    BY <1>1, <1>3 DEF Ended
  <1> QED BY <1>3, <1>4 DEF IInv

(* What has been read is the beginning of the program, and what has been   *)
(* refused has been for a reason.                                          *)
THEOREM Invariant == Spec => []IInv
  <1>1. IInv /\ [Next]_vars => IInv'
    BY SkipLineKeeps, KeepLineKeeps, ParseStatementKeeps, RefusedKeeps, FinishKeeps, StutterKeeps
       DEF Next
  <1> QED BY <1>1, InitIsInvariant, PTL DEF Spec

(* However a program is broken into lines, and whatever its comments say,  *)
(* the operations that parse_text gives are the program.                   *)
THEOREM ReadsAll == Spec => []ReadsWhatIsWritten
  <1>1. IInv => ReadsWhatIsWritten
    <2> SUFFICES ASSUME IInv, outcome = "done",
                        \A k \in DOMAIN comments : InString(ends[k]) => comments[k] = <<>>
                 PROVE  /\ \E cut \in [0..Len(operations) -> 0..Len(program)] :
                              CutAt(cut) /\ cut[Len(operations)] = Len(program)
                        /\ \A k \in DOMAIN operations : IsOperation(operations[k].code)
      BY DEF ReadsWhatIsWritten
    <2>1. Types /\ ReadSoFar /\ read = Len(Lines) /\ buffer = <<>>
      BY DEF IInv, Clean, Ended
    <2>2. PICK cut \in [0..Len(operations) -> 0..Len(program)] : Pieces(cut)
      BY <2>1 DEF ReadSoFar
    <2>3. ends[read] = Len(program) /\ program \in Seq(Symbols) /\ Len(program) \in Nat
      BY <2>1, Texts
    <2> DEFINE last == cut[Len(operations)]
    <2>4. last \in 0..Len(program)
      <3>1. Len(operations) \in Nat
        BY <2>1 DEF Types
      <3> QED BY <3>1
    <2>5. <<>> = SubSeq(program, last + 1, Len(program))
      BY <2>1, <2>2, <2>3 DEF Pieces
    <2>6. last = Len(program)
      <3> HIDE DEF last
      <3>1. Len(SubSeq(program, last + 1, Len(program))) = Len(program) - last
        BY <2>3, <2>4, SubSeqIs
      <3>2. Len(SubSeq(program, last + 1, Len(program))) = 0
        BY <2>5, EmptySeq
      <3> QED BY <2>3, <2>4, <3>1, <3>2
    <2> QED BY <2>1, <2>2, <2>6 DEF Pieces, ReadSoFar
  <1> QED BY <1>1, Invariant, PTL

(* An operation that is well formed, on lines that do not break its        *)
(* strings and its beginning, is refused only where _depth_delta sees two  *)
(* delimiters more closed than opened on one line.                         *)
THEOREM RefusedForDepth == Spec => []RefusedForOneReason
  <1>1. IInv => RefusedForOneReason
    <2> SUFFICES ASSUME IInv, Formatted, outcome = "refused",
                        \A k \in DOMAIN Lines : ~ClosesTwice(StripComment(Lines[k]))
                 PROVE  FALSE
      BY DEF RefusedForOneReason
    <2> DEFINE n == Len(program)
    <2>1. Types /\ Clean /\ ReadSoFar /\ (BadLine \/ BadStatement \/ Unclosed)
      BY DEF IInv, Ended, Formatted, Clean
    <2>2. IsOperation(program) /\ \A k \in DOMAIN comments : ends[k] # 1 /\ ~InString(ends[k])
      BY DEF Formatted
    <2>3. /\ program \in Seq(Symbols) /\ n \in Nat /\ n >= 3 /\ Depth(program, n) = 0
          /\ \A k \in 2..n-1 : Depth(program, k) >= 1
      <3>1. program \in Seq(Symbols) /\ End \notin {program[k] : k \in DOMAIN program}
        BY <2>1, Texts, ProgramsAssumption DEF Types
      <3> QED BY <2>2, <3>1, OperationBalances
    <2>4. Depth(program, 0) = 0
      BY <2>3, DepthIs
    <2>5. ASSUME NEW k \in 0..n, k # 1
          PROVE  Depth(program, k) >= 0 /\ (Depth(program, k) = 0 => k = 0 \/ k = n)
      <3>1. k = 0 \/ k = n \/ k \in 2..n-1
        BY <2>3, <2>5
      <3>2. Depth(program, k) \in Int
        BY <2>3, DepthIs
      <3> QED BY <2>3, <2>4, <3>1, <3>2
    <2>6. After(program, ends[read]) = Outside
      BY <2>1 DEF ReadSoFar
    <2>7. ASSUME read < Len(Lines)
          PROVE  /\ read + 1 \in DOMAIN comments /\ read + 1 \in DOMAIN Lines
                 /\ ends[read + 1] \in 0..n /\ ends[read + 1] # 1
                 /\ ~ClosesTwice(Line) /\ ~Unterminated(Line)
                 /\ NewDepth = Depth(program, ends[read + 1])
      <3>1. /\ read + 1 \in DOMAIN comments /\ read + 1 \in DOMAIN Lines
            /\ read \in 0..Len(comments) /\ read + 1 \in 0..Len(comments)
        BY <2>1, <2>7, Texts
      <3>2. ends[read + 1] \in 0..n /\ ends[read] \in 0..n
        BY <2>1, <3>1, Texts
      <3>3. ends[read + 1] # 1 /\ ~InString(ends[read + 1])
        BY <2>2, <3>1
      <3>4. ~ClosesTwice(Line)
        BY <3>1 DEF Line
      <3>5. ~Unterminated(Line) /\ DepthDelta(Line) = Depth(program, ends[read + 1]) - Depth(program, ends[read])
        BY <2>1, <2>6, <2>7, <3>3, LineEnds
      <3>6. NewDepth = Depth(program, ends[read + 1])
        <4>1. Depth(program, ends[read + 1]) \in Int /\ Depth(program, ends[read]) \in Int
          BY <2>3, <3>2, DepthIs
        <4>2. depth = Depth(program, ends[read])
          BY <2>1 DEF ReadSoFar
        <4> QED BY <3>5, <4>1, <4>2 DEF NewDepth
      <3> QED BY <3>1, <3>2, <3>3, <3>4, <3>5, <3>6
    <2>8. CASE BadLine
      <3>1. read < Len(Lines) /\ ~Fits
        BY <2>8 DEF BadLine
      <3>2. NewDepth >= 0
        BY <2>5, <2>7, <3>1
      <3> QED BY <2>7, <3>1, <3>2 DEF Fits
    <2>9. CASE BadStatement
      <3>1. /\ read < Len(Lines) /\ (Line # <<>> \/ buffer # <<>>)
            /\ Fits /\ NewDepth = 0 /\ ~IsOperation(Statement)
        BY <2>9 DEF BadStatement
      <3>2. PICK cut \in [0..Len(operations) -> 0..Len(program)] : Pieces(cut)
        BY <2>1 DEF ReadSoFar
      <3> DEFINE last == cut[Len(operations)]
      <3>3. /\ Statement = SubSeq(program, last + 1, ends[read + 1]) /\ last < ends[read + 1]
            /\ last \in 0..n /\ Len(operations) \in Nat
        BY <2>1, <3>1, <3>2, LineFits
      <3>4. ends[read + 1] = 0 \/ ends[read + 1] = n
        BY <2>5, <2>7, <3>1
      <3>5. ends[read + 1] = n /\ last < n
        <4> HIDE DEF last
        <4> QED BY <2>3, <3>3, <3>4
      <3>6. CASE Len(operations) = 0
        <4>1. last = 0
          BY <3>2, <3>6 DEF Pieces, CutAt
        <4>2. Statement = program
          <5> HIDE DEF last
          <5>1. Statement = SubSeq(program, 1, n)
            BY <3>3, <3>5, <4>1
          <5> QED BY <2>3, <5>1
        <4> QED BY <2>2, <3>1, <4>2
      <3>7. CASE Len(operations) # 0
        <4> DEFINE m == Len(operations)
                   code == SubSeq(program, cut[m - 1] + 1, cut[m])
        <4>1. m \in DOMAIN operations /\ m - 1 \in 0..m /\ m \in 0..m
          BY <2>1, <3>3, <3>7 DEF Types
        <4>2. /\ operations[m].code = code /\ cut[m - 1] < cut[m] /\ Depth(program, cut[m]) = 0
          BY <3>2, <4>1 DEF Pieces, CutAt
        <4>3. IsOperation(code)
          BY <2>1, <4>1, <4>2 DEF ReadSoFar
        <4>4. cut[m - 1] \in 0..n /\ cut[m] \in 0..n
          BY <3>2, <4>1
        <4>5. Len(code) >= 3
          BY <4>3 DEF IsOperation
        <4>6. Len(code) = cut[m] - cut[m - 1]
          <5>1. cut[m - 1] <= cut[m]
            BY <4>2, <4>4
          <5> QED BY <2>3, <4>4, <5>1, SubSeqIs
        <4> HIDE DEF code
        <4>7. last >= 3
          BY <4>4, <4>5, <4>6
        <4>8. last = 0 \/ last = n
          <5> HIDE DEF m
          <5>1. last \in 0..n /\ last # 1 /\ Depth(program, last) = 0
            BY <3>3, <4>2, <4>7 DEF m
          <5> HIDE DEF last
          <5> QED BY <2>5, <5>1
        <4> HIDE DEF last
        <4> QED BY <2>3, <3>3, <3>5, <4>7, <4>8
      <3> QED BY <3>6, <3>7
    <2>10. CASE Unclosed
      <3>1. read = Len(Lines) /\ buffer # <<>>
        BY <2>10 DEF Unclosed
      <3>2. ends[read] = n
        BY <2>1, <3>1, Texts
      <3>3. depth = Depth(program, n) /\ depth > 0
        BY <2>1, <3>1, <3>2 DEF ReadSoFar
      <3> QED BY <2>3, <3>3
    <2> QED BY <2>1, <2>8, <2>9, <2>10
  <1> QED BY <1>1, Invariant, PTL
=============================================================================
