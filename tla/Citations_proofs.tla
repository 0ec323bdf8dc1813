---------------------------- MODULE Citations_proofs ----------------------------
(***************************************************************************)
(* Proofs about Citations, for any set of documents and any limit of the   *)
(* questions: the report says of every citation and every requirement what *)
(* is so, the two profiles of a product differ for a reason one can name,  *)
(* and the verification leaves out nothing but what is over the limit.                                     *)
(***************************************************************************)
EXTENDS Citations, FiniteSetTheorems, SequenceTheorems, WellFoundedInduction, TLAPS

(***************************************************************************)
(* Lists.                                                                  *)
(***************************************************************************)

\* A set of numbers has a least one.
LEMMA Least == ASSUME NEW T, T \subseteq Nat, T # {} PROVE \E x \in T : \A y \in T : x <= y
<1>1. IsWellFoundedOn(OpToRel(<,Nat), Nat)
  BY NatLessThanWellFounded
<1>2. PICK x \in T : \A y \in T : ~(<<y, x>> \in OpToRel(<,Nat))
  BY <1>1, WFMin
<1>3. \A y \in T : ~(y < x)
  BY <1>2 DEF OpToRel
<1> QED
  BY <1>3

\* What a document is made of, as far as the proofs need it.
LEMMA FieldsAre ==
  ASSUME NEW d \in DocumentKinds
  PROVE  /\ d.listed \in Seq(CitationKinds) /\ d.vision \in BOOLEAN
         /\ d.ages \in Seq(Statements) /\ Len(d.ages) \in Nat
         /\ \A i \in 1 .. Len(d.ages) : d.ages[i] \in Statements
<1>1. d \in Fields
  BY DEF DocumentKinds
<1>2. d.listed \in Seq(CitationKinds) /\ d.vision \in BOOLEAN /\ d.ages \in Seq(Statements)
  BY <1>1 DEF Fields
<1> QED
  BY <1>2

Rank(I, i) == Cardinality({j \in I : j <= i})

\* Counting the places in I up to each of them numbers them in order.
LEMMA Ranks ==
  ASSUME NEW n \in Nat, NEW I, I \subseteq 1 .. n
  PROVE  /\ IsFiniteSet(I) /\ Cardinality(I) \in Nat
         /\ \A i \in I : Rank(I, i) \in 1 .. Cardinality(I)
         /\ \A i, j \in I : i < j => Rank(I, i) < Rank(I, j)
<1>1. IsFiniteSet(1 .. n)
  BY FS_Interval
<1>2. IsFiniteSet(I) /\ Cardinality(I) \in Nat
  BY <1>1, FS_Subset, FS_CardinalityType
<1> DEFINE upTo(i) == {j \in I : j <= i}
<1>3. ASSUME NEW i \in I
      PROVE  /\ IsFiniteSet(upTo(i)) /\ Cardinality(upTo(i)) \in Nat
             /\ Cardinality(upTo(i)) <= Cardinality(I) /\ Cardinality(upTo(i)) # 0
  <2>1. upTo(i) \subseteq I
    OBVIOUS
  <2>2. IsFiniteSet(upTo(i)) /\ Cardinality(upTo(i)) <= Cardinality(I)
    BY <1>2, <2>1, FS_Subset
  <2>3. Cardinality(upTo(i)) \in Nat
    BY <2>2, FS_CardinalityType
  <2>4. i \in upTo(i)
    OBVIOUS
  <2>5. Cardinality(upTo(i)) # 0
    BY <2>2, <2>4, FS_EmptySet
  <2> QED
    BY <2>2, <2>3, <2>5
<1>4. ASSUME NEW i \in I, NEW j \in I, i < j
      PROVE  Cardinality(upTo(i)) < Cardinality(upTo(j))
  <2>1. upTo(i) \subseteq upTo(j) /\ upTo(i) # upTo(j)
    <3>1. i \in Nat /\ j \in Nat /\ ~(j <= i) /\ j <= j /\ \A k \in Nat : k <= i => k <= j
      BY <1>4
    <3>2. j \in upTo(j) /\ j \notin upTo(i)
      BY <3>1
    <3>3. ASSUME NEW k \in upTo(i) PROVE k \in upTo(j)
      <4>1. k \in I /\ k \in Nat /\ k <= i
        BY <3>3
      <4> QED
        BY <3>1, <4>1
    <3> QED
      BY <3>2, <3>3
  <2>2. /\ Cardinality(upTo(i)) <= Cardinality(upTo(j))
        /\ Cardinality(upTo(i)) # Cardinality(upTo(j))
    BY <1>3, <2>1, FS_Subset
  <2> QED
    BY <1>3, <2>2
<1>5. \A i \in I : Rank(I, i) = Cardinality(upTo(i))
  BY DEF Rank
<1> HIDE DEF upTo
<1>6. ASSUME NEW i \in I PROVE Rank(I, i) \in 1 .. Cardinality(I)
  <2>1. /\ Cardinality(upTo(i)) \in Nat /\ Cardinality(I) \in Nat
        /\ Cardinality(upTo(i)) <= Cardinality(I) /\ Cardinality(upTo(i)) # 0
    BY <1>2, <1>3
  <2> QED
    BY <1>5, <2>1
<1> QED
  BY <1>2, <1>4, <1>5, <1>6

\* The k-th place, and which one a place is.
LEMMA PlaceIs ==
  ASSUME NEW n \in Nat, NEW I, I \subseteq 1 .. n
  PROVE  /\ \A k \in 1 .. Cardinality(I) : Place(I, k) \in I /\ Rank(I, Place(I, k)) = k
         /\ \A i \in I : Place(I, Rank(I, i)) = i
<1>1. /\ IsFiniteSet(I) /\ Cardinality(I) \in Nat
      /\ \A i \in I : Rank(I, i) \in 1 .. Cardinality(I)
      /\ \A i, j \in I : i < j => Rank(I, i) < Rank(I, j)
  BY Ranks
<1>2. ASSUME NEW i \in I, NEW j \in I, Rank(I, i) = Rank(I, j) PROVE i = j
  <2>1. i \in Nat /\ j \in Nat /\ Rank(I, i) \in Nat
    BY <1>1
  <2>2. ~(i < j) /\ ~(j < i)
    BY <1>1, <1>2, <2>1
  <2> QED
    BY <2>1, <2>2
<1> DEFINE f == [i \in I |-> Rank(I, i)]
<1>3. f \in Injection(I, 1 .. Cardinality(I))
  BY <1>1, <1>2 DEF Injection, IsInjective
<1>4. IsFiniteSet(1 .. Cardinality(I)) /\ Cardinality(1 .. Cardinality(I)) = Cardinality(I)
  <2>1. Cardinality(I) \in Int /\ 1 \in Int
    BY <1>1
  <2>2. /\ IsFiniteSet(1 .. Cardinality(I))
        /\ Cardinality(1 .. Cardinality(I)) = IF 1 > Cardinality(I) THEN 0 ELSE Cardinality(I) - 1 + 1
    BY <2>1, FS_Interval
  <2> QED
    BY <1>1, <2>2
<1>5. f \in Surjection(I, 1 .. Cardinality(I))
  BY <1>3, <1>4, FS_Injection
<1>6. \A k \in 1 .. Cardinality(I) : \E i \in I : Rank(I, i) = k
  BY <1>5 DEF Surjection
<1>7. \A k : Place(I, k) = CHOOSE i \in I : Rank(I, i) = k
  BY DEF Place, Rank
<1>8. ASSUME NEW k \in 1 .. Cardinality(I) PROVE Place(I, k) \in I /\ Rank(I, Place(I, k)) = k
  BY <1>6, <1>7
<1>9. ASSUME NEW i \in I PROVE Place(I, Rank(I, i)) = i
  BY <1>1, <1>2, <1>8
<1> QED
  BY <1>8, <1>9

\* What At takes from a sequence, and with what it begins.
LEMMA AtIs ==
  ASSUME NEW S, NEW s \in Seq(S), NEW I, I \subseteq 1 .. Len(s)
  PROVE  /\ At(s, I) \in Seq(S)
         /\ ToSet(At(s, I)) = {s[i] : i \in I}
         /\ At(s, I) = <<>> <=> I = {}
         /\ \A i \in I : (\A j \in I : i <= j) => Head(At(s, I)) = s[i]
<1>1. Len(s) \in Nat /\ Cardinality(I) \in Nat /\ IsFiniteSet(I)
  <2>1. Len(s) \in Nat
    OBVIOUS
  <2> QED
    BY <2>1, Ranks
<1>2. /\ \A k \in 1 .. Cardinality(I) : Place(I, k) \in I /\ Rank(I, Place(I, k)) = k
      /\ \A i \in I : Place(I, Rank(I, i)) = i
      /\ \A i \in I : Rank(I, i) \in 1 .. Cardinality(I)
  BY <1>1, PlaceIs, Ranks
<1>3. /\ \A k \in 1 .. Cardinality(I) : At(s, I)[k] = s[Place(I, k)] /\ s[Place(I, k)] \in S
      /\ DOMAIN At(s, I) = 1 .. Cardinality(I)
  <2>1. \A k \in 1 .. Cardinality(I) : s[Place(I, k)] \in S
    <3>1. \A i \in I : s[i] \in S
      BY <1>1
    <3> QED
      BY <1>2, <3>1
  <2> QED
    BY <2>1 DEF At
<1>4. At(s, I) \in Seq(S) /\ Len(At(s, I)) = Cardinality(I)
  BY <1>1, <1>3 DEF At
<1>5. ToSet(At(s, I)) = {s[i] : i \in I}
  <2>1. ASSUME NEW x \in ToSet(At(s, I)) PROVE x \in {s[i] : i \in I}
    <3>1. PICK k \in 1 .. Cardinality(I) : x = At(s, I)[k]
      BY <1>3, <2>1 DEF ToSet
    <3> QED
      BY <1>2, <1>3, <3>1
  <2>2. ASSUME NEW i \in I PROVE s[i] \in ToSet(At(s, I))
    <3>1. Rank(I, i) \in DOMAIN At(s, I) /\ At(s, I)[Rank(I, i)] = s[i]
      BY <1>2, <1>3
    <3> QED
      BY <3>1 DEF ToSet
  <2> QED
    BY <2>1, <2>2
<1>6. At(s, I) = <<>> <=> I = {}
  <2>1. At(s, I) = <<>> <=> Cardinality(I) = 0
    BY <1>4, EmptySeq
  <2> QED
    BY <1>1, <2>1, FS_EmptySet
<1>7. ASSUME NEW i \in I, \A j \in I : i <= j PROVE Head(At(s, I)) = s[i]
  <2>1. Rank(I, i) = 1
    <3>1. \A j \in I : i \in Nat /\ j \in Nat
      BY <1>1
    <3>2. \A j \in I : j <= i => j = i
      BY <1>7, <3>1
    <3>3. i <= i
      BY <3>1
    <3>4. {j \in I : j <= i} = {i}
      BY <3>2, <3>3
    <3> QED
      BY <3>4, FS_Singleton DEF Rank
  <2>2. Place(I, 1) = i /\ 1 \in 1 .. Cardinality(I)
    BY <1>2, <2>1
  <2>3. At(s, I)[1] = s[i]
    BY <1>3, <2>2
  <2> QED
    BY <1>4, <2>3
<1> QED
  BY <1>4, <1>5, <1>6, <1>7

\* The beginning of a list.
LEMMA Prefix ==
  ASSUME NEW T, NEW s \in Seq(T), NEW n \in 1 .. Len(s)
  PROVE  /\ SubSeq(s, 1, n) \in Seq(T)
         /\ Len(SubSeq(s, 1, n)) = n
         /\ \A i \in 1 .. n : SubSeq(s, 1, n)[i] = s[i]
<1>1. SubSeq(s, 1, n) = [i \in 1 .. n |-> s[i]]
  OBVIOUS
<1>2. n \in Nat /\ \A i \in 1 .. n : s[i] \in T
  OBVIOUS
<1>3. [i \in 1 .. n |-> s[i]] \in Seq(T) /\ Len([i \in 1 .. n |-> s[i]]) = n
  BY <1>2
<1> QED
  BY <1>1, <1>3

\* A filtered list.
LEMMA AmongIs ==
  ASSUME NEW T, NEW s \in Seq(T), NEW S
  PROVE  /\ Among(s, S) \in Seq(T)
         /\ ToSet(Among(s, S)) = ToSet(s) \cap S
<1> DEFINE I == {i \in 1 .. Len(s) : s[i] \in S}
<1>1. Among(s, S) = At(s, I) /\ I \subseteq 1 .. Len(s)
  BY DEF Among
<1>2. At(s, I) \in Seq(T) /\ ToSet(At(s, I)) = {s[i] : i \in I}
  BY <1>1, AtIs
<1>3. {s[i] : i \in I} = ToSet(s) \cap S
  BY DEF ToSet
<1> QED
  BY <1>1, <1>2, <1>3

\* A list without its repetitions has the same elements.
LEMMA ProvidedIs ==
  ASSUME NEW T, NEW d, d.listed \in Seq(T)
  PROVE  Provided(d) \in Seq(T) /\ ToSet(Provided(d)) = ToSet(d.listed)
<1> DEFINE s == d.listed
           I == {i \in 1 .. Len(s) : \A j \in 1 .. i - 1 : s[j] # s[i]}
<1>1. s \in Seq(T) /\ I \subseteq 1 .. Len(s) /\ Len(s) \in Nat /\ Provided(d) = At(s, I)
  <2>1. Provided(d) = At(s, I)
    BY Zenon DEF Provided
  <2>2. s \in Seq(T) /\ Len(s) \in Nat
    BY LenProperties
  <2>3. I \subseteq 1 .. Len(s)
    BY Zenon
  <2> QED
    BY <2>1, <2>2, <2>3, Zenon
<1>2. Provided(d) \in Seq(T) /\ ToSet(Provided(d)) = {s[i] : i \in I}
  <2>1. At(s, I) \in Seq(T) /\ ToSet(At(s, I)) = {s[i] : i \in I}
    <3> HIDE DEF s, I
    <3> QED
      BY <1>1, AtIs
  <2> QED
    BY <1>1, <2>1, Zenon
<1>3. ASSUME NEW x \in ToSet(s) PROVE \E i \in I : x = s[i]
  <2> DEFINE T0 == {i \in 1 .. Len(s) : s[i] = x}
  <2>1. T0 \subseteq Nat /\ T0 # {}
    BY <1>1 DEF ToSet
  <2>2. PICK i \in T0 : \A j \in T0 : i <= j
    <3> HIDE DEF T0
    <3> QED
      BY <2>1, Least
  <2>3. ASSUME NEW j \in 1 .. i - 1 PROVE s[j] # s[i]
    <3>1. i \in 1 .. Len(s) /\ s[i] = x
      BY <2>2
    <3>2. j \in 1 .. Len(s) /\ ~(i <= j)
      BY <1>1, <3>1
    <3> QED
      BY <2>2, <3>1, <3>2
  <2> QED
    BY <2>2, <2>3
<1>4. {s[i] : i \in I} \subseteq ToSet(s)
  BY <1>1 DEF ToSet
<1>5. {s[i] : i \in I} = ToSet(s)
  BY <1>3, <1>4
<1> QED
  BY <1>2, <1>5

(***************************************************************************)
(* The registry.                                                           *)
(***************************************************************************)

\* Its rules are parts and sections, and no rule is none of them.
LEMMA RulesAre == /\ \A r \in Rules : r = <<r[1], r[2]>>
                  /\ NoRule \notin Rules
                  /\ \A p : Part(p) = <<p, "">>
<1>1. Rules = {Part(p) : p \in {"1261", "1303", "1278a", "1501", "1307", "1252"}}
              \cup {<<"1107", "21">>, <<"1303", "2">>, <<"1261", "2">>}
  BY DEF Rules, TypeOf
<1>2. \A p : Part(p) = <<p, "">>
  BY DEF Part
<1>3. ASSUME NEW r \in Rules PROVE r = <<r[1], r[2]>> /\ r # NoRule
  <2>1. CASE r \in {<<"1107", "21">>, <<"1303", "2">>, <<"1261", "2">>}
    <3>1. r = <<"1107", "21">> \/ r = <<"1303", "2">> \/ r = <<"1261", "2">>
      BY <2>1
    <3>2. NoRule = <<"none", "">>
      BY DEF NoRule
    <3>3. CASE r = <<"1107", "21">>
      BY <3>2, <3>3
    <3>4. CASE r = <<"1303", "2">>
      BY <3>2, <3>4
    <3>5. CASE r = <<"1261", "2">>
      BY <3>2, <3>5
    <3> QED
      BY <3>1, <3>3, <3>4, <3>5
  <2>2. CASE r \in {Part(p) : p \in {"1261", "1303", "1278a", "1501", "1307", "1252"}}
    <3>1. PICK p \in {"1261", "1303", "1278a", "1501", "1307", "1252"} : r = <<p, "">>
      BY <1>2, <2>2
    <3> QED
      BY <3>1 DEF NoRule
  <2> QED
    BY <1>1, <2>1, <2>2
<1> QED
  BY <1>2, <1>3

\* What a product may require is a rule that may be cited.
LEMMA MayBeRequired ==
  \A p \in {"1278a", "1261", "1303", "1307", "1501"} : Part(p) \in Rules /\ Citable(Part(p))
<1> SUFFICES ASSUME NEW p \in {"1278a", "1261", "1303", "1307", "1501"}
             PROVE  Part(p) \in Rules /\ Citable(Part(p))
  OBVIOUS
<1>1. Part(p) \in Rules
  BY DEF Rules, TypeOf
<1>2. TypeOf[Part(p)] = CASE Part(p)[1] \in {"1501", "1307"}       -> "conditional"
                          [] Part(p)[1] = "1252"                   -> "exemption"
                          [] Part(p)[1] = "1107"                   -> "procedural"
                          [] Part(p)[2] = "2"                      -> "definition"
                          [] OTHER                                 -> "substantive"
  BY <1>1 DEF Rules, TypeOf
<1>3. Part(p)[1] = p /\ Part(p)[2] = ""
  BY DEF Part
<1>4. TypeOf[Part(p)] \in {"substantive", "conditional"}
  BY <1>2, <1>3
<1> QED
  BY <1>1, <1>4 DEF Citable

LEMMA RequiredAre ==
  ASSUME NEW p, NEW r \in Required(p)
  PROVE  r \in ToSet(Sorted) /\ r \in Rules /\ Citable(r)
<1>1. r \in {Part(q) : q \in {"1278a", "1261", "1303", "1307", "1501"}}
  BY DEF Required
<1>2. /\ Sorted[1] = Part("1278a") /\ Sorted[2] = Part("1261") /\ Sorted[3] = Part("1303")
      /\ Sorted[4] = Part("1307") /\ Sorted[5] = Part("1501") /\ DOMAIN Sorted = 1 .. 5
  BY DEF Sorted
<1>3. {Part(q) : q \in {"1278a", "1261", "1303", "1307", "1501"}} \subseteq ToSet(Sorted)
  BY <1>2 DEF ToSet
<1> QED
  BY <1>1, <1>3, MayBeRequired

LEMMA AliasesAre == /\ Aliases \in Seq(ToSet(Aliases)) /\ Len(Aliases) = 4
                    /\ \A a \in ToSet(Aliases) : AliasOf[a] \in Rules \cup {NoRule}
<1>1. /\ Len(Aliases) = 4 /\ DOMAIN Aliases = 1 .. 4
      /\ Aliases[1] = "Section 101" /\ Aliases[2] = "Section 108"
      /\ Aliases[3] = "ASTM F2057" /\ Aliases[4] = "ASTM F963"
  BY DEF Aliases
<1>2. Aliases \in Seq(ToSet(Aliases))
  <2>1. \A i \in 1 .. 4 : Aliases[i] \in ToSet(Aliases)
    BY <1>1 DEF ToSet
  <2>2. Aliases = <<Aliases[1], Aliases[2], Aliases[3], Aliases[4]>>
    BY <1>1 DEF Aliases
  <2>3. \A a, b, e, f \in ToSet(Aliases) : <<a, b, e, f>> \in Seq(ToSet(Aliases))
    OBVIOUS
  <2>4. /\ Aliases[1] \in ToSet(Aliases) /\ Aliases[2] \in ToSet(Aliases)
        /\ Aliases[3] \in ToSet(Aliases) /\ Aliases[4] \in ToSet(Aliases)
    BY <2>1
  <2>5. <<Aliases[1], Aliases[2], Aliases[3], Aliases[4]>> \in Seq(ToSet(Aliases))
    BY <2>3, <2>4
  <2> QED
    BY <2>2, <2>5, Zenon
<1>3. ASSUME NEW a \in ToSet(Aliases) PROVE AliasOf[a] \in Rules \cup {NoRule}
  <2>1. a \in {"Section 101", "Section 108", "ASTM F2057", "ASTM F963"}
    <3>1. PICK i \in 1 .. 4 : a = Aliases[i]
      BY <1>1 DEF ToSet
    <3>2. i = 1 \/ i = 2 \/ i = 3 \/ i = 4
      OBVIOUS
    <3> QED
      BY <1>1, <3>1, <3>2
  <2>2. AliasOf[a] = CASE a = "Section 101" -> Part("1278a")
                       [] a = "Section 108" -> Part("1307")
                       [] a = "ASTM F2057"  -> Part("1261")
                       [] a = "ASTM F963"   -> NoRule
    BY DEF AliasOf
  <2>3. AliasOf[a] \in {Part("1278a"), Part("1307"), Part("1261"), NoRule}
    BY <2>1, <2>2
  <2> QED
    BY <2>3, MayBeRequired
<1> QED
  BY <1>1, <1>2, <1>3

\* The code's way of looking finds what a citation names.
LEMMA NormalizeFinds ==
  ASSUME NEW c \in CitationKinds
  PROVE  /\ Normalize(c) \in Rules \cup {NoRule}
         /\ \A r \in Rules : Names(c, r) <=> Normalize(c) = r
<1>1. c.foreign \in BOOLEAN /\ c.aliases \subseteq ToSet(Aliases)
  BY DEF CitationKinds
<1>2. CASE c.foreign
  BY <1>2, RulesAre DEF Normalize, Names
<1>3. CASE ~c.foreign /\ c.aliases # {}
  <2> DEFINE I == {i \in 1 .. Len(Aliases) : Aliases[i] \in c.aliases}
  <2>1. Occurring(c) = At(Aliases, I) /\ I \subseteq 1 .. Len(Aliases) /\ I \subseteq Nat
    BY DEF Occurring, Among
  <2>2. I # {}
    BY <1>1, <1>3, AliasesAre DEF ToSet
  <2>3. PICK i \in I : \A j \in I : i <= j
    <3> HIDE DEF I
    <3> QED
      BY <2>1, <2>2, Least
  <2>4. Occurring(c) # <<>> /\ Head(Occurring(c)) = Aliases[i]
    <3> HIDE DEF I
    <3>1. Aliases \in Seq(ToSet(Aliases))
      BY AliasesAre
    <3>2. /\ At(Aliases, I) = <<>> <=> I = {}
          /\ \A k \in I : (\A j \in I : k <= j) => Head(At(Aliases, I)) = Aliases[k]
      BY <2>1, <3>1, AtIs
    <3> QED
      BY <2>1, <2>2, <2>3, <3>2
  <2>5. Normalize(c) = AliasOf[Aliases[i]]
    BY <1>3, <2>4 DEF Normalize
  <2>6. Aliases[i] \in ToSet(Aliases) /\ Aliases[i] \in c.aliases /\ i \in 1 .. Len(Aliases)
    BY <1>1, <2>3
  <2>7. \A j \in 1 .. i - 1 : Aliases[j] \notin c.aliases
    <3> SUFFICES ASSUME NEW j \in 1 .. i - 1, Aliases[j] \in c.aliases PROVE FALSE
      OBVIOUS
    <3>1. j \in I /\ ~(i <= j)
      BY <2>6, AliasesAre
    <3> QED
      BY <2>3, <3>1
  <2>8. ASSUME NEW k \in 1 .. Len(Aliases), Aliases[k] \in c.aliases,
               \A j \in 1 .. k - 1 : Aliases[j] \notin c.aliases
        PROVE  k = i
    <3>1. k \in I /\ i <= k
      BY <2>3, <2>8
    <3>2. k \in Nat /\ i \in Nat
      BY <2>6, AliasesAre
    <3>3. ~(i < k)
      <4>1. i < k => i \in 1 .. k - 1
        BY <2>6, <3>2
      <4> QED
        BY <2>6, <2>8, <4>1
    <3> QED
      BY <3>1, <3>2, <3>3
  <2>9. \A r : Names(c, r) <=> r = AliasOf[Aliases[i]]
    <3> HIDE DEF I
    <3> QED
      BY <1>3, <2>6, <2>7, <2>8 DEF Names
  <2> QED
    BY <2>5, <2>6, <2>9, AliasesAre
<1>4. CASE ~c.foreign /\ c.aliases = {}
  <2>1. Occurring(c) = <<>>
    <3>1. {i \in 1 .. Len(Aliases) : Aliases[i] \in c.aliases} = {}
      BY <1>4
    <3>2. {} \subseteq 1 .. Len(Aliases)
      OBVIOUS
    <3> QED
      BY <3>1, <3>2, AliasesAre, AtIs DEF Occurring, Among
  <2>2. Normalize(c) = MatchPart(c)
    BY <1>4, <2>1 DEF Normalize
  <2>3. ASSUME NEW r \in Rules
        PROVE  Names(c, r) <=> /\ r[1] = c.part
                               /\ r[2] = c.section \/ (r[2] = "" /\ <<c.part, c.section>> \notin Rules)
    BY <1>4 DEF Names
  <2>4. ASSUME NEW r \in Rules PROVE Names(c, r) <=> MatchPart(c) = r
    <3>1. r = <<r[1], r[2]>> /\ NoRule \notin Rules /\ Part(c.part) = <<c.part, "">>
      BY RulesAre
    <3> QED
      BY <2>3, <3>1 DEF MatchPart
  <2> QED
    BY <2>2, <2>4 DEF MatchPart
<1> QED
  BY <1>1, <1>2, <1>3, <1>4

(***************************************************************************)
(* The report.                                                             *)
(***************************************************************************)

\* The parts of a report.
LEMMA ReportIs ==
  ASSUME NEW d \in DocumentKinds
  PROVE  /\ Report(d).required = Required(WorkflowProfile(d))
         /\ Report(d).covered = {r \in {Normalize(c) : c \in ToSet(d.listed)} : Citable(r)}
         /\ Report(d).missing \in Seq(ToSet(Sorted))
         /\ ToSet(Report(d).missing) = Report(d).required \ Report(d).covered
         /\ Report(d).invalid \in Seq(CitationKinds)
         /\ ToSet(Report(d).invalid) = {c \in ToSet(d.listed) : Normalize(c) = NoRule}
         /\ ToSet(Report(d).nonCitable) =
              {c \in ToSet(d.listed) : Normalize(c) # NoRule /\ ~Citable(Normalize(c))}
         /\ Report(d).recommended \in BOOLEAN
<1> DEFINE provided == Provided(d)
           required == Required(WorkflowProfile(d))
           covered == {r \in {Normalize(c) : c \in ToSet(provided)} : Citable(r)}
           none == {c \in ToSet(provided) : Normalize(c) = NoRule}
           other == {c \in ToSet(provided) : Normalize(c) # NoRule /\ ~Citable(Normalize(c))}
<1>1. d.listed \in Seq(CitationKinds) /\ d.vision \in BOOLEAN
  BY FieldsAre
<1>2. provided \in Seq(CitationKinds) /\ ToSet(provided) = ToSet(d.listed)
  BY <1>1, ProvidedIs
<1>3. /\ Report(d).required = required /\ Report(d).covered = covered
      /\ Report(d).missing = Among(Sorted, required \ covered)
      /\ Report(d).invalid = Among(provided, none)
      /\ Report(d).nonCitable = Among(provided, other)
      /\ Report(d).recommended \in BOOLEAN
  BY DEF Report
<1>4. /\ Among(provided, none) \in Seq(CitationKinds)
      /\ ToSet(Among(provided, none)) = ToSet(provided) \cap none
      /\ ToSet(Among(provided, other)) = ToSet(provided) \cap other
  <2> HIDE DEF provided, none, other
  <2> QED
    BY <1>2, AmongIs
<1>5. Sorted \in Seq(ToSet(Sorted))
  <2>1. /\ Len(Sorted) = 5 /\ DOMAIN Sorted = 1 .. 5
        /\ Sorted = <<Sorted[1], Sorted[2], Sorted[3], Sorted[4], Sorted[5]>>
    BY DEF Sorted
  <2>2. \A i \in 1 .. 5 : Sorted[i] \in ToSet(Sorted)
    BY <2>1 DEF ToSet
  <2>3. \A a, b, e, f, g \in ToSet(Sorted) : <<a, b, e, f, g>> \in Seq(ToSet(Sorted))
    OBVIOUS
  <2>4. /\ Sorted[1] \in ToSet(Sorted) /\ Sorted[2] \in ToSet(Sorted)
        /\ Sorted[3] \in ToSet(Sorted) /\ Sorted[4] \in ToSet(Sorted) /\ Sorted[5] \in ToSet(Sorted)
    BY <2>2
  <2>5. <<Sorted[1], Sorted[2], Sorted[3], Sorted[4], Sorted[5]>> \in Seq(ToSet(Sorted))
    BY <2>3, <2>4
  <2> QED
    BY <2>1, <2>5, Zenon
<1>6. /\ Among(Sorted, required \ covered) \in Seq(ToSet(Sorted))
      /\ ToSet(Among(Sorted, required \ covered)) = required \ covered
  <2>1. required \subseteq ToSet(Sorted)
    BY RequiredAre
  <2> HIDE DEF required, covered
  <2> QED
    BY <1>5, <2>1, AmongIs
<1> HIDE DEF provided
<1> QED
  BY <1>2, <1>3, <1>4, <1>6

\* What the report says is what is so.
LEMMA ReportTells ==
  ASSUME NEW d \in DocumentKinds, NEW rep, rep = Report(d)
  PROVE  /\ \A r \in rep.required :
              r \in ToSet(rep.missing) <=> ~\E c \in ToSet(d.listed) : Names(c, r)
         /\ \A c \in ToSet(d.listed) :
              /\ c \in ToSet(rep.invalid) <=> ~\E r \in Rules : Names(c, r)
              /\ c \in ToSet(rep.nonCitable)
                   <=> \E r \in Rules : Names(c, r) /\ ~Citable(r)
         /\ rep.covered \cap ToSet(rep.missing) = {}
<1>1. /\ rep.required = Required(WorkflowProfile(d))
      /\ rep.covered = {r \in {Normalize(c) : c \in ToSet(d.listed)} : Citable(r)}
      /\ ToSet(rep.missing) = rep.required \ rep.covered
      /\ ToSet(rep.invalid) = {c \in ToSet(d.listed) : Normalize(c) = NoRule}
      /\ ToSet(rep.nonCitable) =
           {c \in ToSet(d.listed) : Normalize(c) # NoRule /\ ~Citable(Normalize(c))}
  BY ReportIs
<1>2. \A c \in ToSet(d.listed) : c \in CitationKinds
  <2>1. d.listed \in Seq(CitationKinds)
    BY FieldsAre
  <2> QED
    BY <2>1 DEF ToSet
<1>3. ASSUME NEW c \in ToSet(d.listed)
      PROVE  /\ Normalize(c) \in Rules \cup {NoRule}
             /\ \A r \in Rules : Names(c, r) <=> Normalize(c) = r
  BY <1>2, NormalizeFinds
<1>4. ASSUME NEW r \in rep.required
      PROVE  r \in ToSet(rep.missing) <=> ~\E c \in ToSet(d.listed) : Names(c, r)
  <2>1. r \in Rules /\ Citable(r)
    BY <1>1, RequiredAre
  <2> QED
    BY <1>1, <1>3, <2>1
<1>5. ASSUME NEW c \in ToSet(d.listed)
      PROVE  /\ c \in ToSet(rep.invalid) <=> ~\E r \in Rules : Names(c, r)
             /\ c \in ToSet(rep.nonCitable)
                  <=> \E r \in Rules : Names(c, r) /\ ~Citable(r)
  BY <1>1, <1>3, RulesAre
<1> QED
  BY <1>1, <1>4, <1>5

(***************************************************************************)
(* The profiles.                                                           *)
(***************************************************************************)

\* What re.search finds is one of those that are there.
LEMMA FirstIs ==
  ASSUME NEW d \in DocumentKinds, NEW places \in Seq(Places),
         NEW found, found \subseteq 1 .. Len(d.ages), found # {},
         \A i \in found : d.ages[i].at \in ToSet(places)
  PROVE  First(d, places, found) \in found
<1> DEFINE turn(i) == Turn(places, d.ages[i].at)
           turns == {turn(i) : i \in found}
<1>1. found \subseteq Nat
  <2>1. Len(d.ages) \in Nat
    BY FieldsAre
  <2> QED
    BY <2>1
<1>2. \A i \in found : turn(i) \in Nat
  <2> SUFFICES ASSUME NEW i \in found PROVE turn(i) \in Nat
    OBVIOUS
  <2>1. \E k \in 1 .. Len(places) : places[k] = d.ages[i].at
    BY DEF ToSet
  <2>2. turn(i) \in 1 .. Len(places)
    BY <2>1 DEF Turn
  <2> QED
    BY <2>2
<1>3. turns \subseteq Nat /\ turns # {}
  BY <1>2
<1>4. PICK k \in turns : \A l \in turns : k <= l
  BY <1>3, Least
<1> DEFINE heads == {i \in found : turn(i) = k}
<1>5. heads \subseteq Nat /\ heads # {}
  BY <1>1, <1>4
<1> HIDE DEF heads
<1>6. PICK i \in heads : \A j \in heads : i <= j
  BY <1>5, Least
<1>7. i \in found /\ turn(i) = k
  BY <1>6 DEF heads
<1> HIDE DEF turn
<1>8. \A j \in found : turn(i) < turn(j) \/ (turn(i) = turn(j) /\ i <= j)
  <2> SUFFICES ASSUME NEW j \in found, turn(j) # k PROVE k < turn(j)
    BY <1>6, <1>7 DEF heads
  <2>1. turn(j) \in turns
    OBVIOUS
  <2>2. k <= turn(j) /\ k \in Nat /\ turn(j) \in Nat
    BY <1>2, <1>3, <1>4, <2>1
  <2> QED
    BY <2>2
<1> QED
  BY <1>7, <1>8 DEF First, turn

\* Where either code looks are places of a document.
LEMMA PlacesAre ==
  ASSUME NEW d \in DocumentKinds, NEW source \in Sources
  PROVE  /\ WorkflowPlaces(d) \in Seq(Places) /\ DescribedBy(d) \in ToSet(WorkflowPlaces(d))
         /\ ToolPlaces(d, source) \in Seq(Places)
<1>1. DescribedBy(d) \in Places
  BY DEF DescribedBy, Places
<1>2. WorkflowPlaces(d) \in Seq(Places) /\ WorkflowPlaces(d)[4] = DescribedBy(d)
      /\ Len(WorkflowPlaces(d)) = 4
  BY <1>1 DEF WorkflowPlaces, Places
<1>3. DescribedBy(d) \in ToSet(WorkflowPlaces(d))
  BY <1>2 DEF ToSet
<1>4. /\ <<"name", "age_grade", "age_range">> \in Seq(Places) /\ <<"text">> \in Seq(Places)
      /\ <<"label", "text">> \in Seq(Places)
      /\ <<"label">> \in Seq(Places) /\ <<"description">> \in Seq(Places)
  BY DEF Places
<1>5. \A s, t \in Seq(Places) : s \o t \in Seq(Places)
  OBVIOUS
<1>6. ToolPlaces(d, source) \in Seq(Places)
  <2>1. CASE source = "data"
    BY <1>4, <1>5, <2>1 DEF ToolPlaces
  <2>2. CASE source = "both"
    BY <1>4, <1>5, <2>2 DEF ToolPlaces
  <2>3. CASE source = "text"
    BY <1>4, <2>3 DEF ToolPlaces
  <2> QED
    BY <2>1, <2>2, <2>3 DEF Sources
<1> QED
  BY <1>2, <1>3, <1>6

\* The age the workflow goes by is that of a statement it reads.
LEMMA StatedAgeIs ==
  ASSUME NEW d \in DocumentKinds
  PROVE  /\ WorkflowReads(d) \subseteq Statements
         /\ WorkflowReads(d) = {} => StatedAge(d) = Unknown
         /\ WorkflowReads(d) # {} => \E s \in WorkflowReads(d) : StatedAge(d) = s.high
<1> DEFINE places == WorkflowPlaces(d)
           ranges == Found(d, places, {"low-high"}, TRUE)
           unders == Found(d, places, {"under high"}, TRUE)
           both == Found(d, places, {"low-high", "under high"}, TRUE)
           first(found) == d.ages[First(d, places, found)]
<1>1. places \in Seq(Places)
  BY PlacesAre DEF Sources
<1>2. both = ranges \cup unders /\ both \subseteq 1 .. Len(d.ages)
      /\ \A i \in both : d.ages[i].at \in ToSet(places)
  BY DEF Found
<1>3. WorkflowReads(d) = {d.ages[i] : i \in both}
  BY DEF WorkflowReads
<1>4. StatedAge(d) = CASE ranges # {} -> first(ranges).high
                       [] ranges = {} /\ unders # {} -> first(unders).high
                       [] OTHER -> Unknown
  BY DEF StatedAge
<1>5. \A i \in 1 .. Len(d.ages) : d.ages[i] \in Statements
  BY FieldsAre
<1> HIDE DEF places, ranges, unders, both
<1>6. ranges # {} => First(d, places, ranges) \in ranges
  BY <1>1, <1>2, FirstIs
<1>7. unders # {} => First(d, places, unders) \in unders
  BY <1>1, <1>2, FirstIs
<1>8. WorkflowReads(d) \subseteq Statements
  BY <1>2, <1>3, <1>5
<1>9. WorkflowReads(d) = {} => StatedAge(d) = Unknown
  BY <1>2, <1>3, <1>4
<1>10. ASSUME WorkflowReads(d) # {} PROVE \E s \in WorkflowReads(d) : StatedAge(d) = s.high
  <2>1. CASE ranges # {}
    BY <1>2, <1>3, <1>4, <1>6, <2>1
  <2>2. CASE ranges = {}
    <3>1. unders # {}
      BY <1>2, <1>3, <1>10, <2>2
    <3> QED
      BY <1>2, <1>3, <1>4, <1>7, <2>2, <3>1
  <2> QED
    BY <2>1, <2>2
<1> QED
  BY <1>8, <1>9, <1>10

\* The ages the tool goes by, when no field overrides what it was given.
LEMMA ToolAgesAre ==
  ASSUME NEW d \in DocumentKinds, NEW source \in Sources,
         FieldAges(d, source) = [low |-> Unknown, high |-> Unknown]
  PROVE  LET ages == ToolAges(d, source)
             sees == ToolSees(d, source)
         IN
         /\ sees \subseteq Statements
         /\ \/ ages.low = Unknown /\ ages.high = Unknown
            \/ \E s \in sees : ages.high = s.high \/ (ages.high = Unknown /\ s.form = "low+")
         /\ (\E s \in sees : s.form \in {"low-high", "under high"}) =>
              \E s \in sees : ages.high = s.high
<1> DEFINE ages == ToolAges(d, source)
           sees == ToolSees(d, source)
           places == ToolPlaces(d, source)
           of(forms, unit) == Found(d, places, forms, unit)
           one(found) == d.ages[First(d, places, found)]
           ranges == of({"low-high"}, FALSE)
           unders == of({"under high", "below high"}, FALSE)
           froms == of({"low+"}, FALSE)
           tos == of({"high and under"}, TRUE)
           all == of(AgeForms, FALSE)
<1>1. places \in Seq(Places)
  BY PlacesAre
<1>2. /\ ranges \subseteq all /\ unders \subseteq all /\ froms \subseteq all /\ tos \subseteq all
      /\ all \subseteq 1 .. Len(d.ages) /\ \A i \in all : d.ages[i].at \in ToSet(places)
  BY DEF Found, AgeForms
<1>3. sees = {d.ages[i] : i \in all}
  BY DEF ToolSees
<1>4. ages = IF ranges # {} THEN [low |-> one(ranges).low, high |-> one(ranges).high]
             ELSE IF unders # {} THEN [low |-> 0, high |-> one(unders).high]
             ELSE IF froms # {} THEN [low |-> one(froms).low, high |-> Unknown]
             ELSE IF tos # {} THEN [low |-> 0, high |-> one(tos).high]
             ELSE [low |-> Unknown, high |-> Unknown]
  <2> DEFINE fields == FieldAges(d, source)
  <2>1. ages = IF fields.low # Unknown \/ fields.high # Unknown THEN fields
               ELSE IF ranges # {} THEN [low |-> one(ranges).low, high |-> one(ranges).high]
               ELSE IF unders # {} THEN [low |-> 0, high |-> one(unders).high]
               ELSE IF froms # {} THEN [low |-> one(froms).low, high |-> Unknown]
               ELSE IF tos # {} THEN [low |-> 0, high |-> one(tos).high]
               ELSE fields
    BY Zenon DEF ToolAges
  <2>2. fields = [low |-> Unknown, high |-> Unknown]
    OBVIOUS
  <2>3. fields.low = Unknown /\ fields.high = Unknown
    BY <2>2
  <2> HIDE DEF fields, ranges, unders, froms, tos, one
  <2> QED
    BY <2>1, <2>2, <2>3
<1>5. \A i \in 1 .. Len(d.ages) : d.ages[i] \in Statements
  BY FieldsAre
<1>6. \A i \in froms : d.ages[i].form = "low+"
  BY DEF Found
<1>7. \A i \in all : d.ages[i].form \in {"low-high", "under high"} => i \in ranges \cup unders
  BY DEF Found
<1> HIDE DEF places, ranges, unders, froms, tos, all, ages, sees
<1>8. ASSUME NEW found \in {ranges, unders, froms, tos}, found # {}
      PROVE  First(d, places, found) \in found
  BY <1>1, <1>2, <1>8, FirstIs
<1>9. ASSUME NEW found \in {ranges, unders, froms, tos}, found # {}
      PROVE  one(found) \in sees
  BY <1>2, <1>3, <1>8, <1>9
<1>10. sees \subseteq Statements
  BY <1>2, <1>3, <1>5
<1>11. ranges # {} => ages.high = one(ranges).high
  BY <1>4
<1>12. ranges = {} /\ unders # {} => ages.high = one(unders).high
  BY <1>4
<1>13. ranges = {} /\ unders = {} /\ froms # {} =>
         ages.high = Unknown /\ one(froms).form = "low+"
  BY <1>4, <1>6, <1>8
<1>14. ranges = {} /\ unders = {} /\ froms = {} /\ tos # {} => ages.high = one(tos).high
  BY <1>4
<1>15. ranges = {} /\ unders = {} /\ froms = {} /\ tos = {} =>
         ages.low = Unknown /\ ages.high = Unknown
  BY <1>4
<1>16. (\E s \in sees : s.form \in {"low-high", "under high"}) => ranges # {} \/ unders # {}
  BY <1>3, <1>7
<1> HIDE DEF one
<1> QED
  BY <1>9, <1>10, <1>11, <1>12, <1>13, <1>14, <1>15, <1>16 DEF ages, sees

\* Why the two profiles of one document differ where they do.
LEMMA ProfilesCompare ==
  ASSUME NEW d \in DocumentKinds, NEW source \in Sources
  PROVE  Explained(d, source, Required(WorkflowProfile(d)), ToolProfile(d, source))
<1> DEFINE p == WorkflowProfile(d)
           ages == ToolAges(d, source)
           rules == Required(p)
           t == ToolProfile(d, source)
           places == ToSet(ToolPlaces(d, source))
           reads == WorkflowReads(d)
           sees == ToolSees(d, source)
           fields == FieldAges(d, source)
<1>1. Part("1307") \in rules => p.toy \/ p.childCare
  BY DEF Required, Part
<1>2. Part("1501") \in rules <=> p.age # Unknown /\ p.age < 36
  BY DEF Required, Part
<1>3. /\ p.age = StatedAge(d)
      /\ p.childCare = (d.words[DescribedBy(d)] \cap {"dresser", "crib"} # {})
      /\ p.toy => "toy" \in d.words[DescribedBy(d)]
  BY DEF WorkflowProfile
<1>4. /\ t.childrens <=> IF ages.high # Unknown THEN ages.high <= 36
                       ELSE ages.low # Unknown /\ ages.low <= 36
      /\ t.childCare <=> IsChildCare(d, source)
      /\ t.toy <=> IsToy(d, source)
  BY DEF ToolProfile
<1>5. ASSUME Part("1307") \in rules, ~(d.category # "" /\ source # "text"),
             DescribedBy(d) \in places
      PROVE  t.toy \/ t.childCare
  <2>1. d.words[DescribedBy(d)] \subseteq ToolWords(d, source)
    BY <1>5 DEF ToolWords
  <2>2. ToolCategory(d, source)
          = IF ToolWords(d, source) \cap {"dresser", "crib", "child care article"} # {}
            THEN "child care"
            ELSE IF ToolWords(d, source) \cap {"toy", "plush"} # {} THEN "toy" ELSE ""
    BY <1>5 DEF ToolCategory
  <2> HIDE DEF p
  <2>3. CASE ToolWords(d, source) \cap {"dresser", "crib", "child care article"} # {}
    BY <1>4, <2>2, <2>3 DEF IsChildCare
  <2>4. CASE ToolWords(d, source) \cap {"dresser", "crib", "child care article"} = {}
    <3>1. "toy" \in ToolWords(d, source)
      BY <1>1, <1>3, <1>5, <2>1, <2>4
    <3>2. ToolCategory(d, source) = "toy"
      BY <2>2, <2>4, <3>1
    <3> QED
      BY <1>4, <3>2 DEF IsToy
  <2> QED
    BY <2>3, <2>4
<1>6. /\ reads \subseteq Statements
      /\ reads = {} => StatedAge(d) = Unknown
      /\ reads # {} => \E s \in reads : StatedAge(d) = s.high
  BY StatedAgeIs
<1>7. \A s \in Statements : s.high \in Nat /\ s.low \in Nat /\ s.high # Unknown
  BY DEF Statements, Unknown
<1>10. fields = [low |-> Unknown, high |-> Unknown] =>
         /\ sees \subseteq Statements
         /\ \/ ages.low = Unknown /\ ages.high = Unknown
            \/ \E s \in sees : ages.high = s.high \/ (ages.high = Unknown /\ s.form = "low+")
         /\ (\E s \in sees : s.form \in {"low-high", "under high"}) =>
              \E s \in sees : ages.high = s.high
  BY ToolAgesAre
<1>8. ASSUME fields = [low |-> Unknown, high |-> Unknown], Part("1501") \in rules, ~t.childrens,
             \A s \in reads : s.high < 36 => s.at \in places
      PROVE  \E s \in reads, u \in sees : s.high < 36 /\ u.high > 36
  <2>1. PICK s \in reads : StatedAge(d) = s.high /\ s.high < 36
    BY <1>2, <1>3, <1>6, <1>8
  <2>2. s \in sees /\ s.form \in {"low-high", "under high"}
    <3>1. PICK i \in 1 .. Len(d.ages) :
            s = d.ages[i] /\ d.ages[i].form \in {"low-high", "under high"}
      BY DEF WorkflowReads, Found
    <3>2. d.ages[i].at \in places
      BY <1>8, <2>1, <3>1
    <3> QED
      BY <3>1, <3>2 DEF ToolSees, Found, AgeForms
  <2>3. PICK u \in sees : ages.high = u.high
    BY <1>8, <1>10, <2>2
  <2>4. u \in Statements
    BY <1>8, <1>10
  <2> HIDE DEF ages
  <2>5. u.high > 36
    BY <1>4, <1>7, <1>8, <2>3, <2>4
  <2> QED
    BY <2>1, <2>5
<1>9. ASSUME fields = [low |-> Unknown, high |-> Unknown], Part("1501") \notin rules, t.childrens,
             \A s \in sees : s \in reads
      PROVE  \E s, u \in reads : s.high <= 36 /\ u.high >= 36
  <2>1. \A s \in reads : s.form # "low+"
    BY DEF WorkflowReads, Found
  <2>2. /\ sees \subseteq Statements
        /\ \/ ages.low = Unknown /\ ages.high = Unknown
           \/ \E s \in sees : ages.high = s.high \/ (ages.high = Unknown /\ s.form = "low+")
    BY <1>9, <1>10
  <2> HIDE DEF ages
  <2>3. PICK s \in sees : ages.high = s.high
    BY <1>4, <1>9, <2>1, <2>2
  <2>4. s \in reads /\ s.high <= 36
    BY <1>4, <1>7, <1>9, <2>2, <2>3
  <2>5. PICK u \in reads : StatedAge(d) = u.high
    BY <1>6, <2>4
  <2>6. u.high \in Nat /\ ~(u.high < 36)
    BY <1>2, <1>3, <1>6, <1>7, <1>9, <2>5
  <2>7. u.high >= 36
    BY <2>6
  <2> QED
    BY <2>4, <2>7
<1> HIDE DEF rules, t, reads, sees, fields
<1> QED
  BY <1>5, <1>8, <1>9 DEF Explained, rules, t, reads, sees, fields

(***************************************************************************)
(* The questions.                                                          *)
(***************************************************************************)

\* The kinds of questions in a list, as AskedAbout has it of queries.
OfKind(kind, s) == {q.of : q \in {x \in ToSet(s) : x.kind = kind}}

AnyQuestion == [kind : {"invalid", "missing"}, of : CitationKinds \cup ToSet(Sorted)]

LEMMA AboutIs ==
  ASSUME NEW kind \in {"invalid", "missing"}, NEW s \in Seq(CitationKinds \cup ToSet(Sorted))
  PROVE  /\ About(kind, s) \in Seq(AnyQuestion) /\ Len(About(kind, s)) = Len(s)
         /\ \A i \in 1 .. Len(s) : About(kind, s)[i].kind = kind /\ About(kind, s)[i].of = s[i]
<1>1. Len(s) \in Nat /\ \A i \in 1 .. Len(s) : s[i] \in CitationKinds \cup ToSet(Sorted)
  OBVIOUS
<1>2. \A i \in 1 .. Len(s) : [kind |-> kind, of |-> s[i]] \in AnyQuestion
  BY <1>1 DEF AnyQuestion
<1>3. ASSUME NEW i \in 1 .. Len(s)
      PROVE  About(kind, s)[i].kind = kind /\ About(kind, s)[i].of = s[i]
  <2>1. About(kind, s)[i] = [kind |-> kind, of |-> s[i]]
    BY DEF About
  <2> QED
    BY <2>1
<1>4. About(kind, s) \in Seq(AnyQuestion) /\ Len(About(kind, s)) = Len(s)
  BY <1>1, <1>2 DEF About
<1> QED
  BY <1>3, <1>4

\* Questions about inv, then about mis, up to a limit: none is left out but
\* at the limit, and of the second none is asked unless all of the first are.
LEMMA CappedIs ==
  ASSUME NEW inv \in Seq(CitationKinds \cup ToSet(Sorted)),
         NEW mis \in Seq(CitationKinds \cup ToSet(Sorted)),
         NEW qs, qs = Capped(About("invalid", inv) \o About("missing", mis))
  PROVE  /\ qs \in Seq(AnyQuestion) /\ Len(qs) <= MaxQueries
         /\ OfKind("missing", qs) = ToSet(mis) \/ Len(qs) = MaxQueries
         /\ OfKind("missing", qs) # {} => OfKind("invalid", qs) = ToSet(inv)
<1> DEFINE a == About("invalid", inv)
           b == About("missing", mis)
           all == a \o b
           top == IF Len(all) < MaxQueries THEN Len(all) ELSE MaxQueries
<1>1. /\ a \in Seq(AnyQuestion) /\ Len(a) = Len(inv)
      /\ b \in Seq(AnyQuestion) /\ Len(b) = Len(mis)
      /\ \A i \in 1 .. Len(inv) : a[i].kind = "invalid" /\ a[i].of = inv[i]
      /\ \A i \in 1 .. Len(mis) : b[i].kind = "missing" /\ b[i].of = mis[i]
  BY AboutIs
<1>2. Len(inv) \in Nat /\ Len(mis) \in Nat /\ MaxQueries \in Nat
  BY CitationAssumption
<1> HIDE DEF a, b
<1>3. /\ all \in Seq(AnyQuestion) /\ Len(all) = Len(inv) + Len(mis)
      /\ \A i \in 1 .. Len(inv) + Len(mis) :
           all[i] = IF i <= Len(inv) THEN a[i] ELSE b[i - Len(inv)]
  <2>1. a \in Seq(AnyQuestion) /\ b \in Seq(AnyQuestion)
    BY <1>1
  <2>2. /\ a \o b \in Seq(AnyQuestion) /\ Len(a \o b) = Len(a) + Len(b)
        /\ \A i \in 1 .. Len(a) + Len(b) :
             (a \o b)[i] = IF i <= Len(a) THEN a[i] ELSE b[i - Len(a)]
    BY <2>1, ConcatProperties
  <2>3. /\ all \in Seq(AnyQuestion) /\ Len(all) = Len(a) + Len(b)
        /\ \A i \in 1 .. Len(a) + Len(b) :
             all[i] = IF i <= Len(a) THEN a[i] ELSE b[i - Len(a)]
    BY <2>2, Zenon
  <2> HIDE DEF all
  <2> QED
    BY <1>1, <2>3
<1>4. qs = SubSeq(all, 1, top)
  BY DEF Capped, a, b
<1> HIDE DEF all
<1>5. /\ top \in Nat /\ top <= MaxQueries /\ top <= Len(inv) + Len(mis)
      /\ top = Len(inv) + Len(mis) \/ top = MaxQueries
  BY <1>2, <1>3
<1> HIDE DEF top
<1>6. /\ qs \in Seq(AnyQuestion) /\ Len(qs) = top
      /\ \A i \in 1 .. top : qs[i] = all[i]
  <2>1. CASE top = 0
    <3>1. SubSeq(all, 1, 0) = <<>>
      BY SubSeqEmpty
    <3> QED
      BY <1>4, <2>1, <3>1
  <2>2. CASE top # 0
    <3>1. top \in 1 .. Len(all) /\ 1 \in 1 .. Len(all) /\ 1 <= top
      BY <1>2, <1>3, <1>5, <2>2
    <3>2. all \in Seq(AnyQuestion)
      BY <1>3
    <3>3. /\ SubSeq(all, 1, top) \in Seq(AnyQuestion)
          /\ Len(SubSeq(all, 1, top)) = top
          /\ \A i \in 1 .. top : SubSeq(all, 1, top)[i] = all[i]
      BY <3>1, <3>2, Prefix
    <3> QED
      BY <1>4, <3>3, Zenon
  <2> QED
    BY <2>1, <2>2
<1>7. ASSUME NEW i \in 1 .. Len(inv), i <= top
      PROVE  i \in 1 .. Len(qs) /\ qs[i].kind = "invalid" /\ qs[i].of = inv[i]
  <2>1. i \in 1 .. Len(inv) + Len(mis) /\ i <= Len(inv) /\ i \in 1 .. top
    BY <1>2, <1>5, <1>7
  <2>2. qs[i] = a[i] /\ i \in 1 .. Len(qs)
    BY <1>3, <1>6, <2>1
  <2>3. a[i].kind = "invalid" /\ a[i].of = inv[i]
    BY <1>1
  <2> QED
    BY <2>2, <2>3
<1>8. ASSUME NEW i \in 1 .. Len(mis), Len(inv) + i <= top
      PROVE  /\ Len(inv) + i \in 1 .. Len(qs)
             /\ qs[Len(inv) + i].kind = "missing" /\ qs[Len(inv) + i].of = mis[i]
  <2>1. /\ Len(inv) + i \in 1 .. Len(inv) + Len(mis) /\ ~(Len(inv) + i <= Len(inv))
        /\ Len(inv) + i \in 1 .. top /\ Len(inv) + i - Len(inv) = i
    BY <1>2, <1>5, <1>8
  <2>2. qs[Len(inv) + i] = b[i] /\ Len(inv) + i \in 1 .. Len(qs)
    BY <1>3, <1>6, <2>1
  <2>3. b[i].kind = "missing" /\ b[i].of = mis[i]
    BY <1>1
  <2> QED
    BY <2>2, <2>3
<1>9. ASSUME NEW j \in 1 .. Len(qs)
      PROVE  \/ j \in 1 .. Len(inv) /\ qs[j].kind = "invalid" /\ qs[j].of = inv[j]
             \/ \E i \in 1 .. Len(mis) : /\ j = Len(inv) + i /\ qs[j].kind = "missing"
                                         /\ qs[j].of = mis[i]
  <2>1. j \in 1 .. top
    BY <1>6
  <2>2. CASE j <= Len(inv)
    <3>1. j \in 1 .. Len(inv) /\ j <= top
      BY <1>2, <1>5, <2>1, <2>2
    <3> QED
      BY <1>7, <3>1
  <2>3. CASE ~(j <= Len(inv))
    <3>1. PICK i \in 1 .. Len(mis) : j = Len(inv) + i
      <4>1. j - Len(inv) \in 1 .. Len(mis) /\ j = Len(inv) + (j - Len(inv))
        BY <1>2, <1>5, <2>1, <2>3
      <4> QED
        BY <4>1
    <3>2. Len(inv) + i <= top
      BY <1>5, <2>1, <3>1
    <3> QED
      BY <1>8, <3>1, <3>2
  <2> QED
    BY <2>2, <2>3
<1>10. \A x \in ToSet(qs) : \E j \in 1 .. Len(qs) : x = qs[j]
  BY <1>6 DEF ToSet
<1>11. \A j \in 1 .. Len(qs) : qs[j] \in ToSet(qs)
  BY <1>6 DEF ToSet
<1>12. OfKind("missing", qs) \subseteq ToSet(mis) /\ OfKind("invalid", qs) \subseteq ToSet(inv)
  <2>1. ASSUME NEW v \in OfKind("missing", qs) PROVE v \in ToSet(mis)
    <3>1. PICK x \in ToSet(qs) : x.kind = "missing" /\ v = x.of
      BY <2>1 DEF OfKind
    <3>2. PICK j \in 1 .. Len(qs) : x = qs[j]
      BY <1>10
    <3>3. PICK i \in 1 .. Len(mis) : v = mis[i]
      BY <1>9, <3>1, <3>2
    <3> QED
      BY <3>3 DEF ToSet
  <2>2. ASSUME NEW v \in OfKind("invalid", qs) PROVE v \in ToSet(inv)
    <3>1. PICK x \in ToSet(qs) : x.kind = "invalid" /\ v = x.of
      BY <2>2 DEF OfKind
    <3>2. PICK j \in 1 .. Len(qs) : x = qs[j]
      BY <1>10
    <3>3. PICK i \in 1 .. Len(inv) : v = inv[i]
      BY <1>9, <3>1, <3>2
    <3> QED
      BY <3>3 DEF ToSet
  <2> QED
    BY <2>1, <2>2
<1>13. ASSUME Len(inv) <= top PROVE OfKind("invalid", qs) = ToSet(inv)
  <2>1. ASSUME NEW v \in ToSet(inv) PROVE v \in OfKind("invalid", qs)
    <3>1. PICK i \in 1 .. Len(inv) : v = inv[i]
      BY <2>1 DEF ToSet
    <3>2. i <= top
      BY <1>2, <1>5, <1>13
    <3>3. qs[i] \in ToSet(qs) /\ qs[i].kind = "invalid" /\ qs[i].of = v
      BY <1>7, <1>11, <3>1, <3>2
    <3> QED
      BY <3>3 DEF OfKind
  <2> QED
    BY <1>12, <2>1
<1>14. ASSUME top = Len(inv) + Len(mis) PROVE OfKind("missing", qs) = ToSet(mis)
  <2>1. ASSUME NEW v \in ToSet(mis) PROVE v \in OfKind("missing", qs)
    <3>1. PICK i \in 1 .. Len(mis) : v = mis[i]
      BY <2>1 DEF ToSet
    <3>2. Len(inv) + i <= top
      BY <1>2, <1>5, <1>14
    <3>3. qs[Len(inv) + i] \in ToSet(qs) /\ qs[Len(inv) + i].kind = "missing"
          /\ qs[Len(inv) + i].of = v
      BY <1>8, <1>11, <3>1, <3>2
    <3> QED
      BY <3>3 DEF OfKind
  <2> QED
    BY <1>12, <2>1
<1>15. ASSUME OfKind("missing", qs) # {} PROVE Len(inv) <= top
  <2>1. PICK x \in ToSet(qs) : x.kind = "missing"
    BY <1>15 DEF OfKind
  <2>2. PICK j \in 1 .. Len(qs) : x = qs[j]
    BY <1>10
  <2>3. PICK i \in 1 .. Len(mis) : j = Len(inv) + i
    BY <1>9, <2>1, <2>2
  <2>4. j \in 1 .. top
    BY <1>6
  <2> QED
    BY <1>2, <1>5, <2>3, <2>4
<1> QED
  BY <1>5, <1>6, <1>13, <1>14, <1>15

\* The questions of a report.
LEMMA QuestionsAre ==
  ASSUME NEW d \in DocumentKinds, NEW rep, rep = Report(d), NEW qs, qs = Questions(rep)
  PROVE  /\ qs \in Seq(AnyQuestion) /\ Len(qs) <= MaxQueries
         /\ OfKind("missing", qs) = ToSet(rep.missing) \/ Len(qs) = MaxQueries
         /\ OfKind("missing", qs) # {} => OfKind("invalid", qs) = ToSet(rep.invalid)
<1>1. rep.invalid \in Seq(CitationKinds) /\ rep.missing \in Seq(ToSet(Sorted))
  BY ReportIs
<1>2. rep.invalid \in Seq(CitationKinds \cup ToSet(Sorted))
      /\ rep.missing \in Seq(CitationKinds \cup ToSet(Sorted))
  BY <1>1
<1> QED
  BY <1>2, CappedIs DEF Questions

(***************************************************************************)
(* The invariant.                                                          *)
(***************************************************************************)

LEMMA InitIInv == Init => IInv
<1> SUFFICES ASSUME Init PROVE IInv
  OBVIOUS
<1>1. document \in DocumentKinds
  BY CitationAssumption DEF Init
<1>2. /\ pc = "medina" /\ told = NotTold /\ report = NoReport /\ queries = <<>>
      /\ evidence = NoEvidence
  BY DEF Init
<1>3. Len(<<>>) = 0 /\ 0 \in Nat
  BY EmptySeq
<1>4. Asked
  BY <1>2, <1>3 DEF Asked, NoEvidence
<1> QED
  BY <1>1, <1>2, <1>4 DEF IInv, NotTold

\* Every step keeps what was said and asked in accord with the document.
LEMMA StepIInv == IInv /\ [Next]_vars => IInv'
<1> SUFFICES ASSUME IInv, [Next]_vars PROVE IInv'
  OBVIOUS
<1>1. /\ document \in DocumentKinds
      /\ pc \in {"medina", "verify", "review", "failed"}
      /\ told = NotTold \/ \E source \in Sources : told = ToolProfile(document, source)
      /\ report = IF pc = "medina" THEN NoReport ELSE Report(document)
      /\ queries \in {<<>>, Questions(report)}
      /\ evidence \in [answered : Nat, grounded : BOOLEAN, error : BOOLEAN]
      /\ evidence.answered <= Len(queries)
      /\ pc = "medina" => queries = <<>>
      /\ pc = "review" =>
           /\ queries = Questions(report) \/ (queries = <<>> /\ ~report.recommended)
           /\ evidence.error \/ evidence.answered = Len(queries)
  BY DEF IInv, Asked
<1>2. Len(<<>>) = 0
  BY EmptySeq
<1>3. pc # "medina" => Len(Questions(report)) \in Nat
  <2> SUFFICES ASSUME pc # "medina" PROVE Len(Questions(report)) \in Nat
    OBVIOUS
  <2>1. Questions(report) \in Seq(AnyQuestion)
    BY <1>1, QuestionsAre
  <2> QED
    BY <2>1
<1>4. CASE AskProfile
  BY <1>1, <1>4 DEF AskProfile, IInv, Asked
<1>5. CASE Assess
  <2>1. /\ pc = "medina" /\ report' = Report(document)
        /\ pc' = IF report'.recommended THEN "verify" ELSE "review"
        /\ document' = document /\ told' = told /\ queries' = queries /\ evidence' = evidence
    BY <1>5 DEF Assess
  <2>2. queries = <<>> /\ evidence.answered = 0
    BY <1>1, <1>2, <2>1
  <2> QED
    BY <1>1, <1>2, <2>1, <2>2 DEF IInv, Asked
<1>6. CASE Skip
  <2>1. /\ pc = "verify" /\ Questions(report) = <<>> /\ pc' = "review"
        /\ document' = document /\ told' = told /\ report' = report
        /\ queries' = queries /\ evidence' = evidence
    BY <1>6 DEF Skip
  <2>2. queries = <<>> /\ evidence.answered = 0
    BY <1>1, <1>2, <2>1
  <2> QED
    BY <1>1, <1>2, <2>1, <2>2 DEF IInv, Asked
<1>7. CASE Unavailable
  <2>1. /\ pc = "verify" /\ queries = <<>> /\ queries' = Questions(report) /\ pc' = "review"
        /\ evidence' = [evidence EXCEPT !.error = TRUE]
        /\ document' = document /\ told' = told /\ report' = report
    BY <1>7 DEF Unavailable
  <2>2. evidence.answered = 0 /\ Len(Questions(report)) \in Nat
    BY <1>1, <1>2, <1>3, <2>1
  <2>3. /\ evidence' \in [answered : Nat, grounded : BOOLEAN, error : BOOLEAN]
        /\ evidence'.error /\ evidence'.answered = 0
    BY <1>1, <2>1, <2>2
  <2>4. 0 <= Len(Questions(report))
    BY <2>2
  <2> QED
    BY <1>1, <2>1, <2>3, <2>4 DEF IInv, Asked
<1>8. CASE Prepare
  <2>1. /\ pc = "verify" /\ queries = <<>> /\ queries' = Questions(report) /\ pc' = pc
        /\ document' = document /\ told' = told /\ report' = report /\ evidence' = evidence
    BY <1>8 DEF Prepare
  <2>2. evidence.answered = 0 /\ 0 <= Len(Questions(report))
    BY <1>1, <1>2, <1>3, <2>1
  <2> QED
    BY <1>1, <2>1, <2>2 DEF IInv, Asked
<1>9. CASE Answered
  <2>1. /\ pc = "verify" /\ evidence.answered < Len(queries)
        /\ document' = document /\ told' = told /\ report' = report /\ queries' = queries
        /\ pc' = pc
    BY <1>9 DEF Answered
  <2>2. PICK grounded \in BOOLEAN :
          evidence' = [evidence EXCEPT !.answered = @ + 1, !.grounded = @ \/ grounded]
    BY <1>9 DEF Answered
  <2>3. evidence.answered + 1 <= Len(queries)
    BY <1>1, <1>2, <1>3, <2>1
  <2>4. /\ evidence' \in [answered : Nat, grounded : BOOLEAN, error : BOOLEAN]
        /\ evidence'.answered = evidence.answered + 1
    <3>1. evidence' = [evidence EXCEPT !.answered = evidence.answered + 1,
                                       !.grounded = evidence.grounded \/ grounded]
      BY <1>1, <2>2
    <3>2. (evidence.grounded \/ grounded) \in BOOLEAN /\ evidence.answered + 1 \in Nat
      BY <1>1
    <3> QED
      BY <1>1, <3>1, <3>2
  <2> QED
    BY <1>1, <2>1, <2>3, <2>4 DEF IInv, Asked
<1>10. CASE Raises
  <2>1. /\ pc = "verify" /\ evidence' = NoEvidence /\ pc' = "failed"
        /\ document' = document /\ told' = told /\ report' = report /\ queries' = queries
    BY <1>10 DEF Raises
  <2>2. Len(queries) \in Nat
    BY <1>1, <1>2, <1>3, <2>1
  <2>3. 0 <= Len(queries)
    BY <2>2
  <2> QED
    BY <1>1, <2>1, <2>3 DEF IInv, Asked, NoEvidence
<1>11. CASE Return
  BY <1>1, <1>2, <1>11 DEF Return, IInv, Asked
<1>12. CASE UNCHANGED vars
  BY <1>1, <1>12 DEF vars, IInv, Asked
<1> QED
  BY <1>4, <1>5, <1>6, <1>7, <1>8, <1>9, <1>10, <1>11, <1>12 DEF Next, Verify

\* What the workflow and the tool say is what their code makes of the same
\* document, and the questions are those of the report, answered in order.
THEOREM Invariance == Spec => []IInv
BY InitIInv, StepIInv, PTL DEF Spec

\* The report says of every citation the one thing that is so, and of every
\* requirement whether a citation names it: for every document, however many
\* citations it lists and however they are spoilt by what they mention.
THEOREM ReportAlwaysExact == Spec => []ReportIsExact
<1>1. IInv => ReportIsExact
  <2> SUFFICES ASSUME IInv, pc \in {"verify", "review", "failed"}
               PROVE  /\ \A r \in report.required :
                           r \in ToSet(report.missing)
                             <=> ~\E c \in ToSet(document.listed) : Names(c, r)
                      /\ \A c \in ToSet(document.listed) :
                           /\ c \in ToSet(report.invalid) <=> ~\E r \in Rules : Names(c, r)
                           /\ c \in ToSet(report.nonCitable)
                                <=> \E r \in Rules : Names(c, r) /\ ~Citable(r)
                      /\ report.covered \cap ToSet(report.missing) = {}
    BY DEF ReportIsExact
  <2>1. document \in DocumentKinds /\ report = Report(document)
    BY DEF IInv
  <2> QED
    BY <2>1, ReportTells
<1> QED
  BY <1>1, Invariance, PTL

\* The workflow and Medina's tool read one document with two codes, and for
\* every document it shows in the document where their conclusions differ.
THEOREM ProfilesAlwaysAgree == Spec => []ProfilesAgree
<1>1. IInv => ProfilesAgree
  <2> SUFFICES ASSUME IInv, told.source # "", report # NoReport PROVE ProfilesAgree
    BY DEF ProfilesAgree
  <2>1. /\ document \in DocumentKinds /\ report = Report(document)
        /\ told = NotTold \/ \E source \in Sources : told = ToolProfile(document, source)
    BY DEF IInv
  <2>2. PICK source \in Sources : told = ToolProfile(document, source)
    <3>1. NotTold.source = ""
      BY DEF NotTold
    <3> QED
      BY <2>1, <3>1
  <2>3. told.source = source
    BY <2>2 DEF ToolProfile
  <2>4. report.required = Required(WorkflowProfile(document))
    BY <2>1, ReportIs
  <2>5. Explained(document, source, report.required, told)
    BY <2>1, <2>2, <2>4, ProfilesCompare
  <2> QED
    BY <2>3, <2>5 DEF ProfilesAgree, Explained
<1> QED
  BY <1>1, Invariance, PTL

\* A review begins with all answers, or with an error, and what was not asked
\* about was over the limit and came last: for every limit.
THEOREM EvidenceAlwaysComplete == Spec => []EvidenceIsComplete
<1>1. IInv => EvidenceIsComplete
  <2> SUFFICES ASSUME IInv, pc = "review" PROVE EvidenceIsComplete
    BY DEF EvidenceIsComplete
  <2>1. /\ document \in DocumentKinds /\ report = Report(document)
        /\ queries = Questions(report) \/ (queries = <<>> /\ ~report.recommended)
        /\ evidence.error \/ evidence.answered = Len(queries)
    BY DEF IInv
  <2>2. \A kind : AskedAbout(kind) = OfKind(kind, queries)
    BY DEF AskedAbout, OfKind
  <2>3. CASE queries = Questions(report)
    BY <2>1, <2>2, <2>3, QuestionsAre DEF EvidenceIsComplete
  <2>4. CASE queries = <<>> /\ ~report.recommended
    <3>1. Len(<<>>) = 0 /\ 0 <= MaxQueries
      BY CitationAssumption
    <3>2. AskedAbout("missing") = {}
      BY <2>2, <2>4 DEF OfKind, ToSet
    <3> QED
      BY <2>1, <2>4, <3>1, <3>2 DEF EvidenceIsComplete
  <2> QED
    BY <2>1, <2>3, <2>4
<1> QED
  BY <1>1, Invariance, PTL
=============================================================================
