--------------------------- MODULE OperatorLemmas ---------------------------
(***************************************************************************)
(* Facts about operators of the community modules that the models are      *)
(* built from and the library of proofs says nothing about.                *)
(***************************************************************************)
EXTENDS Integers, Sequences, SequencesExt, FiniteSetTheorems, SequenceTheorems,
        WellFoundedInduction, TLAPS

\* A set of numbers that is not empty has a least one.
LEMMA NatLeast ==
    ASSUME NEW T \in SUBSET Nat, T # {}
    PROVE  \E x \in T : \A y \in T : x <= y
<1> DEFINE R == OpToRel(<, Nat)
<1>1. \A x, y \in Nat : y < x => <<y, x>> \in R
    BY DEF OpToRel
<1>2. IsWellFoundedOn(R, Nat)
    BY NatLessThanWellFounded
<1> HIDE DEF R
<1>3. PICK x \in T : \A y \in T : <<y, x>> \notin R
    BY <1>2, WFMin
<1>4. ASSUME NEW y \in T PROVE x <= y
    <2>1. ~ (y < x)
        BY <1>1, <1>3
    <2> QED BY <2>1
<1> QED BY <1>4

-----------------------------------------------------------------------------
\* F gives each subset of S the sum of the values w of its elements, in
\* whatever order they are added up.
IsSum(F, w, S) ==
    /\ F[{}] = 0
    /\ \A s \in SUBSET S : \A x \in s : F[s] = w[x] + F[s \ {x}]

\* f adds the values up in some order.
AddsUp(f, w, S) ==
    /\ f[{}] = 0
    /\ \A s \in (SUBSET S) \ {{}} : \E x \in s : f[s] = w[x] + f[s \ {x}]

\* For a finite set the order does not matter.
LEMMA SumsAgree ==
    ASSUME NEW S, IsFiniteSet(S), NEW w, NEW F, NEW sum, IsSum(F, w, S), AddsUp(sum, w, S)
    PROVE  sum[S] = F[S]
<1> DEFINE Bad == {s \in SUBSET S : sum[s] # F[s]}
           Sizes == {Cardinality(s) : s \in Bad}
<1>1. SUFFICES ASSUME Bad # {} PROVE FALSE
    OBVIOUS
<1>2. Sizes \in SUBSET Nat /\ Sizes # {}
    <2>1. \A s \in Bad : Cardinality(s) \in Nat
        BY FS_Subset, FS_CardinalityType
    <2> QED BY <1>1, <2>1
<1>3. PICK s \in Bad : \A t \in Bad : Cardinality(s) <= Cardinality(t)
    <2>1. \E n \in Sizes : \A m \in Sizes : n <= m
        <3> HIDE DEF Sizes
        <3> QED BY <1>2, NatLeast
    <2> QED BY <2>1
<1>4. PICK x \in s : sum[s] = w[x] + sum[s \ {x}]
    BY DEF IsSum, AddsUp
<1>5. F[s] = w[x] + F[s \ {x}]
    BY DEF IsSum
<1>6. s \ {x} \in Bad
    BY <1>4, <1>5
<1>7. IsFiniteSet(s) /\ Cardinality(s) \in Nat
    BY FS_Subset, FS_CardinalityType
<1>8. Cardinality(s \ {x}) = Cardinality(s) - 1
    BY <1>7, FS_RemoveElement
<1> QED BY <1>3, <1>6, <1>7, <1>8

-----------------------------------------------------------------------------
\* A sequence without the element at a place: those behind it move up by one.
LEMMA RemoveAtFacts ==
    ASSUME NEW S, NEW s \in Seq(S), NEW m \in 1 .. Len(s)
    PROVE  /\ RemoveAt(s, m) \in Seq(S)
           /\ Len(RemoveAt(s, m)) = Len(s) - 1
           /\ \A i \in 1 .. Len(s) - 1 : RemoveAt(s, m)[i] = s[IF i < m THEN i ELSE i + 1]
<1> DEFINE a == SubSeq(s, 1, m - 1)
           b == SubSeq(s, m + 1, Len(s))
<1>1. a \in Seq(S) /\ Len(a) = m - 1 /\ \A i \in 1 .. m - 1 : a[i] = s[i]
    OBVIOUS
<1>2. b \in Seq(S) /\ Len(b) = Len(s) - m /\ \A i \in 1 .. Len(s) - m : b[i] = s[m + i]
    OBVIOUS
<1> HIDE DEF a, b
<1>3. a \o b \in Seq(S) /\ Len(a \o b) = Len(s) - 1
    <2>1. a \o b \in Seq(S) /\ Len(a \o b) = Len(a) + Len(b)
        BY <1>1, <1>2, ConcatProperties
    <2> QED BY <1>1, <1>2, <2>1
<1>4. ASSUME NEW i \in 1 .. Len(s) - 1
      PROVE  (a \o b)[i] = s[IF i < m THEN i ELSE i + 1]
    <2>1. CASE i < m
        BY <1>1, <1>2, <2>1
    <2>2. CASE ~(i < m)
        <3>1. (a \o b)[i] = b[i - Len(a)]
            BY <1>1, <1>2, <2>2
        <3>2. i - (m - 1) \in 1 .. Len(s) - m /\ m + (i - (m - 1)) = i + 1
            BY <2>2
        <3>3. b[i - (m - 1)] = s[i + 1]
            BY <1>2, <3>2
        <3> QED BY <1>1, <2>2, <3>1, <3>3
    <2> QED BY <2>1, <2>2
<1> QED BY <1>3, <1>4 DEF RemoveAt, a, b

\* RemoveFirst takes out one place that holds the element, if there is one.
LEMMA RemoveFirstPlace ==
    ASSUME NEW S, NEW s \in Seq(S), NEW e
    PROVE  \/ e \notin ToSet(s) /\ RemoveFirst(s, e) = s
           \/ \E m \in 1 .. Len(s) : s[m] = e /\ RemoveFirst(s, e) = RemoveAt(s, m)
<1> DEFINE I == {i \in 1 .. Len(s) : s[i] = e}
<1>1. CASE I = {}
    <2>1. \A i \in 1 .. Len(s) : s[i] # e
        BY <1>1
    <2>2. RemoveFirst(s, e) = s
        BY <2>1 DEF RemoveFirst
    <2>3. e \notin ToSet(s)
        BY <2>1 DEF ToSet
    <2> QED BY <2>2, <2>3
<1>2. CASE I # {}
    <2>1. \E m \in I : \A y \in I : m <= y
        <3>1. I \in SUBSET Nat
            OBVIOUS
        <3> QED BY <1>2, <3>1, NatLeast
    <2>2. Min(I) \in I
        BY <2>1 DEF Min
    <2>3. RemoveFirst(s, e) = RemoveAt(s, Min(I))
        BY <1>2 DEF RemoveFirst, SelectInSeq
    <2> QED BY <2>2, <2>3
<1> QED BY <1>1, <1>2

\* A list without repetitions from which an element is removed: it is gone,
\* the others are there, once each and in the order they were in.
LEMMA RemoveFirstFacts ==
    ASSUME NEW S, NEW s \in Seq(S), IsInjective(s), NEW e
    PROVE  /\ RemoveFirst(s, e) \in Seq(S)
           /\ IsInjective(RemoveFirst(s, e))
           /\ ToSet(RemoveFirst(s, e)) = ToSet(s) \ {e}
           /\ \A i, j \in DOMAIN RemoveFirst(s, e) : i < j =>
                \E k, l \in DOMAIN s : /\ k < l
                                       /\ RemoveFirst(s, e)[i] = s[k]
                                       /\ RemoveFirst(s, e)[j] = s[l]
<1> DEFINE r == RemoveFirst(s, e)
<1>1. CASE e \notin ToSet(s) /\ r = s
    BY <1>1
<1>2. ASSUME NEW m \in 1 .. Len(s), s[m] = e, r = RemoveAt(s, m)
      PROVE  /\ r \in Seq(S) /\ IsInjective(r) /\ ToSet(r) = ToSet(s) \ {e}
             /\ \A i, j \in DOMAIN r : i < j =>
                  \E k, l \in DOMAIN s : k < l /\ r[i] = s[k] /\ r[j] = s[l]
    <2> DEFINE Old(i) == IF i < m THEN i ELSE i + 1
    <2> HIDE DEF r
    <2>1. /\ r \in Seq(S) /\ Len(r) = Len(s) - 1
          /\ \A i \in DOMAIN r : r[i] = s[Old(i)]
        <3>1. r \in Seq(S) /\ Len(r) = Len(s) - 1
            BY <1>2, RemoveAtFacts
        <3>2. \A i \in 1 .. Len(s) - 1 : r[i] = s[Old(i)]
            BY <1>2, RemoveAtFacts
        <3>3. DOMAIN r = 1 .. Len(s) - 1
            BY <3>1
        <3> QED BY <3>1, <3>2, <3>3
    <2>2. \A i \in DOMAIN r : Old(i) \in DOMAIN s /\ Old(i) # m
        BY <2>1
    <2>3. \A i, j \in DOMAIN r : i < j => Old(i) < Old(j)
        BY <2>1
    <2>4. \A k \in DOMAIN s : k # m => \E i \in DOMAIN r : Old(i) = k
        <3> SUFFICES ASSUME NEW k \in DOMAIN s, k # m PROVE \E i \in DOMAIN r : Old(i) = k
            OBVIOUS
        <3>1. CASE k < m
            BY <2>1, <3>1
        <3>2. CASE k > m
            <4>1. k - 1 \in DOMAIN r /\ Old(k - 1) = k
                BY <2>1, <3>2
            <4> QED BY <4>1
        <3> QED BY <3>1, <3>2
    <2> HIDE DEF Old
    <2>5. \A k \in DOMAIN s : s[k] = e <=> k = m
        BY <1>2 DEF IsInjective
    <2>6. ToSet(r) = ToSet(s) \ {e}
        BY <2>1, <2>2, <2>4, <2>5 DEF ToSet
    <2>7. IsInjective(r)
        <3> SUFFICES ASSUME NEW i \in DOMAIN r, NEW j \in DOMAIN r, r[i] = r[j], i # j
                     PROVE  FALSE
            BY DEF IsInjective
        <3>1. Old(i) = Old(j)
            BY <2>1, <2>2 DEF IsInjective
        <3>2. i \in Int /\ j \in Int /\ Old(i) \in Int /\ Old(j) \in Int
            BY <2>1, <2>2
        <3> QED BY <2>3, <3>1, <3>2
    <2> QED BY <2>1, <2>2, <2>3, <2>6, <2>7
<1> QED BY <1>1, <1>2, RemoveFirstPlace
=============================================================================
