------------------------ MODULE CompanyAssessmentProofs ------------------------
(***************************************************************************)
(* Theorems of CompanyAssessment for any websites, requests and answers of *)
(* the model, any limit on pages and any number of retries.                *)
(*                                                                         *)
(* First what the choices in the model rest on: a finite set has a least   *)
(* element under any strict order, and a total one numbers its elements.   *)
(* Then the choice of pages, the resolution of signals, the components of  *)
(* a score, and the steps.                                                 *)
(***************************************************************************)
EXTENDS CompanyAssessment, FiniteSetTheorems, TLAPS

\* R is a strict order of S, and relates any two of its elements.
Orders(R, S) ==
    /\ \A x \in S : <<x, x>> \notin R
    /\ \A x, y, z \in S : <<x, y>> \in R /\ <<y, z>> \in R => <<x, z>> \in R

Total(R, S) == \A x, y \in S : x # y => <<x, y>> \in R \/ <<y, x>> \in R

\* A nonempty finite set has a least element under any strict order: of the sets
\* of elements below a member, one contains no other.
LEMMA LeastElement ==
    ASSUME NEW S, IsFiniteSet(S), S # {}, NEW R, Orders(R, S)
    PROVE  \E x \in S : \A y \in S : <<y, x>> \notin R
<1> DEFINE Below == [x \in S |-> {y \in S : <<y, x>> \in R}]
           B == {Below[x] : x \in S}
           Strict == StrictSubsetOrdering(S)
<1>1. \A T \in B : \E x \in S : T = Below[x]
  <2> HIDE DEF Below
  <2> QED
    OBVIOUS
<1>2. B # {} /\ B \subseteq FiniteSubsetsOf(S)
  <2>1. \A x \in S : Below[x] \in SUBSET S
    OBVIOUS
  <2>2. B \subseteq SUBSET S
    <3> HIDE DEF B, Below
    <3> QED
      BY <1>1, <2>1
  <2>3. B # {}
    <3> HIDE DEF Below
    <3> QED
      OBVIOUS
  <2> QED
    BY <2>2, <2>3, FS_FiniteSubsetsOfFinite
<1>3. IsWellFoundedOn(Strict, FiniteSubsetsOf(S))
  BY FS_StrictSubsetOrderingWellFounded
<1>4. PICK T \in B : \A U \in B : <<U, T>> \notin Strict
  <2> HIDE DEF B, Strict
  <2> QED
    BY <1>2, <1>3, WFMin
<1>5. PICK x \in S : T = Below[x]
  BY <1>1
<1>6. ASSUME NEW y \in S, <<y, x>> \in R PROVE FALSE
  <2>1. Below[y] \in B /\ Below[y] \subseteq T /\ T \subseteq S
    BY <1>5, <1>6 DEF Orders
  <2>2. y \in T /\ y \notin Below[y]
    BY <1>5, <1>6 DEF Orders
  <2>3. <<Below[y], T>> \in Strict
    BY <2>1, <2>2 DEF StrictSubsetOrdering
  <2> QED
    BY <1>4, <2>1, <2>3
<1> QED
  BY <1>6

\* A nonempty set of naturals has a least element.
LEMMA LeastNatural ==
    ASSUME NEW S \in SUBSET Nat, S # {}
    PROVE  \E x \in S : \A y \in S : x <= y
<1>1. PICK n \in S : TRUE
  OBVIOUS
<1> DEFINE Q == {m \in S : m <= n}
           R == {pair \in Nat \X Nat : pair[1] < pair[2]}
<1>2. n \in Q /\ Q \in SUBSET Nat /\ \A m \in Q : m <= n
  <2>1. n \in Nat /\ n <= n
    BY <1>1
  <2> QED
    BY <1>1, <2>1
<1>3. IsFiniteSet(Q)
  <2> HIDE DEF Q
  <2> QED
    BY <1>1, <1>2, FS_BoundedSetOfNaturals
<1>4. Orders(R, Q)
  BY DEF Orders
<1>5. PICK x \in Q : \A y \in Q : <<y, x>> \notin R
  <2> HIDE DEF Q, R
  <2> QED
    BY <1>2, <1>3, <1>4, LeastElement
<1>6. ASSUME NEW y \in S PROVE x <= y
  <2>1. x \in Nat /\ x <= n /\ y \in Nat /\ n \in Nat
    BY <1>1, <1>2
  <2>2. y \in Q => x <= y
    <3>1. y \in Q => ~(y < x)
      BY <1>5, <2>1
    <3> QED
      BY <3>1, <2>1
  <2>3. y \notin Q => ~(y <= n)
    OBVIOUS
  <2> QED
    BY <2>1, <2>2, <2>3
<1>7. x \in S
  OBVIOUS
<1> QED
  BY <1>6, <1>7

\* The least of a set of naturals.
LEMMA MinIsLeast ==
    ASSUME NEW S \in SUBSET Nat, S # {}
    PROVE  Min(S) \in S /\ \A y \in S : Min(S) <= y
<1>1. \E x \in S : \A y \in S : x <= y
  BY LeastNatural
<1> QED
  BY <1>1, Zenon DEF Min

\* The lesser and the greater of two integers.
LEMMA MinMaxOfTwo ==
    ASSUME NEW a \in Int, NEW b \in Int
    PROVE  /\ Min({a, b}) = IF a <= b THEN a ELSE b
           /\ Max({a, b}) = IF a <= b THEN b ELSE a
<1>1. \E x \in {a, b} : \A y \in {a, b} : x <= y
  OBVIOUS
<1>2. Min({a, b}) \in {a, b} /\ \A y \in {a, b} : Min({a, b}) <= y
  BY <1>1, Zenon DEF Min
<1>3. \E x \in {a, b} : \A y \in {a, b} : x >= y
  OBVIOUS
<1>4. Max({a, b}) \in {a, b} /\ \A y \in {a, b} : Max({a, b}) >= y
  BY <1>3, Zenon DEF Max
<1> QED
  BY <1>2, <1>4

\* Of a finite set under a strict order, as many elements as one likes can be taken so
\* that none left is below one taken: of the sets with at least as many, closed
\* downwards, one contains no other, and it has no element to spare.
LEMMA InitialPart ==
    ASSUME NEW S, IsFiniteSet(S), NEW R, Orders(R, S), NEW n \in Nat, n <= Cardinality(S)
    PROVE  \E W \in SUBSET S :
             Cardinality(W) = n /\ \A v \in W, w \in S \ W : <<w, v>> \notin R
<1> DEFINE Closed(W) == \A v \in W, w \in S \ W : <<w, v>> \notin R
           B == {W \in SUBSET S : Cardinality(W) >= n /\ Closed(W)}
           Strict == StrictSubsetOrdering(S)
<1>1. S \in B
  <2>1. Cardinality(S) \in Nat
    BY FS_CardinalityType
  <2> QED
    BY <2>1
<1>2. B # {} /\ B \subseteq FiniteSubsetsOf(S)
  BY <1>1, FS_FiniteSubsetsOfFinite
<1>3. IsWellFoundedOn(Strict, FiniteSubsetsOf(S))
  BY FS_StrictSubsetOrderingWellFounded
<1>4. PICK W \in B : \A U \in B : <<U, W>> \notin Strict
  <2> HIDE DEF B, Strict
  <2> QED
    BY <1>2, <1>3, WFMin
<1>5. W \in SUBSET S /\ Cardinality(W) >= n /\ Closed(W)
  OBVIOUS
<1>6. IsFiniteSet(W) /\ Cardinality(W) \in Nat
  <2> HIDE DEF B, Closed
  <2> QED
    BY <1>5, FS_Subset, FS_CardinalityType
<1>7. ASSUME Cardinality(W) # n PROVE FALSE
  <2> DEFINE Q == {pair \in S \X S : <<pair[2], pair[1]>> \in R}
  <2>1. W # {}
    BY <1>5, <1>6, <1>7, FS_EmptySet
  <2>2. Orders(Q, W)
    BY <1>5 DEF Orders
  <2>3. PICK x \in W : \A y \in W : <<y, x>> \notin Q
    <3> HIDE DEF Q, B, Closed
    <3> QED
      BY <1>6, <2>1, <2>2, LeastElement
  <2>4. \A y \in W : <<x, y>> \notin R
    BY <1>5, <2>3
  <2> DEFINE U == W \ {x}
  <2>5. Cardinality(U) = Cardinality(W) - 1
    <3> HIDE DEF B, Closed
    <3> QED
      BY <1>6, FS_RemoveElement
  <2>6. U \in SUBSET S /\ Cardinality(U) >= n
    <3>1. U \in SUBSET S
      BY <1>5
    <3> HIDE DEF U, B, Closed
    <3> QED
      BY <1>5, <1>6, <1>7, <2>5, <3>1
  <2>7. Closed(U)
    BY <1>5, <2>4
  <2>8. <<U, W>> \in Strict
    BY <1>5 DEF StrictSubsetOrdering
  <2> QED
    BY <1>4, <2>6, <2>7, <2>8
<1> QED
  BY <1>5, <1>7

\* The position of an element of a sequence.
LEMMA PositionIsPlace ==
    ASSUME NEW s, DOMAIN s \subseteq Nat, NEW x, x \in ToSet(s)
    PROVE  Position(x, s) \in DOMAIN s /\ s[Position(x, s)] = x
<1> DEFINE places == {i \in DOMAIN s : s[i] = x}
<1>1. places \in SUBSET Nat /\ places # {}
  BY DEF ToSet
<1>2. Min(places) \in places
  <2> HIDE DEF places
  <2> QED
    BY <1>1, MinIsLeast
<1> QED
  BY <1>2 DEF Position

\* Of a finite set under a strict total order, the elements with fewer than n
\* below them are at most n; if some element has n or more, they are at least n.
LEMMA FirstAreCounted ==
    ASSUME NEW S, IsFiniteSet(S), NEW R, Orders(R, S), Total(R, S), NEW n \in Int,
           NEW Below, \A x \in S : Below[x] = {y \in S : <<y, x>> \in R},
           NEW T \in SUBSET S, \A x \in S : x \in T <=> Cardinality(Below[x]) < n
    PROVE  /\ IsFiniteSet(T)
           /\ T # {} => Cardinality(T) <= n
           /\ T # S => Cardinality(T) >= n
<1>1. IsFiniteSet(T) /\ T \subseteq S
  BY FS_Subset
<1>2. \A x \in S : IsFiniteSet(Below[x]) /\ Cardinality(Below[x]) \in Nat
  BY FS_Subset, FS_CardinalityType
<1>3. ASSUME T # {} PROVE Cardinality(T) <= n
  <2> DEFINE Q == {pair \in S \X S : <<pair[2], pair[1]>> \in R}
  <2>1. PICK x \in T : \A y \in T : <<y, x>> \notin Q
    <3>1. Orders(Q, T)
      BY <1>1 DEF Orders
    <3> HIDE DEF Q
    <3> QED
      BY <3>1, <1>1, <1>3, LeastElement
  <2> DEFINE U == Below[x] \cup {x}
  <2>2. T \subseteq U
    <3> SUFFICES ASSUME NEW y \in T, y # x PROVE y \in Below[x]
      OBVIOUS
    <3>1. <<x, y>> \notin R
      BY <2>1, <1>1
    <3>2. <<y, x>> \in R
      BY <3>1, <1>1 DEF Total
    <3> QED
      BY <3>2, <1>1
  <2>3. Cardinality(U) = Cardinality(Below[x]) + 1 /\ IsFiniteSet(U)
    <3>1. x \in S /\ IsFiniteSet(Below[x])
      BY <1>1, <1>2
    <3>2. <<x, x>> \notin R
      BY <3>1 DEF Orders
    <3>3. x \notin Below[x]
      BY <3>1, <3>2
    <3> QED
      BY <3>1, <3>3, FS_AddElement
  <2>4. Cardinality(T) <= Cardinality(U)
    <3> HIDE DEF U
    <3> QED
      BY <2>2, <2>3, FS_Subset
  <2>5. Cardinality(Below[x]) < n
    OBVIOUS
  <2>6. Cardinality(T) \in Nat /\ Cardinality(Below[x]) \in Nat
    BY <1>1, <1>2, FS_CardinalityType
  <2> QED
    BY <2>3, <2>4, <2>5, <2>6
<1>4. ASSUME T # S PROVE Cardinality(T) >= n
  <2>1. PICK x \in S \ T : \A y \in S \ T : <<y, x>> \notin R
    <3>1. IsFiniteSet(S \ T) /\ S \ T # {}
      BY <1>1, <1>4, FS_Subset
    <3>2. Orders(R, S \ T)
      BY DEF Orders
    <3> QED
      BY <3>1, <3>2, LeastElement
  <2>2. Below[x] \subseteq T
    BY <2>1
  <2>3. ~(Cardinality(Below[x]) < n)
    BY <2>1
  <2>4. Cardinality(Below[x]) <= Cardinality(T)
    BY <2>2, <1>1, FS_Subset
  <2>5. Cardinality(T) \in Nat /\ Cardinality(Below[x]) \in Nat
    BY <1>1, <1>2, FS_CardinalityType
  <2> QED
    BY <2>3, <2>4, <2>5
<1> QED
  BY <1>1, <1>3, <1>4

\* A strict total order numbers the elements of a finite set: no two have the same
\* number of elements below them, and every number below its size occurs.
LEMMA OrderNumbers ==
    ASSUME NEW S, IsFiniteSet(S), NEW R, Orders(R, S), Total(R, S),
           NEW Below, \A x \in S : Below[x] = {y \in S : <<y, x>> \in R}
    PROVE  /\ \A x \in S : Cardinality(Below[x]) \in 0..(Cardinality(S) - 1)
           /\ \A x, y \in S : Cardinality(Below[x]) = Cardinality(Below[y]) => x = y
           /\ \A i \in 0..(Cardinality(S) - 1) : \E x \in S : Cardinality(Below[x]) = i
<1>1. \A x \in S : IsFiniteSet(Below[x]) /\ Cardinality(Below[x]) \in Nat
  BY FS_Subset, FS_CardinalityType
<1>2. Cardinality(S) \in Nat
  BY FS_CardinalityType
<1>3. ASSUME NEW x \in S PROVE Cardinality(Below[x]) \in 0..(Cardinality(S) - 1)
  <2>1. Below[x] \subseteq S
    OBVIOUS
  <2>2. <<x, x>> \notin R
    BY DEF Orders
  <2>3. Below[x] # S
    BY <2>2
  <2>4. /\ Cardinality(Below[x]) <= Cardinality(S)
        /\ Cardinality(S) = Cardinality(Below[x]) => S = Below[x]
    BY <2>1, FS_Subset
  <2> QED
    BY <1>1, <1>2, <2>3, <2>4
<1>4. ASSUME NEW x \in S, NEW y \in S, <<x, y>> \in R
      PROVE  Cardinality(Below[x]) # Cardinality(Below[y])
  <2>1. Below[x] \subseteq Below[y]
    BY <1>4 DEF Orders
  <2>2. <<x, x>> \notin R
    BY DEF Orders
  <2>3. x \in Below[y] /\ x \notin Below[x]
    BY <1>4, <2>2
  <2>4. Cardinality(Below[y]) = Cardinality(Below[x]) => Below[y] = Below[x]
    BY <2>1, <1>1, FS_Subset
  <2> QED
    BY <2>3, <2>4
<1>5. ASSUME NEW x \in S, NEW y \in S, Cardinality(Below[x]) = Cardinality(Below[y])
      PROVE  x = y
  BY <1>4, <1>5 DEF Total
<1>6. ASSUME NEW i \in 0..(Cardinality(S) - 1) PROVE \E x \in S : Cardinality(Below[x]) = i
  <2> SUFFICES ASSUME \A x \in S : Cardinality(Below[x]) # i PROVE FALSE
    OBVIOUS
  <2> DEFINE T == {x \in S : Cardinality(Below[x]) < i}
  <2>1. T \in SUBSET S /\ \A x \in S : x \in T <=> Cardinality(Below[x]) < i
    OBVIOUS
  <2>2. \A x \in S : x \in T <=> Cardinality(Below[x]) < i + 1
    <3> SUFFICES ASSUME NEW x \in S
                 PROVE  Cardinality(Below[x]) < i <=> Cardinality(Below[x]) < i + 1
      OBVIOUS
    <3>1. Cardinality(Below[x]) # i /\ Cardinality(Below[x]) \in Nat
      BY <1>1
    <3> QED
      BY <3>1
  <2>3. i \in Int /\ i + 1 \in Int
    OBVIOUS
  <2> HIDE DEF T
  <2>4. IsFiniteSet(T) /\ (T # {} => Cardinality(T) <= i)
    BY <2>1, <2>3, FirstAreCounted
  <2>5. T # S => Cardinality(T) >= i + 1
    BY <2>1, <2>2, <2>3, FirstAreCounted
  <2>6. Cardinality(T) <= i
    BY <2>4, FS_EmptySet
  <2>7. Cardinality(T) \in Nat
    BY <2>4, FS_CardinalityType
  <2>8. T = S
    BY <2>5, <2>6, <2>7
  <2> QED
    BY <2>6, <2>8, <1>2
<1> QED
  BY <1>3, <1>5, <1>6

-----------------------------------------------------------------------------
(***************************************************************************)
(* The choice of pages.                                                    *)
(***************************************************************************)
USE DEF Types

\* The longest of some texts is one of them.
LEMMA LongestIsOne ==
    ASSUME NEW texts, NEW n \in Nat, n > 0, DOMAIN texts = 1..n,
           \A i \in 1..n : texts[i].length \in Nat
    PROVE  \E i \in 1..n : Longest(texts) = texts[i]
<1> DEFINE R == {pair \in (1..n) \X (1..n) :
                   \/ texts[pair[1]].length > texts[pair[2]].length
                   \/ /\ texts[pair[1]].length = texts[pair[2]].length
                      /\ pair[1] < pair[2]}
<1>1. IsFiniteSet(1..n) /\ 1..n # {}
  <2>1. 1 \in 1..n
    OBVIOUS
  <2>2. IsFiniteSet(1..n)
    BY FS_Interval
  <2> QED
    BY <2>1, <2>2
<1>2. Orders(R, 1..n)
  <2>1. \A i \in 1..n : <<i, i>> \notin R
    OBVIOUS
  <2>2. ASSUME NEW i \in 1..n, NEW j \in 1..n, NEW k \in 1..n,
               <<i, j>> \in R, <<j, k>> \in R
        PROVE  <<i, k>> \in R
    BY <2>2
  <2> HIDE DEF R
  <2> QED
    BY <2>1, <2>2 DEF Orders
<1>3. PICK i \in 1..n : \A j \in 1..n : <<j, i>> \notin R
  <2> HIDE DEF R
  <2> QED
    BY <1>1, <1>2, LeastElement
<1>4. ASSUME NEW j \in DOMAIN texts
      PROVE  \/ texts[j].length < texts[i].length
             \/ texts[j].length = texts[i].length /\ i <= j
  <2>1. /\ ~(texts[j].length > texts[i].length)
        /\ ~(texts[j].length = texts[i].length /\ j < i)
    BY <1>3
  <2>2. texts[j].length \in Nat /\ texts[i].length \in Nat /\ i \in Nat /\ j \in Nat
    OBVIOUS
  <2> QED
    BY <2>1, <2>2
<1>5. \E k \in DOMAIN texts : \A j \in DOMAIN texts :
        \/ texts[j].length < texts[k].length
        \/ texts[j].length = texts[k].length /\ k <= j
  BY <1>4
<1>6. (CHOOSE k \in DOMAIN texts : \A j \in DOMAIN texts :
        \/ texts[j].length < texts[k].length
        \/ texts[j].length = texts[k].length /\ k <= j) \in DOMAIN texts
  BY <1>5, Zenon
<1> QED
  BY <1>6 DEF Longest

\* The first of several page types is one of the types.
LEMMA FirstIsType ==
    ASSUME NEW types, types \subseteq ToSet(Types), types # {}
    PROVE  First(types) \in ToSet(Types)
<1> DEFINE places == {i \in DOMAIN Types : Types[i] \in types}
<1>1. places \in SUBSET Nat /\ places # {}
  BY DEF ToSet
<1>2. Min(places) \in places
  <2> HIDE DEF places
  <2> QED
    BY <1>1, MinIsLeast
<1> QED
  BY <1>2 DEF First, ToSet

\* What a function on a finite set yields is finite.
LEMMA ImageIsFinite ==
    ASSUME NEW S, IsFiniteSet(S), NEW g, g = [x \in S |-> g[x]]
    PROVE  IsFiniteSet({g[x] : x \in S})
<1> DEFINE T == {g[x] : x \in S}
<1>1. g \in [S -> T]
  OBVIOUS
<1>2. \A t \in T : \E s \in S : g[s] = t
  OBVIOUS
<1>3. g \in Surjection(S, T)
  BY <1>1, <1>2 DEF Surjection
<1> HIDE DEF T
<1>4. IsFiniteSet(T)
  BY <1>3, FS_Surjection
<1> QED
  BY <1>4 DEF T

\* What is known of a page that was found, merged.
LEMMA KnownIsTyped ==
    ASSUME NEW known, KnownOK(known), NEW p \in Pages, Found(known, p)
    PROVE  LET c == Known(known, p)
           IN /\ c.path.types \subseteq ToSet(Types) /\ Named(c) \subseteq ToSet(Types)
              /\ IsFiniteSet(Terms(c))
<1> DEFINE seen == known[p]
           n == Len(seen)
           c == Known(known, p)
<1>1. n \in Nat /\ n > 0 /\ DOMAIN seen = 1..n /\ \A i \in 1..n : EvidenceOK(seen[i])
  BY DEF KnownOK, Found
<1> HIDE DEF seen, n
<1>2. TextOK(c.path)
  <2>1. EvidenceOK(seen[1])
    BY <1>1
  <2>2. c.path = seen[1].path
    BY DEF Known, seen
  <2> QED
    BY <2>1, <2>2 DEF EvidenceOK
<1>3. TextOK(c.anchor)
  <2> DEFINE texts == [i \in DOMAIN seen |-> seen[i].anchor]
  <2>1. \A i \in 1..n : TextOK(texts[i])
    BY <1>1 DEF EvidenceOK
  <2>2. DOMAIN texts = 1..n
    BY <1>1
  <2>3. c.anchor = Longest(texts)
    BY DEF Known, seen
  <2> HIDE DEF texts, c
  <2>4. PICK i \in 1..n : Longest(texts) = texts[i]
    BY <1>1, <2>1, <2>2, LongestIsOne DEF TextOK
  <2> QED
    BY <2>1, <2>3, <2>4
<1>4. TextOK(c.title)
  <2> DEFINE texts == [i \in DOMAIN seen |-> seen[i].title]
  <2>1. \A i \in 1..n : TextOK(texts[i])
    BY <1>1 DEF EvidenceOK
  <2>2. DOMAIN texts = 1..n
    BY <1>1
  <2>3. c.title = Longest(texts)
    BY DEF Known, seen
  <2> HIDE DEF texts, c
  <2>4. PICK i \in 1..n : Longest(texts) = texts[i]
    BY <1>1, <2>1, <2>2, LongestIsOne DEF TextOK
  <2> QED
    BY <2>1, <2>3, <2>4
<1>5. c.headings.types \subseteq ToSet(Types)
  <2>1. c.headings.types = UNION {seen[i].headings.types : i \in 1..n}
    BY <1>1 DEF Known, seen
  <2>2. \A i \in 1..n : seen[i].headings.types \subseteq ToSet(Types)
    BY <1>1 DEF EvidenceOK, TextOK
  <2> HIDE DEF c, Types
  <2> QED
    BY <2>1, <2>2
<1>6. IsFiniteSet(c.headings.terms)
  <2> DEFINE g == [i \in 1..n |-> seen[i].headings.terms]
  <2>1. c.headings.terms = UNION {g[i] : i \in 1..n}
    BY <1>1 DEF Known, seen
  <2>2. \A i \in 1..n : IsFiniteSet(g[i])
    BY <1>1 DEF EvidenceOK, TextOK
  <2>3. g = [i \in 1..n |-> g[i]]
    OBVIOUS
  <2> DEFINE T == {g[i] : i \in 1..n}
  <2> HIDE DEF g, c
  <2>4. IsFiniteSet(T)
    BY <1>1, <2>3, FS_Interval, ImageIsFinite
  <2>5. \A t \in T : IsFiniteSet(t)
    BY <2>2
  <2>6. c.headings.terms = UNION T
    BY <2>1
  <2> HIDE DEF T
  <2> QED
    BY <2>4, <2>5, <2>6, FS_UNION
<1> HIDE DEF c, Types
<1>7. IsFiniteSet(Terms(c))
  BY <1>2, <1>3, <1>4, <1>6, FS_Union DEF Terms, TextOK
<1>8. Named(c) \subseteq ToSet(Types)
  BY <1>3, <1>4, <1>5 DEF Named, TextOK
<1> QED
  BY <1>2, <1>7, <1>8 DEF TextOK, c

\* The kind of a candidate, as in SelectionKeepsTheBest.
Kind(known, p) ==
    IF Found(known, p) THEN Base(Category(p, Known(known, p))) ELSE Base("homepage")

Kinds == {0, 200, 400, 600, 800, 1000, 1200}

\* The kinds lie so far apart that no bonus makes up for one.
LEMMA ScoreFollowsKind ==
    ASSUME NEW known, KnownOK(known), NEW p \in Candidates(known)
    PROVE  /\ Kind(known, p) \in Kinds \cup {1400} /\ Score(known, p) \in Nat
           /\ p = Home => Kind(known, p) = 1400
           /\ p # Home => Kind(known, p) \in Kinds
           /\ Kind(known, p) <= Score(known, p)
           /\ Score(known, p) <= Kind(known, p) + 85
<1> USE PageSelectionAssumption
<1>1. p \in Pages
  BY DEF Candidates
<1>2. CASE ~Found(known, p)
  <2>1. p = Home
    BY <1>2 DEF Candidates
  <2>2. Base("homepage") = 1400
    BY DEF Base
  <2> QED
    BY <1>2, <2>1, <2>2 DEF Kind, Score
<1>3. CASE Found(known, p)
  <2> DEFINE c == Known(known, p)
             type == Category(p, c)
  <2>1. /\ c.path.types \subseteq ToSet(Types) /\ Named(c) \subseteq ToSet(Types)
        /\ IsFiniteSet(Terms(c))
    BY <1>1, <1>3, KnownIsTyped
  <2> HIDE DEF c
  <2>2. /\ p = Home => type = "homepage"
        /\ p # Home => type \in ToSet(Types) \cup {"relevant", "other"}
    <3> HIDE DEF Types
    <3> QED
      BY <2>1, FirstIsType DEF Category
  <2>3. ToSet(Types) = {"about", "services", "solutions", "expertise", "contact"}
    <3>1. ToSet(Types) = {Types[1], Types[2], Types[3], Types[4], Types[5]}
      BY DEF ToSet
    <3> QED
      BY <3>1
  <2>4. /\ p = Home => Base(type) = 1400
        /\ p # Home => Base(type) \in Kinds
    <3> HIDE DEF type
    <3> QED
      BY <2>2, <2>3 DEF Base, Kinds
  <2>5. Bonus(p, c) \in 0..85
    <3>1. CASE type \in {"homepage", "other"}
      BY <3>1 DEF Bonus
    <3>2. CASE type = "relevant"
      <4>1. Cardinality(Terms(c)) \in Nat
        BY <2>1, FS_CardinalityType
      <4>2. 10 * Cardinality(Terms(c)) \in Nat
        BY <4>1
      <4>3. Bonus(p, c) = Min({40, 10 * Cardinality(Terms(c))})
        BY <3>2 DEF Bonus
      <4> DEFINE b == 10 * Cardinality(Terms(c))
      <4>4. Min({40, b}) = IF 40 <= b THEN 40 ELSE b
        BY <4>2, MinMaxOfTwo
      <4> QED
        BY <4>2, <4>3, <4>4
    <3>3. CASE type \notin {"homepage", "other", "relevant"}
      BY <3>3 DEF Bonus
    <3> QED
      BY <3>1, <3>2, <3>3
  <2>6. Score(known, p) = Base(type) + Bonus(p, c)
    BY <1>3 DEF Score, PageScore, c
  <2>7. Kind(known, p) = Base(type)
    BY <1>3 DEF Kind, c
  <2>8. Base(type) \in Nat
    <3> HIDE DEF type
    <3> QED
      BY <2>4 DEF Kinds
  <2>9. /\ Score(known, p) \in Nat /\ Kind(known, p) <= Score(known, p)
        /\ Score(known, p) <= Kind(known, p) + 85
    <3> HIDE DEF type
    <3> QED
      BY <2>5, <2>6, <2>7, <2>8
  <2> HIDE DEF type
  <2> QED
    BY <2>4, <2>7, <2>9
<1> QED
  BY <1>2, <1>3

\* Being ahead is a strict total order of the candidates.
LEMMA AheadIsOrder ==
    ASSUME NEW known, KnownOK(known), NEW S \in SUBSET Candidates(known),
           NEW R, R = {pair \in S \X S : Ahead(known, pair[1], pair[2])}
    PROVE  Orders(R, S) /\ Total(R, S)
<1>1. \A p \in S : p \in Nat /\ Score(known, p) \in Nat
  BY PageSelectionAssumption, ScoreFollowsKind DEF Candidates
<1>2. \A p, q \in S : <<p, q>> \in R <=>
        \/ Score(known, p) > Score(known, q)
        \/ Score(known, p) = Score(known, q) /\ p < q
  BY DEF Ahead
<1>3. \A p \in S : <<p, p>> \notin R
  BY <1>1, <1>2
<1>4. ASSUME NEW p \in S, NEW q \in S, NEW r \in S, <<p, q>> \in R, <<q, r>> \in R
      PROVE  <<p, r>> \in R
  <2>1. /\ \/ Score(known, p) > Score(known, q)
           \/ Score(known, p) = Score(known, q) /\ p < q
        /\ \/ Score(known, q) > Score(known, r)
           \/ Score(known, q) = Score(known, r) /\ q < r
    BY <1>2, <1>4
  <2>2. /\ p \in Nat /\ q \in Nat /\ r \in Nat
        /\ Score(known, p) \in Nat /\ Score(known, q) \in Nat /\ Score(known, r) \in Nat
    BY <1>1
  <2>3. \/ Score(known, p) > Score(known, r)
        \/ Score(known, p) = Score(known, r) /\ p < r
    BY <2>1, <2>2
  <2> QED
    BY <1>2, <2>3
<1>5. ASSUME NEW p \in S, NEW q \in S, p # q PROVE <<p, q>> \in R \/ <<q, p>> \in R
  <2>1. \/ Score(known, p) > Score(known, q)
        \/ Score(known, p) = Score(known, q) /\ p < q
        \/ Score(known, q) > Score(known, p)
        \/ Score(known, q) = Score(known, p) /\ q < p
    BY <1>1, <1>5
  <2> QED
    BY <1>2, <2>1
<1> QED
  BY <1>3, <1>4, <1>5 DEF Orders, Total

\* The candidates ahead of each, in a set of them, number the set.
LEMMA AheadNumbers ==
    ASSUME NEW known, KnownOK(known), NEW S \in SUBSET Candidates(known),
           NEW Before, \A p \in S : Before[p] = {q \in S : Ahead(known, q, p)}
    PROVE  /\ IsFiniteSet(S) /\ Cardinality(S) \in Nat
           /\ \A p \in S : Cardinality(Before[p]) \in 0..(Cardinality(S) - 1)
           /\ \A p, q \in S : Cardinality(Before[p]) = Cardinality(Before[q]) => p = q
           /\ \A i \in 0..(Cardinality(S) - 1) : \E p \in S : Cardinality(Before[p]) = i
<1> DEFINE R == {pair \in S \X S : Ahead(known, pair[1], pair[2])}
<1>1. S \subseteq Pages
  BY PageSelectionAssumption DEF Candidates
<1>2. IsFiniteSet(S) /\ Cardinality(S) \in Nat
  BY <1>1, PageSelectionAssumption, FS_Subset, FS_CardinalityType
<1>3. Orders(R, S) /\ Total(R, S)
  BY AheadIsOrder
<1>4. \A p \in S : Before[p] = {q \in S : <<q, p>> \in R}
  OBVIOUS
<1> HIDE DEF R
<1> QED
  BY <1>2, <1>3, <1>4, OrderNumbers

\* A set of candidates, best first.
LEMMA BestFirstIsSorted ==
    ASSUME NEW known, KnownOK(known), NEW S \in SUBSET Candidates(known)
    PROVE  LET s == BestFirst(known, S)
           IN /\ Cardinality(S) \in Nat
              /\ DOMAIN s = 1..Cardinality(S) /\ ToSet(s) = S
              /\ \A p \in S : (\A q \in S : ~Ahead(known, q, p)) => s[1] = p
<1> DEFINE Before == [p \in S |-> {q \in S : Ahead(known, q, p)}]
           n == Cardinality(S)
           s == BestFirst(known, S)
<1>1. \A p \in S : Before[p] = {q \in S : Ahead(known, q, p)}
  OBVIOUS
<1>2. s = [i \in 1..n |-> CHOOSE p \in S : Cardinality({q \in S : Ahead(known, q, p)}) = i - 1]
  BY DEF BestFirst
<1>3. ASSUME NEW i \in 1..n
      PROVE  s[i] = CHOOSE p \in S : Cardinality({q \in S : Ahead(known, q, p)}) = i - 1
  BY <1>2
<1> HIDE DEF Before, s
<1>4. /\ n \in Nat
      /\ \A p \in S : Cardinality(Before[p]) \in 0..(n - 1)
      /\ \A p, q \in S : Cardinality(Before[p]) = Cardinality(Before[q]) => p = q
      /\ \A i \in 0..(n - 1) : \E p \in S : Cardinality(Before[p]) = i
  BY <1>1, AheadNumbers
<1> HIDE DEF n
<1>5. ASSUME NEW i \in 1..n PROVE s[i] \in S /\ Cardinality(Before[s[i]]) = i - 1
  <2>1. i - 1 \in 0..(n - 1)
    BY <1>4
  <2>2. PICK p \in S : Cardinality(Before[p]) = i - 1
    BY <1>4, <2>1
  <2>3. Cardinality({q \in S : Ahead(known, q, p)}) = i - 1
    BY <1>1, <2>2
  <2>4. s[i] \in S /\ Cardinality({q \in S : Ahead(known, q, s[i])}) = i - 1
    BY <1>3, <2>3, Zenon
  <2> QED
    BY <1>1, <2>4
<1>6. ASSUME NEW p \in S PROVE s[Cardinality(Before[p]) + 1] = p
  <2> DEFINE i == Cardinality(Before[p]) + 1
  <2>1. i \in 1..n /\ i - 1 = Cardinality(Before[p])
    BY <1>4
  <2> HIDE DEF i
  <2>2. s[i] \in S /\ Cardinality(Before[s[i]]) = Cardinality(Before[p])
    BY <1>5, <2>1
  <2> QED
    BY <1>4, <2>2 DEF i
<1>7. DOMAIN s = 1..n
  BY <1>2
<1>8. ToSet(s) = S
  <2>1. \A p \in S : Cardinality(Before[p]) + 1 \in 1..n
    BY <1>4
  <2> QED
    BY <1>5, <1>6, <1>7, <2>1 DEF ToSet
<1>9. ASSUME NEW p \in S, \A q \in S : ~Ahead(known, q, p) PROVE s[1] = p
  <2>1. Before[p] = {}
    BY <1>1, <1>9
  <2>2. Cardinality(Before[p]) + 1 = 1
    BY <2>1, FS_EmptySet
  <2> QED
    BY <1>6, <2>2
<1> QED
  BY <1>4, <1>7, <1>8, <1>9 DEF s, n

\* What the selection keeps: fetched pages, the home page first, and no page ranked as
\* itself is left out unless Limit others are of a kind no weaker.
SelectionOf(known, crawled, chosen) ==
    /\ ToSet(chosen) \subseteq ToSet(crawled) /\ DOMAIN chosen \subseteq Nat
    /\ Home \in ToSet(crawled) => chosen[1] = Home
    /\ \A p \in (ToSet(crawled) \cap Candidates(known)) \ ToSet(chosen) :
         Cardinality({q \in Candidates(known) : q # p /\ Kind(known, q) >= Kind(known, p)})
             >= Limit

LEMMA SelectionIsBest ==
    ASSUME NEW known, KnownOK(known), NEW crawled \in Seq(Pages), crawled # <<>>
    PROVE  SelectionOf(known, crawled, SelectCleanPages(known, crawled))
<1> USE PageSelectionAssumption
<1> DEFINE kept == Ranked(known) \cap ToSet(crawled)
           chosen == SelectCleanPages(known, crawled)
           All == Candidates(known)
           Before == [p \in All |-> {q \in All : Ahead(known, q, p)}]
<1>1. All \subseteq Pages /\ IsFiniteSet(All)
  BY FS_Subset DEF Candidates
<1>2. \A p \in All : p \in Ranked(known) <=> Cardinality(Before[p]) < Limit
  BY DEF Ranked
<1>3. kept \in SUBSET All
  BY DEF Ranked
<1>4. crawled[1] \in ToSet(crawled)
  BY DEF ToSet
<1>5. chosen = IF kept = {} THEN <<crawled[1]>> ELSE BestFirst(known, kept)
  BY DEF SelectCleanPages
<1>6. /\ kept = {} => ToSet(chosen) = {crawled[1]} /\ DOMAIN chosen = {1}
      /\ kept # {} => ToSet(chosen) = kept /\ DOMAIN chosen \subseteq Nat
  <2>1. ToSet(<<crawled[1]>>) = {crawled[1]} /\ DOMAIN <<crawled[1]>> = {1}
    BY DEF ToSet
  <2>2. ToSet(BestFirst(known, kept)) = kept /\ DOMAIN BestFirst(known, kept) \subseteq Nat
    BY <1>3, BestFirstIsSorted
  <2> HIDE DEF chosen, kept
  <2> QED
    BY <1>5, <2>1, <2>2
<1>7. ToSet(chosen) \subseteq ToSet(crawled) /\ DOMAIN chosen \subseteq Nat
  <2> HIDE DEF chosen
  <2> QED
    BY <1>4, <1>6
<1>8. ASSUME NEW p \in All, p # Home PROVE ~Ahead(known, p, Home) /\ Ahead(known, Home, p)
  <2>1. Home \in All
    BY DEF Candidates
  <2>2. Score(known, p) < Score(known, Home)
    BY <1>8, <2>1, ScoreFollowsKind DEF Kinds
  <2>3. Score(known, p) \in Nat /\ Score(known, Home) \in Nat
    BY <2>1, ScoreFollowsKind
  <2> QED
    BY <2>2, <2>3 DEF Ahead
<1>9. ~Ahead(known, Home, Home)
  <2>1. Score(known, Home) \in Nat /\ Home \in Nat
    BY ScoreFollowsKind DEF Candidates
  <2> QED
    BY <2>1 DEF Ahead
<1>10. ASSUME Home \in ToSet(crawled) PROVE chosen[1] = Home
  <2>1. Home \in All
    BY DEF Candidates
  <2>2. Before[Home] = {}
    BY <1>8, <1>9, <2>1
  <2>3. Cardinality(Before[Home]) < Limit
    <3>1. Cardinality(Before[Home]) = 0
      BY <2>2, FS_EmptySet
    <3> HIDE DEF Before
    <3> QED
      BY <3>1
  <2>4. Home \in kept
    BY <1>2, <1>10, <2>1, <2>3
  <2>5. \A q \in kept : ~Ahead(known, q, Home)
    BY <1>3, <1>8, <1>9
  <2> HIDE DEF kept, All
  <2>6. BestFirst(known, kept)[1] = Home
    BY <1>3, <2>4, <2>5, BestFirstIsSorted DEF All
  <2> QED
    BY <1>5, <2>4, <2>6
<1>11. ASSUME NEW p \in (ToSet(crawled) \cap All) \ ToSet(chosen)
       PROVE  Cardinality({q \in All : q # p /\ Kind(known, q) >= Kind(known, p)}) >= Limit
  <2> DEFINE others == {q \in All : q # p /\ Kind(known, q) >= Kind(known, p)}
  <2>1. p \notin Ranked(known)
    <3> HIDE DEF chosen
    <3> QED
      BY <1>6
  <2>2. ~(Cardinality(Before[p]) < Limit)
    BY <1>2, <2>1
  <2>3. Before[p] \subseteq others
    <3> SUFFICES ASSUME NEW q \in All, Ahead(known, q, p)
                 PROVE  q # p /\ Kind(known, q) >= Kind(known, p)
      OBVIOUS
    <3>1. /\ Kind(known, p) \in Kinds \cup {1400} /\ Kind(known, q) \in Kinds \cup {1400}
          /\ Score(known, p) \in Nat /\ Score(known, q) \in Nat /\ p \in Nat /\ q \in Nat
          /\ Kind(known, p) <= Score(known, p)
          /\ Score(known, q) <= Kind(known, q) + 85
      <4>1. p \in Candidates(known) /\ q \in Candidates(known)
        OBVIOUS
      <4>2. p \in Nat /\ q \in Nat
        BY <1>1
      <4> HIDE DEF All, others, Before, chosen, kept
      <4> QED
        BY <4>1, <4>2, ScoreFollowsKind
    <3>2. Score(known, q) >= Score(known, p) /\ q # p
      BY <3>1 DEF Ahead
    <3>3. Kind(known, q) + 85 >= Kind(known, p)
      <4>1. Kind(known, p) \in Nat /\ Kind(known, q) \in Nat
        BY <3>1 DEF Kinds
      <4> HIDE DEF All, others, Before, chosen, kept
      <4> QED
        BY <3>1, <3>2, <4>1
    <3> QED
      BY <3>1, <3>2, <3>3 DEF Kinds
  <2>4. IsFiniteSet(others)
    BY <1>1, FS_Subset
  <2>5. Cardinality(Before[p]) <= Cardinality(others)
    <3> HIDE DEF others, Before
    <3> QED
      BY <2>3, <2>4, FS_Subset
  <2>6. Cardinality(others) \in Nat /\ Cardinality(Before[p]) \in Nat
    <3>1. IsFiniteSet(Before[p])
      <4> HIDE DEF others, Before
      <4> QED
        BY <2>3, <2>4, FS_Subset
    <3> HIDE DEF others, Before
    <3> QED
      BY <2>4, <3>1, FS_CardinalityType
  <2> QED
    BY <2>2, <2>5, <2>6
<1> QED
  BY <1>7, <1>10, <1>11 DEF SelectionOf


-----------------------------------------------------------------------------
(***************************************************************************)
(* The resolution of signals.                                              *)
(***************************************************************************)
\* The website is one of those given, and the selected pages are pages of it.
Pending ==
    /\ website \in Websites /\ requested \in Requests
    /\ ToSet(selected) \subseteq ToSet(website.crawled) /\ DOMAIN selected \subseteq Nat

\* The signals of a field are finitely many, each with a value and a confidence,
\* on a page that has a place among those selected.
LEMMA SignalsAreTyped ==
    ASSUME Pending, NEW n
    PROVE  /\ IsFiniteSet(SignalsOf(n))
           /\ \A s \in SignalsOf(n) :
                /\ s.name = n /\ s.value # {} /\ Confidence(s) \in Nat
                /\ s.page \in ToSet(selected) /\ Position(s.page, selected) \in Nat
                /\ IsFiniteSet(s.value)
                /\ n \in URLFields => s.value \subseteq Pages \cup {0} \cup Unusual
<1>1. WebsiteOK(website)
  BY AssessmentAssumption DEF Pending
<1>2. SignalsOf(n) \subseteq website.signals
  BY DEF SignalsOf
<1>3. IsFiniteSet(SignalsOf(n))
  BY <1>1, <1>2, FS_Subset DEF WebsiteOK
<1>4. ASSUME NEW s \in SignalsOf(n)
      PROVE  /\ s.name = n /\ s.value # {} /\ Confidence(s) \in Nat
             /\ s.page \in ToSet(selected) /\ Position(s.page, selected) \in Nat
             /\ IsFiniteSet(s.value)
             /\ n \in URLFields => s.value \subseteq Pages \cup {0} \cup Unusual
  <2>1. s \in website.signals /\ s.name = n /\ s.page \in ToSet(selected) /\ Admissible(s)
    BY DEF SignalsOf
  <2>2. /\ s.value # {} /\ IsFiniteSet(s.value)
        /\ n \in URLFields => s.value \subseteq Pages \cup {0} \cup Unusual
    BY <1>1, <2>1 DEF WebsiteOK
  <2>3. Position(s.page, selected) \in Nat
    BY <2>1, PositionIsPlace DEF Pending
  <2>4. Confidence(s) \in Nat
    <3>1. CASE s.source = "requested"
      BY <3>1 DEF Confidence
    <3>2. CASE s.source # "requested"
      <4>1. s.name \in DOMAIN Sources /\ s.source \in DOMAIN Sources[s.name]
        BY <2>1, <3>2 DEF Admissible, IsSource
      <4>2. \A name \in DOMAIN Sources : \A source \in DOMAIN Sources[name] :
              Sources[name][source] \in Nat
        BY DEF Sources, NameSources, ServiceSources, CountrySources, WebsiteSources,
               ContactSources, DescriptionSources
      <4> QED
        BY <3>2, <4>1, <4>2 DEF Confidence
    <3> QED
      BY <3>1, <3>2
  <2> QED
    BY <2>1, <2>2, <2>3, <2>4
<1> QED
  BY <1>3, <1>4

\* Some signals are as typed above: what the choices among them need.
Graded(S) ==
    /\ IsFiniteSet(S)
    /\ \A s \in S : Confidence(s) \in Nat /\ Position(s.page, selected) \in Nat

\* Of several signals, some are the most authoritative.
LEMMA SomeAreAuthoritative ==
    ASSUME NEW S, Graded(S), S # {}
    PROVE  Authoritative(S) # {} /\ Authoritative(S) \subseteq S /\ Graded(Authoritative(S))
<1> DEFINE R == {pair \in S \X S : Confidence(pair[1]) > Confidence(pair[2])}
<1>1. Orders(R, S)
  BY DEF Orders, Graded
<1>2. PICK s \in S : \A t \in S : <<t, s>> \notin R
  <2> HIDE DEF R
  <2> QED
    BY <1>1, LeastElement DEF Graded
<1>3. ASSUME NEW t \in S PROVE Confidence(s) >= Confidence(t) - 2
  <2>1. ~(Confidence(t) > Confidence(s))
    BY <1>2
  <2>2. Confidence(s) \in Nat /\ Confidence(t) \in Nat
    BY DEF Graded
  <2> QED
    BY <2>1, <2>2
<1>4. s \in Authoritative(S)
  BY <1>3 DEF Authoritative
<1>5. Authoritative(S) \subseteq S
  BY DEF Authoritative
<1> QED
  BY <1>4, <1>5, FS_Subset DEF Graded

\* Of several signals, one comes first: none is sooner.
LEMMA OneIsSoonest ==
    ASSUME NEW S, Graded(S), S # {}
    PROVE  \E s \in S : \A t \in S : ~Sooner(t, s)
<1> DEFINE R == {pair \in S \X S : Sooner(pair[1], pair[2])}
<1>1. Orders(R, S)
  BY DEF Orders, Graded, Sooner
<1>2. PICK s \in S : \A t \in S : <<t, s>> \notin R
  <2> HIDE DEF R
  <2> QED
    BY <1>1, LeastElement DEF Graded
<1>3. \A t \in S : ~Sooner(t, s)
  BY <1>2
<1> QED
  BY <1>3

\* The shortest of several URLs is one of them.
LEMMA ShortestIsOne ==
    ASSUME NEW S, Graded(S), S # {}, \A s \in S : Length(s) \in Nat
    PROVE  Shortest(S) \in S
<1> DEFINE R == {pair \in S \X S :
                   \/ Length(pair[1]) < Length(pair[2])
                   \/ /\ Length(pair[1]) = Length(pair[2])
                      /\ Sooner(pair[1], pair[2])}
<1>1. Orders(R, S)
  <2>1. \A s \in S : <<s, s>> \notin R
    BY DEF Graded, Sooner
  <2>2. ASSUME NEW s \in S, NEW t \in S, NEW u \in S, <<s, t>> \in R, <<t, u>> \in R
        PROVE  <<s, u>> \in R
    <3>1. Sooner(s, t) /\ Sooner(t, u) => Sooner(s, u)
      BY DEF Graded, Sooner
    <3>2. Length(s) \in Nat /\ Length(t) \in Nat /\ Length(u) \in Nat
      OBVIOUS
    <3> QED
      BY <2>2, <3>1, <3>2
  <2> HIDE DEF R
  <2> QED
    BY <2>1, <2>2 DEF Orders
<1>2. PICK s \in S : \A t \in S : <<t, s>> \notin R
  <2> HIDE DEF R
  <2> QED
    BY <1>1, LeastElement DEF Graded
<1>3. \A t \in S : Length(s) < Length(t) \/ (Length(s) = Length(t) /\ ~Sooner(t, s))
  <2> SUFFICES ASSUME NEW t \in S
               PROVE  Length(s) < Length(t) \/ (Length(s) = Length(t) /\ ~Sooner(t, s))
    OBVIOUS
  <2>1. ~(Length(t) < Length(s)) /\ ~(Length(t) = Length(s) /\ Sooner(t, s))
    BY <1>2
  <2>2. Length(s) \in Nat /\ Length(t) \in Nat
    OBVIOUS
  <2> QED
    BY <2>1, <2>2
<1> QED
  BY <1>3, Zenon DEF Shortest

\* What the site states about a field, as in SiteIsNotOverruled.
Stated(f) ==
    LET S == SignalsOf(f.name)
    IN S # {} =>
         CASE f.name = "services" -> OnlyCut(f.value, S)
           [] f.name = "website_url" ->
                /\ f.value \in {s.value : s \in Authoritative(S)}
                /\ OneHost(Authoritative(S))
           [] f.name = "contact_page_url" ->
                /\ f.value \in {s.value : s \in S}
                /\ OneHost(S)
           [] OTHER -> \A s \in Authoritative(S) : s.value = f.value

\* A field with evidence on the selected pages.
Sourced(f) ==
    /\ f.cites # {} /\ f.cites \subseteq ToSet(selected)
    /\ f.basis \in {"explicit", "inference"} /\ f.weak \in BOOLEAN

\* The signals of a field resolve to a conflict, or to one field as they state it.
ResolvedTo(n, r) ==
    /\ r.conflict \in BOOLEAN
    /\ \A f \in r.fields : f.name = n /\ Sourced(f) /\ Stated(f)
    /\ \A f, g \in r.fields : f = g
    /\ ~r.conflict => (SignalsOf(n) # {} <=> r.fields # {})

\* A value of some signals, cited from the pages of some, is resolved.
LEMMA ResolvedIsSound ==
    ASSUME Pending, NEW n, SignalsOf(n) # {}, NEW value,
           NEW T, T # {}, T \subseteq SignalsOf(n),
           Stated(Field(n, value, PagesOf(T), "explicit", FALSE))
    PROVE  ResolvedTo(n, Resolved(n, value, T))
<1> DEFINE f == Field(n, value, PagesOf(T), "explicit", FALSE)
           r == Resolved(n, value, T)
<1>1. r.fields = {f} /\ r.conflict = FALSE
  BY DEF Resolved
<1>2. /\ f.name = n /\ f.cites = PagesOf(T) /\ f.basis = "explicit" /\ f.weak = FALSE
  BY DEF Field
<1>3. Sourced(f)
  <2>1. PagesOf(T) # {} /\ PagesOf(T) \subseteq ToSet(selected)
    BY SignalsAreTyped DEF PagesOf
  <2> HIDE DEF f
  <2> QED
    BY <1>2, <2>1 DEF Sourced
<1>4. Stated(f)
  OBVIOUS
<1> HIDE DEF f, r
<1> QED
  BY <1>1, <1>2, <1>3, <1>4 DEF ResolvedTo, r

LEMMA ConflictIsSound ==
    ASSUME NEW n PROVE ResolvedTo(n, Conflict)
BY DEF ResolvedTo, Conflict

\* A word is said sooner than another in the order of the signals.
LEMMA SaidSoonerIsOrder ==
    ASSUME NEW S, Graded(S), NEW R,
           R = {pair \in Words(S) \X Words(S) : SaidSooner(pair[1], pair[2], S)}
    PROVE  Orders(R, Words(S))
<1>1. \A s \in S : ~Sooner(s, s)
  BY DEF Graded, Sooner
<1>2. \A s, t, u \in S : Sooner(s, t) /\ Sooner(t, u) => Sooner(s, u)
  BY DEF Graded, Sooner
<1>3. \A w \in Words(S) : \E s \in S : w \in s.value
  BY DEF Words
<1>4. \A w \in Words(S) : ~SaidSooner(w, w, S)
  BY <1>1 DEF SaidSooner
<1>5. ASSUME NEW v \in Words(S), NEW w \in Words(S), NEW x \in Words(S),
             SaidSooner(v, w, S), SaidSooner(w, x, S)
      PROVE  SaidSooner(v, x, S)
  <2>1. PICK s \in S : v \in s.value /\ \A t \in S : w \in t.value => Sooner(s, t)
    BY <1>5 DEF SaidSooner
  <2>2. PICK t \in S : w \in t.value /\ \A u \in S : x \in u.value => Sooner(t, u)
    BY <1>5 DEF SaidSooner
  <2> QED
    BY <1>2, <2>1, <2>2 DEF SaidSooner
<1> QED
  BY <1>4, <1>5 DEF Orders

\* The words of finitely many finite values are finitely many.
LEMMA WordsAreFinite ==
    ASSUME NEW S, IsFiniteSet(S), \A s \in S : IsFiniteSet(s.value)
    PROVE  IsFiniteSet(Words(S)) /\ Cardinality(Words(S)) \in Nat
<1> DEFINE g == [s \in S |-> s.value]
           T == {g[s] : s \in S}
<1>1. g = [s \in S |-> g[s]]
  OBVIOUS
<1>2. \A s \in S : IsFiniteSet(g[s])
  OBVIOUS
<1>3. Words(S) = UNION {g[s] : s \in S}
  BY DEF Words
<1> HIDE DEF g
<1>4. IsFiniteSet(T)
  BY <1>1, ImageIsFinite
<1>5. \A t \in T : IsFiniteSet(t)
  BY <1>2
<1> HIDE DEF T
<1>6. Words(S) = UNION T
  BY <1>3 DEF T
<1> QED
  BY <1>4, <1>5, <1>6, FS_UNION, FS_CardinalityType

\* The services listed are the first, and only the limit leaves one out.
LEMMA ListedIsCut ==
    ASSUME NEW S, Graded(S), \A s \in S : IsFiniteSet(s.value)
    PROVE  OnlyCut(ListedServices(S), S)
<1> DEFINE all == Words(S)
           n == Min({MaxServices, Cardinality(all)})
           R == {pair \in all \X all : SaidSooner(pair[1], pair[2], S)}
           Leading(W) == /\ Cardinality(W) = n
                         /\ \A v \in W, w \in all \ W : ~SaidSooner(w, v, S)
<1>1. IsFiniteSet(all) /\ Cardinality(all) \in Nat
  BY WordsAreFinite DEF Graded
<1>2. MaxServices \in Nat
  BY AssessmentAssumption
<1>3. n = IF MaxServices <= Cardinality(all) THEN MaxServices ELSE Cardinality(all)
  BY <1>1, <1>2, MinMaxOfTwo
<1>4. n \in Nat /\ n <= Cardinality(all)
  <2> HIDE DEF n, all
  <2> QED
    BY <1>1, <1>2, <1>3
<1>5. Orders(R, all)
  BY SaidSoonerIsOrder
<1> HIDE DEF n, all
<1>6. PICK W \in SUBSET all :
        Cardinality(W) = n /\ \A v \in W, w \in all \ W : <<w, v>> \notin R
  <2> HIDE DEF R
  <2> QED
    BY <1>1, <1>4, <1>5, InitialPart
<1>7. Leading(W)
  BY <1>6
<1> DEFINE L == CHOOSE V \in SUBSET all : Leading(V)
<1>8. L \in SUBSET all /\ Leading(L)
  <2> HIDE DEF Leading
  <2> QED
    BY <1>7, Zenon
<1>9. ListedServices(S) = L
  BY DEF ListedServices, all, n
<1> HIDE DEF L
<1>10. ASSUME NEW w \in all \ L
       PROVE  Cardinality({v \in L : ~SaidSooner(w, v, S)}) >= MaxServices
  <2>1. {v \in L : ~SaidSooner(w, v, S)} = L
    BY <1>8
  <2>2. Cardinality(L) # Cardinality(all) /\ Cardinality(L) = n
    BY <1>1, <1>8, FS_Subset
  <2> QED
    BY <1>1, <1>2, <1>3, <2>1, <2>2
<1> QED
  BY <1>8, <1>9, <1>10 DEF OnlyCut, all

\* Services of all sources add up; the soonest signal of them is cited.
LEMMA ServicesResolve ==
    ASSUME Pending, SignalsOf("services") # {}
    PROVE  ResolvedTo("services", ResolveServices(SignalsOf("services")))
<1> DEFINE S == SignalsOf("services")
           T == {s \in S : ~(s.value \subseteq Words({t \in S : Sooner(t, s)}))}
<1>1. Graded(S)
  BY SignalsAreTyped DEF Graded
<1>2. PICK s \in S : \A t \in S : ~Sooner(t, s)
  <2> HIDE DEF S
  <2> QED
    BY <1>1, OneIsSoonest DEF S
<1>3. s \in T
  <2>1. {t \in S : Sooner(t, s)} = {}
    BY <1>2
  <2>2. Words({t \in S : Sooner(t, s)}) = {}
    <3>1. Words({}) = {}
      BY DEF Words
    <3> QED
      BY <2>1, <3>1
  <2>3. s.value # {}
    BY SignalsAreTyped
  <2> QED
    BY <2>2, <2>3
<1>4. Stated(Field("services", ListedServices(S), PagesOf(T), "explicit", FALSE))
  <2>1. OnlyCut(ListedServices(S), S)
    <3>1. \A t \in S : IsFiniteSet(t.value)
      BY SignalsAreTyped
    <3> HIDE DEF S
    <3> QED
      BY <1>1, <3>1, ListedIsCut
  <2> QED
    BY <2>1 DEF Stated, Field
<1>5. ResolveServices(S) = Resolved("services", ListedServices(S), T)
  BY DEF ResolveServices
<1>6. T # {} /\ T \subseteq S
  BY <1>3
<1> HIDE DEF T
<1> QED
  BY <1>4, <1>5, <1>6, ResolvedIsSound

\* The length of a URL is that of its path.
LEMMA LengthIsTyped ==
    ASSUME Pending, NEW n \in URLFields
    PROVE  \A s \in SignalsOf(n) : Length(s) \in Nat
<1> SUFFICES ASSUME NEW s \in SignalsOf(n) PROVE Length(s) \in Nat
  OBVIOUS
<1>1. s.value # {} /\ s.value \subseteq Pages \cup {0} \cup Unusual
  BY SignalsAreTyped
<1>2. (CHOOSE u \in s.value : TRUE) \in s.value
  BY <1>1, Zenon
<1> QED
  BY <1>1, <1>2, AssessmentAssumption DEF Length

\* Of URLs on one host, the shortest is taken.
LEMMA UrlsResolve ==
    ASSUME Pending, NEW n \in URLFields, NEW S \in SUBSET SignalsOf(n), S # {},
           OneHost(S), n = "website_url" => S = Authoritative(SignalsOf(n)),
           n = "contact_page_url" => S = SignalsOf(n)
    PROVE  ResolvedTo(n, Resolved(n, Shortest(S).value, WithValue(S, Shortest(S).value)))
<1> DEFINE value == Shortest(S).value
           T == WithValue(S, value)
<1>1. Graded(S)
  BY SignalsAreTyped, FS_Subset DEF Graded
<1>2. \A s \in S : Length(s) \in Nat
  BY LengthIsTyped
<1>3. Shortest(S) \in S
  BY <1>1, <1>2, ShortestIsOne
<1>4. T # {} /\ T \subseteq S
  BY <1>3 DEF WithValue
<1>5. Stated(Field(n, value, PagesOf(T), "explicit", FALSE))
  <2>1. value \in {s.value : s \in S}
    BY <1>3
  <2> HIDE DEF value, T
  <2>2. CASE n = "website_url"
    BY <2>1, <2>2 DEF Stated, Field
  <2>3. CASE n = "contact_page_url"
    BY <2>1, <2>3 DEF Stated, Field
  <2> QED
    BY <2>2, <2>3 DEF URLFields
<1> HIDE DEF value, T
<1>6. T # {} /\ T \subseteq SignalsOf(n) /\ SignalsOf(n) # {}
  BY <1>4
<1> QED
  BY <1>5, <1>6, ResolvedIsSound DEF value, T

\* Any other value is taken if the authoritative signals agree on it.
LEMMA ValuesResolve ==
    ASSUME Pending, NEW n, n \notin {"services"} \cup URLFields, SignalsOf(n) # {}
    PROVE  ResolvedTo(n, ResolveValue(n, SignalsOf(n)))
<1> DEFINE S == SignalsOf(n)
           best == Authoritative(S)
           T == WithValue(S, Words(best))
<1>1. Graded(S)
  BY SignalsAreTyped DEF Graded
<1>2. best # {} /\ best \subseteq S
  <2> HIDE DEF S
  <2> QED
    BY <1>1, SomeAreAuthoritative DEF S
<1>3. CASE \E s, t \in best : s.value # t.value
  BY <1>3, ConflictIsSound DEF ResolveValue
<1>4. CASE \A s, t \in best : s.value = t.value
  <2>1. PICK s \in best : TRUE
    BY <1>2
  <2> HIDE DEF best
  <2>2. Words(best) = s.value /\ \A t \in best : t.value = Words(best)
    BY <1>4, <2>1 DEF Words
  <2>3. T # {} /\ T \subseteq S
    BY <1>2, <2>1, <2>2 DEF WithValue
  <2>4. ResolveValue(n, S) = Resolved(n, Words(best), T)
    BY <1>4 DEF ResolveValue, best
  <2>5. Stated(Field(n, Words(best), PagesOf(T), "explicit", FALSE))
    <3> DEFINE f == Field(n, Words(best), PagesOf(T), "explicit", FALSE)
    <3>1. f.name = n /\ f.value = Words(best)
      BY DEF Field
    <3> HIDE DEF f, S, T
    <3>2. \A t \in Authoritative(SignalsOf(f.name)) : t.value = f.value
      BY <2>2, <3>1 DEF best, S
    <3> QED
      BY <3>1, <3>2 DEF Stated, f, URLFields
  <2> HIDE DEF T, S
  <2> QED
    BY <2>3, <2>4, <2>5, ResolvedIsSound DEF S
<1> QED
  BY <1>3, <1>4

\* Every field resolves.
LEMMA ResolveIsSound ==
    ASSUME Pending, NEW n
    PROVE  ResolvedTo(n, Resolve(n))
<1> DEFINE S == SignalsOf(n)
<1>1. CASE S = {}
  BY <1>1 DEF Resolve, ResolvedTo
<1>2. CASE S # {} /\ n = "services"
  BY <1>2, ServicesResolve DEF Resolve
<1>3. CASE S # {} /\ n = "website_url"
  <2> DEFINE best == Authoritative(S)
  <2>1. Graded(S)
    BY SignalsAreTyped DEF Graded
  <2>2. best # {} /\ best \subseteq S
    <3> HIDE DEF S
    <3> QED
      BY <1>3, <2>1, SomeAreAuthoritative DEF S
  <2>3. CASE ~OneHost(best)
    BY <1>3, <2>3, ConflictIsSound DEF Resolve, ResolveWebsite
  <2>4. CASE OneHost(best)
    <3>1. ResolvedTo(n, Resolved(n, Shortest(best).value,
                                 WithValue(best, Shortest(best).value)))
      <4>1. best \in SUBSET SignalsOf(n) /\ n \in URLFields /\ n # "contact_page_url"
        BY <1>3, <2>2 DEF URLFields
      <4>2. best = Authoritative(SignalsOf(n))
        OBVIOUS
      <4> HIDE DEF best, S
      <4> QED
        BY <2>2, <2>4, <4>1, <4>2, UrlsResolve
    <3> QED
      BY <1>3, <2>4, <3>1 DEF Resolve, ResolveWebsite
  <2> QED
    BY <2>3, <2>4
<1>4. CASE S # {} /\ n = "contact_page_url"
  <2>1. CASE ~OneHost(S)
    BY <1>4, <2>1, ConflictIsSound DEF Resolve, ResolveContact
  <2>2. CASE OneHost(S)
    <3>1. ResolvedTo(n, Resolved(n, Shortest(S).value, WithValue(S, Shortest(S).value)))
      <4>1. S \in SUBSET SignalsOf(n) /\ n \in URLFields /\ n # "website_url"
        BY <1>4 DEF URLFields
      <4> QED
        BY <1>4, <2>2, <4>1, UrlsResolve
    <3> QED
      BY <1>4, <2>2, <3>1 DEF Resolve, ResolveContact
  <2> QED
    BY <2>1, <2>2
<1>5. CASE S # {} /\ n \notin {"services"} \cup URLFields
  <2>1. Resolve(n) = ResolveValue(n, S)
    BY <1>5 DEF Resolve, URLFields
  <2> QED
    BY <1>5, <2>1, ValuesResolve
<1> QED
  BY <1>1, <1>2, <1>3, <1>4, <1>5 DEF URLFields

\* What the deterministic extractor returns: sourced fields with different names,
\* one for each that the site says anything about; they are as stated.
Distinct(fields) == \A f, g \in fields : f.name = g.name => f = g

Ascertained(fields) ==
    /\ Distinct(fields)
    /\ \A f \in fields : Sourced(f) /\ Stated(f)
    /\ \A n \in ToSet(Expected) : SignalsOf(n) # {} => \E f \in fields : f.name = n

\* What a sequence holds is finite, and a concatenation holds it.
LEMMA ConcatenationHolds ==
    ASSUME NEW S, NEW s \in Seq(S), NEW t \in Seq(S)
    PROVE  /\ ToSet(s) \subseteq ToSet(s \o t) /\ ToSet(t) \subseteq ToSet(s \o t)
           /\ IsFiniteSet(ToSet(s))
<1> DEFINE u == s \o t
<1>1. DOMAIN s = 1..Len(s) /\ DOMAIN t = 1..Len(t) /\ DOMAIN u = 1..(Len(s) + Len(t))
  OBVIOUS
<1>2. ASSUME NEW i \in 1..Len(s) PROVE i \in 1..(Len(s) + Len(t)) /\ u[i] = s[i]
  OBVIOUS
<1>3. ASSUME NEW i \in 1..Len(t)
      PROVE  Len(s) + i \in 1..(Len(s) + Len(t)) /\ u[Len(s) + i] = t[i]
  OBVIOUS
<1> HIDE DEF u
<1>4. ASSUME NEW i \in DOMAIN s PROVE s[i] \in ToSet(u)
  BY <1>1, <1>2 DEF ToSet
<1>5. ASSUME NEW i \in DOMAIN t PROVE t[i] \in ToSet(u)
  BY <1>1, <1>3 DEF ToSet
<1>6. IsFiniteSet(ToSet(s))
  <2> DEFINE n == Len(s)
  <2>1. n \in Nat
    OBVIOUS
  <2>2. s \in Surjection(1..n, ToSet(s))
    BY <1>1 DEF Surjection, ToSet
  <2> HIDE DEF n
  <2>3. IsFiniteSet(1..n)
    BY <2>1, FS_Interval
  <2> QED
    BY <2>2, <2>3, FS_Surjection
<1> QED
  BY <1>4, <1>5, <1>6 DEF ToSet, u

LEMMA ExpectedIsTyped ==
    ASSUME requested \in Requests
    PROVE  /\ DOMAIN Expected \subseteq Nat
           /\ ToSet(requested) \subseteq ToSet(Expected)
           /\ ToSet(Core) \subseteq ToSet(Expected)
           /\ IsFiniteSet(ToSet(requested)) /\ IsFiniteSet(ToSet(Expected))
<1> DEFINE S == STRING \cup ToSet(Core)
<1>1. requested \in Seq(S)
  <2>1. requested \in Seq(STRING)
    BY AssessmentAssumption
  <2> QED
    BY <2>1
<1>2. Core \in Seq(S)
  <2>1. Core \in Seq(ToSet(Core))
    <3>1. Len(Core) = 6 /\ Core = [i \in 1..6 |-> Core[i]]
      BY DEF Core
    <3>2. \A i \in 1..6 : Core[i] \in ToSet(Core)
      BY DEF Core, ToSet
    <3> HIDE DEF Core
    <3> QED
      BY <3>1, <3>2
  <2> QED
    BY <2>1
<1> HIDE DEF S
<1>3. Expected \in Seq(S)
  BY <1>1, <1>2 DEF Expected
<1>4. IsFiniteSet(ToSet(requested)) /\ IsFiniteSet(ToSet(Expected))
  BY <1>1, <1>3, ConcatenationHolds
<1>5. ToSet(requested) \subseteq ToSet(Expected) /\ ToSet(Core) \subseteq ToSet(Expected)
  BY <1>1, <1>2, ConcatenationHolds DEF Expected
<1> QED
  BY <1>3, <1>4, <1>5

\* The summary, if there is one, is sourced and nothing else states it.
LEMMA SummaryIsSound ==
    ASSUME requested \in Requests, NEW fields, Distinct(fields),
           \A f \in fields : Sourced(f) /\ Stated(f)
    PROVE  LET all == fields \cup Summary(fields)
           IN /\ Distinct(all) /\ \A f \in all : Sourced(f)
              /\ Ascertained(fields) => Ascertained(all)
<1>1. CASE Summary(fields) = {}
  BY <1>1
<1>2. CASE Summary(fields) # {}
  <2> DEFINE support == {f \in fields : f.name \in {"company_name", "services", "country"}}
             h == Field("summary", UNION {f.value : f \in support},
                        UNION {f.cites : f \in support}, "inference", FALSE)
  <2>1. /\ "summary" \in ToSet(requested) /\ \A f \in fields : f.name # "summary"
        /\ \E f \in fields : f.name = "company_name" /\ f.value \cap Unusual = {}
    BY <1>2 DEF Summary
  <2>2. Summary(fields) = {h}
    BY <2>1 DEF Summary
  <2>3. Ascertained(fields) => SignalsOf("summary") = {}
    BY <2>1, ExpectedIsTyped DEF Ascertained
  <2>4. /\ h.name = "summary" /\ h.cites = UNION {f.cites : f \in support}
        /\ h.basis = "inference" /\ h.weak = FALSE
    BY DEF Field
  <2>5. Ascertained(fields) => Stated(h)
    <3> HIDE DEF h
    <3> QED
      BY <2>3, <2>4 DEF Stated
  <2>6. PICK g \in support : TRUE
    BY <2>1
  <2>7. \A f \in support : f.cites # {} /\ f.cites \subseteq ToSet(selected)
    BY DEF Sourced
  <2> HIDE DEF h, support
  <2>8. Sourced(h)
    <3>1. h.cites # {}
      BY <2>4, <2>6, <2>7
    <3>2. h.cites \subseteq ToSet(selected)
      BY <2>4, <2>7
    <3> QED
      BY <2>4, <3>1, <3>2 DEF Sourced
  <2>9. Distinct(fields \cup {h})
    BY <2>1, <2>4 DEF Distinct
  <2>10. Ascertained(fields) => Ascertained(fields \cup {h})
    BY <2>5, <2>8, <2>9 DEF Ascertained
  <2> QED
    BY <2>2, <2>8, <2>9, <2>10
<1> QED
  BY <1>1, <1>2

LEMMA FactsAreAscertained ==
    ASSUME Pending
    PROVE  /\ DeterministicFacts.conflict \in BOOLEAN
           /\ Distinct(DeterministicFacts.fields)
           /\ \A f \in DeterministicFacts.fields : Sourced(f)
           /\ ~DeterministicFacts.conflict => Ascertained(DeterministicFacts.fields)
<1> DEFINE found == {Resolve(n) : n \in ToSet(Expected)}
           fields == UNION {r.fields : r \in found}
<1>1. /\ DeterministicFacts.fields = fields \cup Summary(fields)
      /\ DeterministicFacts.conflict = \E r \in found : r.conflict
  BY DEF DeterministicFacts
<1>2. \A n \in ToSet(Expected) : Resolve(n) \in found /\ ResolvedTo(n, Resolve(n))
  BY ResolveIsSound
<1>3. \A f \in fields : \E n \in ToSet(Expected) : f \in Resolve(n).fields
  OBVIOUS
<1>4. \A n \in ToSet(Expected) : Resolve(n).fields \subseteq fields
  OBVIOUS
<1>5. \A f \in fields : /\ Sourced(f) /\ Stated(f)
                        /\ f.name \in ToSet(Expected) /\ f \in Resolve(f.name).fields
  <2> HIDE DEF fields, found
  <2> QED
    BY <1>2, <1>3 DEF ResolvedTo
<1>6. Distinct(fields)
  <2> HIDE DEF fields, found
  <2> QED
    BY <1>2, <1>5 DEF ResolvedTo, Distinct
<1>7. ASSUME ~DeterministicFacts.conflict, NEW n \in ToSet(Expected), SignalsOf(n) # {}
      PROVE  \E f \in fields : f.name = n
  <2>1. ~Resolve(n).conflict
    BY <1>1, <1>2, <1>7
  <2>2. PICK f \in Resolve(n).fields : TRUE
    BY <1>2, <1>7, <2>1 DEF ResolvedTo
  <2> HIDE DEF fields, found
  <2> QED
    BY <1>2, <1>4, <2>2 DEF ResolvedTo
<1> HIDE DEF found, fields
<1>8. requested \in Requests
  BY DEF Pending
<1>9. ~DeterministicFacts.conflict => Ascertained(fields)
  BY <1>5, <1>6, <1>7 DEF Ascertained
<1>10. /\ Distinct(DeterministicFacts.fields)
       /\ \A f \in DeterministicFacts.fields : Sourced(f)
       /\ ~DeterministicFacts.conflict => Ascertained(DeterministicFacts.fields)
  <2>1. \A f \in fields : Sourced(f) /\ Stated(f)
    BY <1>5
  <2> QED
    BY <1>1, <1>6, <1>8, <1>9, <2>1, SummaryIsSound
<1>11. DeterministicFacts.conflict \in BOOLEAN
  BY <1>1
<1> QED
  BY <1>10, <1>11

-----------------------------------------------------------------------------
(***************************************************************************)
(* The score.                                                              *)
(***************************************************************************)
\* A component within its bounds, whose withheld points are explained.
Justified(part, maximum) ==
    /\ part \in [score : 0..maximum, explained : BOOLEAN]
    /\ part.score < maximum => part.explained

\* Among fields with different names that an extraction lists, one is foremost.
LEMMA ForemostIsFirst ==
    ASSUME NEW names, DOMAIN names \subseteq Nat,
           NEW fields, fields # {}, \A f \in fields : f.name \in ToSet(names)
    PROVE  /\ Foremost(fields, names) \in fields
           /\ \A g \in fields :
                Position(Foremost(fields, names).name, names) <= Position(g.name, names)
<1> DEFINE places == {Position(f.name, names) : f \in fields}
<1>1. \A f \in fields : Position(f.name, names) \in Nat
  BY PositionIsPlace
<1>2. places \in SUBSET Nat /\ places # {}
  BY <1>1
<1>3. PICK x \in places : \A y \in places : x <= y
  <2> HIDE DEF places
  <2> QED
    BY <1>2, LeastNatural
<1>4. \E f \in fields : \A g \in fields : Position(f.name, names) <= Position(g.name, names)
  <2>1. PICK f \in fields : x = Position(f.name, names)
    OBVIOUS
  <2>2. \A g \in fields : Position(f.name, names) <= Position(g.name, names)
    BY <1>3, <2>1
  <2> QED
    BY <2>2
<1> QED
  BY <1>4, Zenon DEF Foremost

LEMMA TopicIsJustified ==
    ASSUME NEW fields PROVE Justified(TopicScore(fields), 30)
BY DEF Justified, TopicScore, Part

LEMMA LocationIsJustified ==
    ASSUME NEW fields, NEW names, NEW contradicted
    PROVE  Justified(LocationScore(fields, names, contradicted), 20)
BY DEF Justified, LocationScore, Part

LEMMA ServicesAreJustified ==
    ASSUME NEW fields, NEW names PROVE Justified(ServicesScore(fields, names), 15)
BY DEF Justified, ServicesScore, Part

LEMMA UrlIsJustified ==
    ASSUME NEW fields, NEW name PROVE Justified(UrlScore(fields, name), 10)
BY DEF Justified, UrlScore, Part

\* No deductions lead below zero, and none of the points is left unexplained.
LEMMA EvidenceIsJustified ==
    ASSUME NEW fields, NEW contradicted, NEW weak, IsFiniteSet(weak)
    PROVE  Justified(EvidenceScore(fields, contradicted, weak), 10)
<1>1. CASE fields = {}
  BY <1>1 DEF EvidenceScore, Justified, Part
<1>2. CASE fields # {}
  <2> DEFINE points == EvidencePoints(fields, contradicted, weak)
  <2>1. Cardinality(weak) \in Nat
    BY FS_CardinalityType
  <2>2. Min({4, 2 * Cardinality(weak)}) \in 0..4
    <3> DEFINE a == 2 * Cardinality(weak)
    <3>1. a \in Nat
      BY <2>1
    <3>2. Min({4, a}) = IF 4 <= a THEN 4 ELSE a
      BY <3>1, MinMaxOfTwo
    <3> QED
      BY <3>1, <3>2
  <2>3. points \in Int /\ points <= 10
    BY <2>2 DEF EvidencePoints
  <2> HIDE DEF points
  <2>4. Max({0, points}) \in 0..10
    <3>1. Max({0, points}) = IF 0 <= points THEN points ELSE 0
      BY <2>3, MinMaxOfTwo
    <3> QED
      BY <2>3, <3>1
  <2>5. EvidenceScore(fields, contradicted, weak) = Part(Max({0, points}), TRUE)
    BY <1>2 DEF EvidenceScore, points
  <2> QED
    BY <2>4, <2>5 DEF Justified, Part
<1> QED
  BY <1>1, <1>2

\* A ratio of five, rounded half up, is at most five, and five if it is of all.
LEMMA RatioIsBounded ==
    ASSUME NEW total \in Nat, total > 0, NEW completed \in Nat, completed <= total
    PROVE  /\ RoundRatio(5, completed, total) \in 0..5
           /\ completed = total => RoundRatio(5, completed, total) = 5
<1> DEFINE a == 2 * 5 * completed + total
           b == 2 * total
           q == a \div b
<1>1. a \in Nat /\ b \in Nat /\ b > 0 /\ a < 6 * b
  OBVIOUS
<1>2. completed = total => a >= 5 * b
  OBVIOUS
<1> HIDE DEF a, b
<1>3. q \in Int /\ b * q <= a /\ a < b * q + b
  BY <1>1
<1> HIDE DEF q
<1>4. q >= 0
  <2> SUFFICES ASSUME q <= -1 PROVE FALSE
    BY <1>3
  <2>1. b * q <= -b
    BY <1>1, <1>3
  <2> QED
    BY <1>1, <1>3, <2>1
<1>5. q <= 5
  <2> SUFFICES ASSUME q >= 6 PROVE FALSE
    BY <1>3
  <2>1. b * q >= 6 * b
    BY <1>1, <1>3
  <2> QED
    BY <1>1, <1>3, <2>1
<1>6. completed = total => q >= 5
  <2> SUFFICES ASSUME completed = total, q <= 4 PROVE FALSE
    BY <1>3
  <2>1. b * q <= 4 * b
    BY <1>1, <1>3
  <2> QED
    BY <1>1, <1>2, <1>3, <2>1
<1>7. RoundRatio(5, completed, total) = q
  BY DEF RoundRatio, q, a, b
<1> QED
  BY <1>3, <1>4, <1>5, <1>6, <1>7

LEMMA CompletenessIsJustified ==
    ASSUME NEW fields, NEW asked, IsFiniteSet(asked)
    PROVE  Justified(CompletenessScore(fields, asked), 5)
<1>1. CASE asked = {}
  BY <1>1 DEF CompletenessScore, Justified, Part
<1>2. CASE asked # {}
  <2> DEFINE missing == asked \ {f.name : f \in {g \in fields : g.cites # {}}}
             completed == Cardinality(asked \ missing)
             total == Cardinality(asked)
             ratio == RoundRatio(5, completed, total)
  <2>1. missing \subseteq asked
    OBVIOUS
  <2>2. CompletenessScore(fields, asked) = Part(ratio, missing # {})
    BY <1>2 DEF CompletenessScore
  <2> HIDE DEF missing
  <2>3. total \in Nat /\ total > 0
    BY <1>2, FS_CardinalityType, FS_EmptySet
  <2>4. completed \in Nat /\ completed <= total
    BY FS_Subset, FS_CardinalityType
  <2>5. missing = {} => completed = total
    <3>1. missing = {} => asked \ missing = asked
      OBVIOUS
    <3> QED
      BY <3>1
  <2> HIDE DEF completed, total
  <2>6. ratio \in 0..5 /\ (missing = {} => ratio = 5)
    BY <2>3, <2>4, <2>5, RatioIsBounded
  <2> HIDE DEF ratio
  <2>7. CASE missing = {}
    <3>1. CompletenessScore(fields, asked) = Part(5, FALSE)
      BY <2>2, <2>6, <2>7
    <3> QED
      BY <3>1 DEF Justified, Part
  <2>8. CASE missing # {}
    <3>1. CompletenessScore(fields, asked) = Part(ratio, TRUE)
      BY <2>2, <2>8
    <3> QED
      BY <2>6, <3>1 DEF Justified, Part
  <2> QED
    BY <2>7, <2>8
<1> QED
  BY <1>1, <1>2

\* A score has its components.
LEMMA ScoreIsFunction ==
    ASSUME NEW fields, NEW names, NEW asked, NEW contradicted, NEW weak
    PROVE  LET all == RelevanceScore(fields, names, asked, contradicted, weak)
           IN all = [c \in Components |-> all[c]]
<1> DEFINE Of(c) ==
      LET supported == Supported(fields)
      IN CASE c = "topic_match" -> TopicScore(supported)
            [] c = "country_match" -> LocationScore(supported, names, contradicted)
            [] c = "relevant_services" -> ServicesScore(supported, names)
            [] c = "official_website_confidence" -> WebsiteScore(supported)
            [] c = "contact_page" -> ContactScore(supported)
            [] c = "evidence_quality" -> EvidenceScore(supported, contradicted, weak)
            [] c = "requested_field_completeness" -> CompletenessScore(fields, asked)
<1>1. RelevanceScore(fields, names, asked, contradicted, weak) = [c \in Components |-> Of(c)]
  BY DEF RelevanceScore
<1> HIDE DEF Of
<1> QED
  BY <1>1

\* Every component of a score is justified.
LEMMA ScoreIsJustified ==
    ASSUME NEW fields, NEW names, NEW asked, NEW contradicted, NEW weak,
           IsFiniteSet(asked), IsFiniteSet(weak), NEW c \in Components
    PROVE  Justified(RelevanceScore(fields, names, asked, contradicted, weak)[c], Maximum[c])
<1> DEFINE supported == Supported(fields)
           all == RelevanceScore(fields, names, asked, contradicted, weak)
<1>1. all = [d \in Components |->
          CASE d = "topic_match" -> TopicScore(supported)
            [] d = "country_match" -> LocationScore(supported, names, contradicted)
            [] d = "relevant_services" -> ServicesScore(supported, names)
            [] d = "official_website_confidence" -> WebsiteScore(supported)
            [] d = "contact_page" -> ContactScore(supported)
            [] d = "evidence_quality" -> EvidenceScore(supported, contradicted, weak)
            [] d = "requested_field_completeness" -> CompletenessScore(fields, asked)]
  BY DEF RelevanceScore
<1> HIDE DEF supported, all
<1>2. c \in {"topic_match", "country_match", "relevant_services",
             "official_website_confidence", "contact_page", "evidence_quality",
             "requested_field_completeness"}
  BY DEF Components
<1>3. CASE c = "topic_match"
  <2>1. all[c] = TopicScore(supported) /\ Maximum[c] = 30
    BY <1>1, <1>3 DEF Maximum
  <2> QED
    BY <2>1, TopicIsJustified DEF all
<1>4. CASE c = "country_match"
  <2>1. all[c] = LocationScore(supported, names, contradicted) /\ Maximum[c] = 20
    BY <1>1, <1>4 DEF Maximum
  <2> QED
    BY <2>1, LocationIsJustified DEF all
<1>5. CASE c = "relevant_services"
  <2>1. all[c] = ServicesScore(supported, names) /\ Maximum[c] = 15
    BY <1>1, <1>5 DEF Maximum
  <2> QED
    BY <2>1, ServicesAreJustified DEF all
<1>6. CASE c = "official_website_confidence"
  <2>1. all[c] = UrlScore(supported, "website_url") /\ Maximum[c] = 10
    BY <1>1, <1>6 DEF Maximum, WebsiteScore
  <2> QED
    BY <2>1, UrlIsJustified DEF all
<1>7. CASE c = "contact_page"
  <2>1. all[c] = UrlScore(supported, "contact_page_url") /\ Maximum[c] = 10
    BY <1>1, <1>7 DEF Maximum, ContactScore
  <2> QED
    BY <2>1, UrlIsJustified DEF all
<1>8. CASE c = "evidence_quality"
  <2>1. all[c] = EvidenceScore(supported, contradicted, weak) /\ Maximum[c] = 10
    BY <1>1, <1>8 DEF Maximum
  <2> QED
    BY <2>1, EvidenceIsJustified DEF all
<1>9. CASE c = "requested_field_completeness"
  <2>1. all[c] = CompletenessScore(fields, asked) /\ Maximum[c] = 5
    BY <1>1, <1>9 DEF Maximum
  <2> QED
    BY <2>1, CompletenessIsJustified DEF all
<1> QED
  BY <1>2, <1>3, <1>4, <1>5, <1>6, <1>7, <1>8, <1>9 DEF all

\* The fields of an extraction, and those of them that are explicit.
Listed(all, names) ==
    /\ DOMAIN names \subseteq Nat /\ \A f \in all : f.name \in ToSet(names)
    /\ Distinct(all)
    /\ \A f \in all : f.basis \in {"explicit", "inference"}

Strict(all) == {f \in all : Explicit(f)}

\* A component gets no more than from the explicit fields, or than inference earns.
EarnsLittle(part, sure, worth) == part.score <= sure.score \/ part.score <= worth

LEMMA TopicEarnsLittle ==
    ASSUME NEW fields
    PROVE  EarnsLittle(TopicScore(fields), TopicScore(Strict(fields)), 10)
<1>1. CASE \E f \in fields : Matches(f) /\ f.name \in ServiceFields /\ Explicit(f)
  <2>1. TopicScore(fields) = Part(30, FALSE)
    BY <1>1 DEF TopicScore
  <2>2. TopicScore(Strict(fields)) = Part(30, FALSE)
    BY <1>1 DEF TopicScore, Strict
  <2> QED
    BY <2>1, <2>2 DEF EarnsLittle, Part
<1>2. CASE ~\E f \in fields : Matches(f) /\ f.name \in ServiceFields /\ Explicit(f)
  <2>1. TopicScore(fields) \in {Part(10, TRUE), Part(8, TRUE), Part(0, TRUE)}
    BY <1>2 DEF TopicScore
  <2> QED
    BY <2>1 DEF EarnsLittle, Part
<1> QED
  BY <1>1, <1>2

\* If the foremost of some fields is explicit, it is the foremost explicit one.
LEMMA ForemostOfExplicit ==
    ASSUME NEW fields, NEW names, Listed(fields, names), fields # {},
           Explicit(Foremost(fields, names))
    PROVE  /\ Strict(fields) # {} /\ Foremost(fields, names) \in fields
           /\ Foremost(Strict(fields), names) = Foremost(fields, names)
<1> DEFINE f == Foremost(fields, names)
           g == Foremost(Strict(fields), names)
<1>1. f \in fields /\ \A h \in fields : Position(f.name, names) <= Position(h.name, names)
  BY ForemostIsFirst DEF Listed
<1>2. f \in Strict(fields) /\ Strict(fields) \subseteq fields
  BY <1>1 DEF Strict
<1>3. /\ g \in Strict(fields)
      /\ \A h \in Strict(fields) : Position(g.name, names) <= Position(h.name, names)
  BY <1>2, ForemostIsFirst DEF Listed
<1> HIDE DEF f, g
<1>4. f.name \in ToSet(names) /\ g.name \in ToSet(names)
  BY <1>1, <1>2, <1>3 DEF Listed
<1>5. /\ Position(f.name, names) <= Position(g.name, names)
      /\ Position(g.name, names) <= Position(f.name, names)
  BY <1>1, <1>2, <1>3
<1>6. /\ Position(f.name, names) \in Nat /\ names[Position(f.name, names)] = f.name
      /\ Position(g.name, names) \in Nat /\ names[Position(g.name, names)] = g.name
  BY <1>4, PositionIsPlace DEF Listed
<1>7. Position(f.name, names) = Position(g.name, names)
  BY <1>5, <1>6
<1>8. f.name = g.name
  BY <1>6, <1>7
<1>9. f = g
  BY <1>1, <1>2, <1>3, <1>8 DEF Listed, Distinct
<1> QED
  BY <1>1, <1>2, <1>9 DEF f, g

LEMMA ListedSubset ==
    ASSUME NEW fields, NEW names, Listed(fields, names), NEW some \in SUBSET fields
    PROVE  Listed(some, names)
BY DEF Listed, Distinct

LEMMA LocationEarnsLittle ==
    ASSUME NEW fields, NEW names, NEW contradicted, Listed(fields, names)
    PROVE  EarnsLittle(LocationScore(fields, names, contradicted),
                       LocationScore(Strict(fields), names, contradicted), 5)
<1> DEFINE deciding == {f \in fields : Locates(f)}
           f == Foremost(deciding, names)
           all == LocationScore(fields, names, contradicted)
           sure == LocationScore(Strict(fields), names, contradicted)
<1>1. {h \in Strict(fields) : Locates(h)} = Strict(deciding)
  BY DEF Strict
<1>2. CASE deciding = {}
  <2>1. all = Part(0, TRUE)
    BY <1>2 DEF LocationScore
  <2> QED
    BY <2>1 DEF EarnsLittle, Part
<1>3. CASE deciding # {} /\ ~Explicit(f)
  <2>1. f \in deciding
    <3>1. Listed(deciding, names)
      BY ListedSubset
    <3> HIDE DEF deciding
    <3> QED
      BY <1>3, <3>1, ForemostIsFirst DEF Listed
  <2>2. AtTarget(f) /\ Inferred(f)
    <3>1. f \in fields /\ Locates(f)
      BY <2>1
    <3> HIDE DEF f
    <3> QED
      BY <1>3, <3>1 DEF Locates, Listed, Explicit, Inferred
  <2>3. all = Part(5, TRUE)
    BY <1>3, <2>2 DEF LocationScore
  <2> QED
    BY <2>3 DEF EarnsLittle, Part
<1>4. CASE deciding # {} /\ Explicit(f)
  <2>1. Listed(deciding, names)
    BY ListedSubset
  <2>2. Strict(deciding) # {} /\ Foremost(Strict(deciding), names) = f
    <3> HIDE DEF deciding
    <3> QED
      BY <1>4, <2>1, ForemostOfExplicit
  <2>3. sure = IF AtTarget(f) /\ Inferred(f) THEN Part(5, TRUE)
               ELSE IF AtTarget(f) /\ f.name \notin contradicted THEN Part(20, FALSE)
               ELSE Part(10, TRUE)
    <3> HIDE DEF f, deciding
    <3> QED
      BY <1>1, <2>2 DEF LocationScore
  <2>4. all = IF AtTarget(f) /\ Inferred(f) THEN Part(5, TRUE)
              ELSE IF AtTarget(f) /\ f.name \notin contradicted THEN Part(20, FALSE)
              ELSE Part(10, TRUE)
    BY <1>4 DEF LocationScore
  <2> HIDE DEF f, all, sure
  <2>5. all = sure /\ all.score \in Nat
    BY <2>3, <2>4 DEF Part
  <2> QED
    BY <2>5 DEF EarnsLittle, all, sure
<1> QED
  BY <1>2, <1>3, <1>4

LEMMA ServicesEarnLittle ==
    ASSUME NEW fields, NEW names, Listed(fields, names)
    PROVE  EarnsLittle(ServicesScore(fields, names), ServicesScore(Strict(fields), names), 5)
<1> DEFINE deciding == {f \in fields : f.name \in ServiceFields /\ Matches(f)}
           f == Foremost(deciding, names)
           all == ServicesScore(fields, names)
           sure == ServicesScore(Strict(fields), names)
<1>1. {h \in Strict(fields) : h.name \in ServiceFields /\ Matches(h)} = Strict(deciding)
  BY DEF Strict
<1>2. CASE deciding = {} \/ ~Explicit(f)
  <2>1. all \in {Part(0, TRUE), Part(5, TRUE)}
    BY <1>2 DEF ServicesScore
  <2> QED
    BY <2>1 DEF EarnsLittle, Part
<1>3. CASE deciding # {} /\ Explicit(f)
  <2>1. Listed(deciding, names)
    BY ListedSubset
  <2>2. Strict(deciding) # {} /\ Foremost(Strict(deciding), names) = f
    <3> HIDE DEF deciding
    <3> QED
      BY <1>3, <2>1, ForemostOfExplicit
  <2>3. sure = Part(15, FALSE)
    <3> HIDE DEF f, deciding
    <3> QED
      BY <1>1, <1>3, <2>2 DEF ServicesScore
  <2>4. all = Part(15, FALSE)
    BY <1>3 DEF ServicesScore
  <2> QED
    BY <2>3, <2>4 DEF EarnsLittle, Part
<1> QED
  BY <1>2, <1>3

LEMMA UrlEarnsLittle ==
    ASSUME NEW fields, NEW name
    PROVE  EarnsLittle(UrlScore(fields, name), UrlScore(Strict(fields), name), 0)
<1>1. CASE \E f \in fields : /\ f.name = name /\ Explicit(f) /\ f.value \subseteq OnSite
                             /\ f.cites \cap OnSite # {}
  <2>1. UrlScore(fields, name) = Part(10, FALSE)
    BY <1>1 DEF UrlScore
  <2>2. UrlScore(Strict(fields), name) = Part(10, FALSE)
    BY <1>1 DEF UrlScore, Strict
  <2> QED
    BY <2>1, <2>2 DEF EarnsLittle, Part
<1>2. CASE ~\E f \in fields : /\ f.name = name /\ Explicit(f) /\ f.value \subseteq OnSite
                              /\ f.cites \cap OnSite # {}
  <2>1. UrlScore(fields, name) = Part(0, TRUE)
    BY <1>2 DEF UrlScore
  <2> QED
    BY <2>1 DEF EarnsLittle, Part
<1> QED
  BY <1>1, <1>2

-----------------------------------------------------------------------------
(***************************************************************************)
(* The steps.                                                              *)
(***************************************************************************)
\* What an extraction returned: sourced fields with different names, and if it was
\* accepted, as the site states them.
Established(r) ==
    /\ Distinct(r.fields)
    /\ \A f \in r.fields : Sourced(f) /\ f.name \in ToSet(Expected)
    /\ r.accepted => \A f \in r.fields : Stated(f)

ScoreOK(points) ==
    /\ points \in [Components -> [score : Int, explained : BOOLEAN]]
    /\ \A c \in Components : Justified(points[c], Maximum[c])

Phases == {"crawled", "selected", "asking", "extracted", "recorded", "scored",
           "skipped", "failed"}

Started == phase = "crawled" => result = None /\ supplied = {}
Counted == /\ attempt \in 0..MaxResponseRetries
           /\ sent \in 0..(MaxHttpRetries + 1) /\ (sent > 0 <=> phase = "asking")
Chosen == phase \notin {"crawled", "skipped"} =>
            SelectionOf(website.known, website.crawled, selected)
Asking == phase = "asking" => Ascertained(facts.fields)
Returned == /\ result # None => Established(result)
            /\ phase \in {"extracted", "recorded"} => Established(result)
Scored == score # None => ScoreOK(score)

IInv ==
    /\ Pending /\ phase \in Phases /\ supplied \subseteq ToSet(selected)
    /\ Started /\ Counted /\ Chosen /\ Asking /\ Returned /\ Scored

\* What is finalized is established.
LEMMA FinalizeIsSound ==
    ASSUME NEW fields, NEW reasons \in BOOLEAN, Distinct(fields),
           \A f \in fields : Sourced(f), ~reasons => \A f \in fields : Stated(f)
    PROVE  Established(Finalize(fields, reasons))
<1> DEFINE kept == {f \in fields : f.name \in ToSet(Expected)}
           r == Finalize(fields, reasons)
<1>1. r.fields = kept /\ (r.accepted => ~reasons)
  BY DEF Finalize
<1>2. kept \subseteq fields /\ \A f \in kept : f.name \in ToSet(Expected)
  OBVIOUS
<1> HIDE DEF kept, r
<1> QED
  BY <1>1, <1>2 DEF Established, Distinct, r

\* What an answer adds to the facts is sourced, and nothing the site states.
LEMMA AnswerIsSound ==
    ASSUME Ascertained(facts.fields), supplied \subseteq ToSet(selected),
           NEW answer \in Answers, NEW passed \in SUBSET answer,
           \A f \in passed : f.name \in ToSet(Expected) /\ ~FieldRejected(f),
           NEW fields,
           fields = {Field(f.name, f.value, f.cites, f.basis, f.weak) : f \in passed}
    PROVE  LET all == Merge(facts.fields, fields)
           IN Distinct(all) /\ \A f \in all : Sourced(f) /\ Stated(f)
<1> DEFINE all == Merge(facts.fields, fields)
<1>1. AnswerOK(answer)
  BY AssessmentAssumption
<1>2. \A f \in passed : /\ f.cites # {} /\ f.cites \subseteq supplied
                        /\ f.basis \in {"explicit", "inference"} /\ f.weak \in BOOLEAN
  BY <1>1 DEF AnswerOK, FieldRejected
<1>3. ASSUME NEW g \in fields
      PROVE  \E f \in passed : /\ g = Field(f.name, f.value, f.cites, f.basis, f.weak)
                               /\ g.name = f.name /\ g.cites = f.cites
                               /\ g.basis = f.basis /\ g.weak = f.weak
  BY DEF Field
<1>4. ASSUME NEW g \in fields PROVE Sourced(g) /\ g.name \in ToSet(Expected)
  BY <1>2, <1>3 DEF Sourced
<1>5. Distinct(fields)
  BY <1>1, <1>3 DEF Distinct, AnswerOK
<1>6. \A g \in all :
        \/ g \in facts.fields
        \/ g \in fields /\ \A h \in facts.fields : h.name # g.name
  BY DEF Merge
<1> HIDE DEF all
<1>7. Distinct(all)
  BY <1>5, <1>6 DEF Distinct, Ascertained
<1>8. ASSUME NEW g \in all PROVE Sourced(g) /\ Stated(g)
  <2>1. CASE g \in facts.fields
    BY <2>1 DEF Ascertained
  <2>2. CASE g \in fields /\ \A h \in facts.fields : h.name # g.name
    <3>1. SignalsOf(g.name) = {}
      BY <1>4, <2>2 DEF Ascertained
    <3> QED
      BY <1>4, <2>2, <3>1 DEF Stated
  <2> QED
    BY <1>6, <2>1, <2>2
<1> QED
  BY <1>7, <1>8 DEF all

\* What holds of fields depends only on the website, the request and the selection.
LEMMA Unmoved ==
    ASSUME UNCHANGED <<website, requested, selected>>
    PROVE  /\ Expected' = Expected
           /\ \A f : (Sourced(f)' <=> Sourced(f)) /\ (Stated(f)' <=> Stated(f))
           /\ \A n : SignalsOf(n)' = SignalsOf(n)
<1>1. Expected' = Expected
  BY DEF Expected
<1>2. ASSUME NEW f PROVE Sourced(f)' <=> Sourced(f)
  BY DEF Sourced
<1>3. ASSUME NEW n PROVE SignalsOf(n)' = SignalsOf(n)
  BY DEF SignalsOf, Admissible, IsSource
<1>4. ASSUME NEW s, NEW t PROVE Sooner(s, t)' <=> Sooner(s, t)
  BY DEF Sooner, Confidence
<1>5. ASSUME NEW v, NEW w, NEW S PROVE SaidSooner(v, w, S)' <=> SaidSooner(v, w, S)
  BY <1>4 DEF SaidSooner
<1>6. ASSUME NEW services, NEW S PROVE OnlyCut(services, S)' <=> OnlyCut(services, S)
  BY <1>5 DEF OnlyCut
<1>7. ASSUME NEW f PROVE Stated(f)' <=> Stated(f)
  BY <1>3, <1>6 DEF Stated
<1> QED
  BY <1>1, <1>2, <1>3, <1>7

LEMMA ResultEstablished ==
    ASSUME UNCHANGED <<website, requested, selected>>, Established(result')
    PROVE  Established(result)'
BY Unmoved DEF Established

LEMMA FactsAscertained ==
    ASSUME UNCHANGED <<website, requested, selected>>, Ascertained(facts'.fields)
    PROVE  Ascertained(facts.fields)'
BY Unmoved DEF Ascertained

LEMMA InitHolds == ASSUME Init PROVE IInv
<1>1. ToSet(selected) = {} /\ DOMAIN selected = {}
  BY DEF Init, ToSet
<1> QED
  BY <1>1, AssessmentAssumption
     DEF Init, IInv, Pending, Phases, Started, Counted, Chosen, Asking, Returned, Scored

LEMMA SelectPagesHolds == ASSUME IInv, SelectPages PROVE IInv'
<1> USE DEF IInv
<1>1. /\ phase = "crawled" /\ result = None /\ supplied = {} /\ WebsiteOK(website)
      /\ UNCHANGED <<website, requested, supplied, attempt, sent, result, score>>
  BY AssessmentAssumption DEF SelectPages, Started, Pending, input
<1>2. /\ phase' \in {"skipped", "selected"}
      /\ phase' = "skipped" => UNCHANGED selected
      /\ phase' = "selected" =>
           SelectionOf(website.known, website.crawled, selected')
  <2>1. CASE website.crawled = <<>>
    BY <2>1 DEF SelectPages
  <2>2. CASE website.crawled # <<>>
    BY <1>1, <2>2, SelectionIsBest DEF SelectPages, WebsiteOK
  <2> QED
    BY <2>1, <2>2
<1>3. Pending'
  BY <1>1, <1>2 DEF Pending, SelectionOf
<1>4. (supplied \subseteq ToSet(selected))' /\ phase' \in Phases
  BY <1>1, <1>2 DEF Phases
<1>5. Started' /\ Counted' /\ Asking' /\ Scored'
  BY <1>1, <1>2 DEF Started, Counted, Asking, Scored
<1>6. Chosen'
  BY <1>1, <1>2 DEF Chosen
<1>7. Returned'
  BY <1>1, <1>2 DEF Returned
<1> QED
  BY <1>3, <1>4, <1>5, <1>6, <1>7

\* What the steps after the selection leave alone.
LEMMA SelectionStays ==
    ASSUME IInv, UNCHANGED <<website, requested, selected>>,
           phase \notin {"crawled", "skipped"}
    PROVE  Pending' /\ Chosen'
BY DEF IInv, Pending, Chosen

LEMMA ExtractHolds == ASSUME IInv, ExtractDeterministically PROVE IInv'
<1> USE DEF IInv
<1>1. /\ phase = "selected" /\ facts' = DeterministicFacts
      /\ UNCHANGED <<website, requested, selected, attempt, score>>
  BY DEF ExtractDeterministically, input
<1>2. Pending /\ Pending' /\ Chosen'
  BY <1>1, SelectionStays
<1>3. /\ facts'.conflict \in BOOLEAN /\ Distinct(facts'.fields)
      /\ \A f \in facts'.fields : Sourced(f)
      /\ ~facts'.conflict => Ascertained(facts'.fields)
  BY <1>1, <1>2, FactsAreAscertained
<1>4. /\ phase' \in {"extracted", "asking"}
      /\ phase' = "extracted" =>
           /\ sent' = 0 /\ supplied' \in SUBSET ToSet(selected)
           /\ Established(result')
      /\ phase' = "asking" =>
           /\ sent' = 1 /\ supplied' \in SUBSET ToSet(selected) /\ result' = result
           /\ Ascertained(facts'.fields)
  <2>1. CASE ~model \/ facts'.conflict
    <3>1. Established(Finalize(facts'.fields, facts'.conflict))
      BY <1>3, FinalizeIsSound DEF Ascertained
    <3>2. /\ result' = Finalize(facts'.fields, facts'.conflict)
          /\ phase' = "extracted" /\ sent' = 0 /\ supplied' = supplied
      BY <2>1 DEF ExtractDeterministically, Extracted
    <3> QED
      BY <3>1, <3>2
  <2>2. CASE ~(~model \/ facts'.conflict)
    <3>1. supplied' \in SUBSET ToSet(selected)
      BY <2>2 DEF ExtractDeterministically
    <3>2. CASE supplied' = {}
      <4>1. Established(Finalize(facts'.fields, FALSE))
        BY <1>3, <2>2, FinalizeIsSound DEF Ascertained
      <4>2. result' = Finalize(facts'.fields, FALSE) /\ phase' = "extracted" /\ sent' = 0
        BY <2>2, <3>2 DEF ExtractDeterministically, Extracted
      <4> QED
        BY <3>1, <4>1, <4>2
    <3>3. CASE supplied' # {}
      <4>1. phase' = "asking" /\ sent' = 1 /\ result' = result
        BY <2>2, <3>3 DEF ExtractDeterministically
      <4> QED
        BY <1>3, <2>2, <3>1, <4>1
    <3> QED
      BY <3>2, <3>3
  <2> QED
    BY <2>1, <2>2
<1>5. (supplied \subseteq ToSet(selected))' /\ phase' \in Phases
  BY <1>1, <1>4 DEF Phases
<1>6. Started' /\ Counted' /\ Scored'
  BY <1>1, <1>4, AssessmentAssumption DEF Started, Counted, Scored
<1>7. Asking'
  BY <1>1, <1>4, FactsAscertained DEF Asking
<1>8. Returned'
  <2>1. CASE phase' = "extracted"
    <3>1. Established(result)'
      BY <1>1, <1>4, <2>1, ResultEstablished
    <3> QED
      BY <3>1 DEF Returned
  <2>2. CASE phase' = "asking"
    <3>1. result' # None => Established(result')
      BY <1>4, <2>2 DEF Returned
    <3>2. result' # None => Established(result)'
      BY <1>1, <3>1, ResultEstablished
    <3> QED
      BY <2>2, <3>2 DEF Returned
  <2> QED
    BY <1>4, <2>1, <2>2
<1> QED
  BY <1>2, <1>5, <1>6, <1>7, <1>8

\* The steps while the model is asked change no facts.
LEMMA StaysAsking ==
    ASSUME IInv, UNCHANGED <<website, requested, selected, facts, result, score, supplied>>,
           phase # "crawled", phase' \in Phases \ {"crawled", "selected"},
           phase' \in {"asking", "extracted", "recorded"} => phase' = phase
    PROVE  Started' /\ Asking' /\ Returned' /\ Scored' /\ (supplied \subseteq ToSet(selected))'
<1> USE DEF IInv
<1>1. Started' /\ Scored' /\ (supplied \subseteq ToSet(selected))'
  BY DEF Started, Scored
<1>2. Asking'
  BY FactsAscertained DEF Asking
<1>3. Returned'
  <2>1. result' # None => Established(result')
    BY DEF Returned
  <2>2. phase' \in {"extracted", "recorded"} => Established(result')
    BY DEF Returned
  <2>3. Established(result') => Established(result)'
    BY ResultEstablished
  <2> QED
    BY <2>1, <2>2, <2>3 DEF Returned
<1> QED
  BY <1>1, <1>2, <1>3

LEMMA SendAgainHolds == ASSUME IInv, SendAgain PROVE IInv'
<1>1. /\ phase = "asking" /\ phase' = "asking" /\ sent <= MaxHttpRetries /\ sent' = sent + 1
      /\ UNCHANGED <<website, requested, selected, facts, result, score, supplied, attempt>>
  BY DEF SendAgain, input
<1>2. Pending' /\ Chosen'
  BY <1>1, SelectionStays
<1>3. Started' /\ Asking' /\ Returned' /\ Scored' /\ (supplied \subseteq ToSet(selected))'
  BY <1>1, StaysAsking DEF Phases
<1>4. Counted'
  BY <1>1, AssessmentAssumption DEF IInv, Counted
<1> QED
  BY <1>1, <1>2, <1>3, <1>4 DEF IInv, Phases

LEMMA ModelFailsHolds == ASSUME IInv, ModelFails PROVE IInv'
<1>1. /\ phase = "asking" /\ phase' = "skipped" /\ sent' = 0
      /\ UNCHANGED <<website, requested, selected, facts, result, score, supplied, attempt>>
  BY DEF ModelFails, input
<1>2. Pending' /\ Chosen'
  BY <1>1, SelectionStays
<1>3. Started' /\ Asking' /\ Returned' /\ Scored' /\ (supplied \subseteq ToSet(selected))'
  BY <1>1, StaysAsking DEF Phases
<1>4. Counted'
  BY <1>1, AssessmentAssumption DEF IInv, Counted
<1> QED
  BY <1>1, <1>2, <1>3, <1>4 DEF IInv, Phases

\* A step that ends the extraction with an established result.
LEMMA ExtractionEnds ==
    ASSUME IInv, phase = "asking", phase' = "extracted", sent' = 0, Established(result'),
           UNCHANGED <<website, requested, selected, supplied, attempt, score>>
    PROVE  IInv'
<1>1. Pending' /\ Chosen'
  BY SelectionStays
<1>2. Established(result)'
  BY ResultEstablished
<1>3. Started' /\ Asking' /\ Scored' /\ (supplied \subseteq ToSet(selected))' /\ Counted'
  BY AssessmentAssumption DEF IInv, Started, Asking, Scored, Counted
<1> QED
  BY <1>1, <1>2, <1>3 DEF IInv, Phases, Returned

LEMMA MalformedHolds == ASSUME IInv, MalformedResponse PROVE IInv'
<1>1. /\ phase = "asking"
      /\ UNCHANGED <<website, requested, selected, facts, supplied, score>>
  BY DEF MalformedResponse, input
<1>2. CASE attempt < MaxResponseRetries
  <2>1. attempt' = attempt + 1 /\ sent' = 1 /\ phase' = "asking" /\ UNCHANGED result
    BY <1>1, <1>2 DEF MalformedResponse
  <2>2. Pending' /\ Chosen'
    BY <1>1, SelectionStays
  <2>3. Started' /\ Asking' /\ Returned' /\ Scored' /\ (supplied \subseteq ToSet(selected))'
    BY <1>1, <2>1, StaysAsking DEF Phases
  <2>4. Counted'
    BY <1>1, <1>2, <2>1, AssessmentAssumption DEF IInv, Counted
  <2> QED
    BY <2>1, <2>2, <2>3, <2>4 DEF IInv, Phases
<1>3. CASE ~(attempt < MaxResponseRetries)
  <2>1. /\ phase' = "extracted" /\ sent' = 0 /\ UNCHANGED attempt
        /\ result' = Finalize(facts.fields, FALSE)
    BY <1>3 DEF MalformedResponse, Extracted
  <2>2. Established(Finalize(facts.fields, FALSE))
    BY <1>1, FinalizeIsSound DEF IInv, Asking, Ascertained
  <2> QED
    BY <1>1, <2>1, <2>2, ExtractionEnds
<1> QED
  BY <1>2, <1>3

LEMMA ResponseHolds == ASSUME IInv, Response PROVE IInv'
<1>1. /\ phase = "asking" /\ Ascertained(facts.fields) /\ supplied \subseteq ToSet(selected)
      /\ UNCHANGED <<website, requested, selected, facts, supplied, attempt, score>>
  BY DEF Response, input, IInv, Asking
<1>2. PICK answer \in Answers :
        LET safe == ToSet(Expected) \ Personal
            passed == {f \in answer : f.name \in safe /\ ~FieldRejected(f)}
            fields == {Field(f.name, f.value, f.cites, f.basis, f.weak) : f \in passed}
        IN Extracted(Merge(facts.fields, fields), FALSE)
  BY DEF Response
<1> DEFINE passed == {f \in answer :
                        f.name \in ToSet(Expected) \ Personal /\ ~FieldRejected(f)}
           fields == {Field(f.name, f.value, f.cites, f.basis, f.weak) : f \in passed}
           all == Merge(facts.fields, fields)
<1>3. /\ phase' = "extracted" /\ sent' = 0 /\ result' = Finalize(all, FALSE)
  BY <1>2 DEF Extracted
<1>4. /\ passed \in SUBSET answer
      /\ \A f \in passed : f.name \in ToSet(Expected) /\ ~FieldRejected(f)
  OBVIOUS
<1>5. Distinct(all) /\ \A f \in all : Sourced(f) /\ Stated(f)
  <2> HIDE DEF passed
  <2> QED
    BY <1>1, <1>4, AnswerIsSound
<1> HIDE DEF all
<1>6. Established(Finalize(all, FALSE))
  BY <1>5, FinalizeIsSound
<1> QED
  BY <1>1, <1>3, <1>6, ExtractionEnds

LEMMA VerifyHolds == ASSUME IInv, Verify PROVE IInv'
<1>1. /\ phase = "extracted" /\ phase' \in {"skipped", "failed", "recorded"}
      /\ UNCHANGED <<website, requested, selected, facts, result, score, supplied, attempt, sent>>
  BY DEF Verify, input
<1>2. Pending' /\ Chosen'
  BY <1>1, SelectionStays
<1>3. Returned'
  <2>1. Established(result')
    BY <1>1 DEF IInv, Returned
  <2> QED
    BY <1>1, <2>1, ResultEstablished DEF Returned
<1>4. /\ Started' /\ Asking' /\ Scored' /\ (supplied \subseteq ToSet(selected))' /\ Counted'
      /\ phase' \in Phases
  BY <1>1 DEF IInv, Started, Asking, Scored, Counted, Phases
<1> QED
  BY <1>2, <1>3, <1>4 DEF IInv

\* The names of the weak fields are among those listed, which are finitely many.
LEMMA WeakAreFinite ==
    ASSUME requested \in Requests, NEW fields,
           \A f \in fields : f.name \in ToSet(Expected)
    PROVE  IsFiniteSet(Weak(fields)) /\ IsFiniteSet(ToSet(requested))
<1>1. Weak(fields) \subseteq ToSet(Expected)
  BY DEF Weak
<1> QED
  BY <1>1, ExpectedIsTyped, FS_Subset

LEMMA ScoreHolds == ASSUME IInv, ScoreCompany PROVE IInv'
<1>1. /\ phase = "recorded" /\ phase' = "scored"
      /\ UNCHANGED <<website, requested, selected, facts, result, supplied, attempt, sent>>
  BY DEF ScoreCompany, input
<1>2. Established(result) /\ requested \in Requests
  BY <1>1 DEF IInv, Returned, Pending
<1>3. PICK contradicted :
        score' = RelevanceScore(result.fields, Expected, ToSet(requested), contradicted,
                                Weak(result.fields))
  BY DEF ScoreCompany
<1>4. ScoreOK(score')
  <2>1. IsFiniteSet(Weak(result.fields)) /\ IsFiniteSet(ToSet(requested))
    BY <1>2, WeakAreFinite DEF Established
  <2>2. \A c \in Components : Justified(score'[c], Maximum[c])
    BY <1>3, <2>1, ScoreIsJustified
  <2>3. score' = [c \in Components |-> score'[c]]
    BY <1>3, ScoreIsFunction
  <2>4. \A c \in Components : Maximum[c] \in Nat
    BY DEF Maximum, Components
  <2>5. \A c \in Components : score'[c] \in [score : Int, explained : BOOLEAN]
    BY <2>2, <2>4 DEF Justified
  <2> QED
    BY <2>2, <2>3, <2>5 DEF ScoreOK
<1>5. Pending' /\ Chosen'
  BY <1>1, SelectionStays
<1>6. Returned'
  BY <1>1, <1>2, ResultEstablished DEF Returned
<1>7. /\ Started' /\ Asking' /\ (supplied \subseteq ToSet(selected))' /\ Counted'
      /\ phase' \in Phases
  BY <1>1 DEF IInv, Started, Asking, Counted, Phases
<1> QED
  BY <1>4, <1>5, <1>6, <1>7 DEF IInv, Scored

LEMMA StutterHolds == ASSUME IInv, UNCHANGED vars PROVE IInv'
<1>1. UNCHANGED <<website, requested, phase, selected, facts, supplied, attempt, sent,
                  result, score>>
  BY DEF vars
<1>2. Pending' /\ Chosen' /\ Counted' /\ phase' \in Phases
  BY <1>1 DEF IInv, Pending, Chosen, Counted
<1>3. Started' /\ Scored' /\ (supplied \subseteq ToSet(selected))'
  BY <1>1 DEF IInv, Started, Scored
<1>4. Asking'
  BY <1>1, FactsAscertained DEF IInv, Asking
<1>5. Returned'
  BY <1>1, ResultEstablished DEF IInv, Returned
<1> QED
  BY <1>2, <1>3, <1>4, <1>5 DEF IInv

\* The inductive invariant.
THEOREM Invariant == Spec => []IInv
<1>1. Init => IInv
  BY InitHolds
<1>2. IInv /\ [Next]_vars => IInv'
  <2> SUFFICES ASSUME IInv, [Next]_vars PROVE IInv'
    OBVIOUS
  <2>1. CASE SelectPages
    BY <2>1, SelectPagesHolds
  <2>2. CASE ExtractDeterministically
    BY <2>2, ExtractHolds
  <2>3. CASE SendAgain
    BY <2>3, SendAgainHolds
  <2>4. CASE ModelFails
    BY <2>4, ModelFailsHolds
  <2>5. CASE MalformedResponse
    BY <2>5, MalformedHolds
  <2>6. CASE Response
    BY <2>6, ResponseHolds
  <2>7. CASE Verify
    BY <2>7, VerifyHolds
  <2>8. CASE ScoreCompany
    BY <2>8, ScoreHolds
  <2>9. CASE Done
    BY <2>9, StutterHolds DEF Done
  <2>10. CASE UNCHANGED vars
    BY <2>10, StutterHolds
  <2> QED
    BY <2>1, <2>2, <2>3, <2>4, <2>5, <2>6, <2>7, <2>8, <2>9, <2>10 DEF Next
<1> QED
  BY <1>1, <1>2, PTL DEF Spec

-----------------------------------------------------------------------------
(***************************************************************************)
(* The theorems.                                                           *)
(***************************************************************************)
LEMMA InvariantTyped == ASSUME IInv PROVE AssessmentTypeOK
<1> USE DEF IInv
<1>1. ToSet(selected) \subseteq Pages
  <2>1. WebsiteOK(website)
    BY AssessmentAssumption DEF Pending
  <2>2. ToSet(website.crawled) \subseteq Pages
    BY <2>1 DEF WebsiteOK, ToSet
  <2> QED
    BY <2>2 DEF Pending
<1>2. result # None =>
        /\ \A f \in result.fields : FieldOK(f)
        /\ \A f, g \in result.fields : f.name = g.name => f = g
  BY <1>1 DEF Returned, Established, Sourced, FieldOK, Distinct
<1>3. score # None => score \in [Components -> [score : Int, explained : BOOLEAN]]
  BY DEF Scored, ScoreOK
<1>4. /\ phase \in {"crawled", "selected", "asking", "extracted", "recorded", "scored",
                    "skipped", "failed"}
      /\ ToSet(selected) \subseteq ToSet(website.crawled)
      /\ supplied \subseteq ToSet(selected)
      /\ attempt \in 0..MaxResponseRetries
      /\ sent \in 0..(MaxHttpRetries + 1) /\ (sent > 0 <=> phase = "asking")
  BY DEF Pending, Counted, Phases
<1> QED
  BY <1>2, <1>3, <1>4 DEF AssessmentTypeOK

LEMMA InvariantSelects == ASSUME IInv PROVE SelectionKeepsTheBest
<1> SUFFICES ASSUME phase \notin {"crawled", "skipped"} PROVE SelectionKeepsTheBest
  BY DEF SelectionKeepsTheBest
<1>1. SelectionOf(website.known, website.crawled, selected)
  BY DEF IInv, Chosen
<1> QED
  BY <1>1 DEF SelectionKeepsTheBest, SelectionOf, Kind

LEMMA InvariantStates == ASSUME IInv PROVE SiteIsNotOverruled
<1> SUFFICES ASSUME result # None, result.accepted, NEW f \in result.fields
             PROVE  Stated(f)
  BY DEF SiteIsNotOverruled, Stated
<1> QED
  BY DEF IInv, Returned, Established

LEMMA InvariantEarnsLittle == ASSUME IInv PROVE InferenceEarnsLittle
<1> DEFINE requests == ToSet(requested)
           fields == result.fields
           strict == {f \in fields : Explicit(f)}
           worth == [topic_match |-> 10, country_match |-> 5, relevant_services |-> 5,
                     official_website_confidence |-> 0, contact_page |-> 0]
           all(contradicted) ==
             RelevanceScore(fields, Expected, requests, contradicted, Weak(fields))
           sure(contradicted) ==
             RelevanceScore(strict, Expected, requests, contradicted, Weak(strict))
<1> SUFFICES ASSUME phase = "recorded", NEW contradicted, NEW c \in DOMAIN worth
             PROVE  all(contradicted)[c].score
                      <= Max({sure(contradicted)[c].score, worth[c]})
  BY DEF InferenceEarnsLittle
<1>1. Established(result) /\ requested \in Requests
  BY DEF IInv, Returned, Pending
<1>2. Listed(fields, Expected)
  BY <1>1, ExpectedIsTyped DEF Established, Listed, Sourced
<1> DEFINE some == Supported(fields)
<1>3. Listed(some, Expected)
  BY <1>2, ListedSubset DEF Supported
<1>4. Supported(strict) = Strict(some)
  BY DEF Supported, Strict
<1>5. /\ IsFiniteSet(requests) /\ IsFiniteSet(Weak(fields)) /\ IsFiniteSet(Weak(strict))
  BY <1>1, WeakAreFinite DEF Established
<1> DEFINE x == all(contradicted)[c]
           y == sure(contradicted)[c]
<1>6. c \in {"topic_match", "country_match", "relevant_services",
             "official_website_confidence", "contact_page"}
  OBVIOUS
<1>7. c \in Components
  BY <1>6 DEF Components
<1>8. x.score \in Int /\ y.score \in Int
  <2>1. Maximum[c] \in Nat
    BY <1>7 DEF Maximum, Components
  <2> HIDE DEF fields, strict, requests
  <2>2. Justified(x, Maximum[c]) /\ Justified(y, Maximum[c])
    BY <1>5, <1>7, ScoreIsJustified
  <2> HIDE DEF x, y
  <2> QED
    BY <2>1, <2>2 DEF Justified
<1>9. EarnsLittle(x, y, worth[c]) /\ worth[c] \in Int
  <2> HIDE DEF fields, strict, requests, some
  <2>1. CASE c = "topic_match"
    <3>1. x = TopicScore(some) /\ y = TopicScore(Strict(some)) /\ worth[c] = 10
      BY <1>4, <1>7, <2>1 DEF RelevanceScore, some
    <3> HIDE DEF x, y, worth
    <3> QED
      BY <3>1, TopicEarnsLittle
  <2>2. CASE c = "country_match"
    <3>1. /\ x = LocationScore(some, Expected, contradicted)
          /\ y = LocationScore(Strict(some), Expected, contradicted) /\ worth[c] = 5
      BY <1>4, <1>7, <2>2 DEF RelevanceScore, some
    <3> HIDE DEF x, y, worth
    <3> QED
      BY <1>3, <3>1, LocationEarnsLittle
  <2>3. CASE c = "relevant_services"
    <3>1. /\ x = ServicesScore(some, Expected) /\ y = ServicesScore(Strict(some), Expected)
          /\ worth[c] = 5
      BY <1>4, <1>7, <2>3 DEF RelevanceScore, some
    <3> HIDE DEF x, y, worth
    <3> QED
      BY <1>3, <3>1, ServicesEarnLittle
  <2>4. CASE c = "official_website_confidence"
    <3>1. /\ x = UrlScore(some, "website_url") /\ y = UrlScore(Strict(some), "website_url")
          /\ worth[c] = 0
      BY <1>4, <1>7, <2>4 DEF RelevanceScore, some, WebsiteScore
    <3> HIDE DEF x, y, worth
    <3> QED
      BY <3>1, UrlEarnsLittle
  <2>5. CASE c = "contact_page"
    <3>1. /\ x = UrlScore(some, "contact_page_url")
          /\ y = UrlScore(Strict(some), "contact_page_url") /\ worth[c] = 0
      BY <1>4, <1>7, <2>5 DEF RelevanceScore, some, ContactScore
    <3> HIDE DEF x, y, worth
    <3> QED
      BY <3>1, UrlEarnsLittle
  <2> QED
    BY <1>6, <2>1, <2>2, <2>3, <2>4, <2>5
<1> HIDE DEF worth, x, y
<1>10. x.score <= Max({y.score, worth[c]})
  <2> DEFINE a == y.score
             b == worth[c]
  <2>1. Max({a, b}) = IF a <= b THEN b ELSE a
    <3> HIDE DEF a, b
    <3>1. a \in Int /\ b \in Int
      BY <1>8, <1>9 DEF a, b
    <3> QED
      BY <3>1, MinMaxOfTwo
  <2>2. x.score <= a \/ x.score <= b
    BY <1>9 DEF EarnsLittle
  <2> QED
    BY <1>8, <1>9, <2>1, <2>2
<1> QED
  BY <1>10 DEF x, y

\* The variables hold values of their types: pages of the website are selected and
\* supplied, attempts stay within the limits, and no field is returned twice.
THEOREM TypeCorrect == Spec => []AssessmentTypeOK
<1>1. IInv => AssessmentTypeOK
  BY InvariantTyped
<1> QED
  BY Invariant, <1>1, PTL

\* Of the pages ranked as themselves, none is left out for one of a weaker kind, and
\* the home page is first: for any pages, links and limit, and whichever URLs the
\* selector ranks in place of the fetched ones.
THEOREM SelectionIsKept == Spec => []SelectionKeepsTheBest
<1>1. IInv => SelectionKeepsTheBest
  BY InvariantSelects
<1> QED
  BY Invariant, <1>1, PTL

\* Every field of an accepted extraction cites pages that were fetched and selected,
\* whatever the model answers.
THEOREM EvidenceIsSupplied == Spec => []EvidenceWasSupplied
<1>1. IInv => EvidenceWasSupplied
  BY DEF IInv, Returned, Established, Sourced, EvidenceWasSupplied
<1> QED
  BY Invariant, <1>1, PTL

\* An accepted extraction has what the most authoritative sources of the site agree
\* on: the model replaces none of it, the order of the pages settles no contradiction,
\* and a service is left out only where as many as the limit were not said later.
THEOREM SiteStands == Spec => []SiteIsNotOverruled
<1>1. IInv => SiteIsNotOverruled
  BY InvariantStates
<1> QED
  BY Invariant, <1>1, PTL

\* Every component of a score is within its bounds, and every point withheld has its
\* penalty, for any fields, words and requests.
THEOREM ScoresAreExplained == Spec => []ScoresExplainThemselves
<1>1. IInv => ScoresExplainThemselves
  BY DEF IInv, Scored, ScoreOK, Justified, ScoresExplainThemselves
<1> QED
  BY Invariant, <1>1, PTL

\* None of the five components that look at one fact each (topic, country, services,
\* website, contact page) gets more from inferred fields than from the explicit ones
\* alone, beyond the few points that inference is worth.
THEOREM InferenceIsWorthLittle == Spec => []InferenceEarnsLittle
<1>1. IInv => InferenceEarnsLittle
  BY InvariantEarnsLittle
<1> QED
  BY Invariant, <1>1, PTL

=============================================================================
