-------------------------------- MODULE Counting --------------------------------
(***************************************************************************)
(* Facts about numbers and finite sets that the proofs of several          *)
(* components need.  What other provers show by induction follows here     *)
(* from the well-foundedness of strict inclusion: a set of numbers has a   *)
(* greatest and a least element, what holds from each number to the next   *)
(* holds up to any, and MapThenSumSet, a recursion over subsets, counts    *)
(* disjoint parts.                                                         *)
(***************************************************************************)
EXTENDS Integers, FiniteSetsExt, FiniteSetTheorems, WellFoundedInduction, TLAPS

\* A family of subsets of a finite set has a least one
LEMMA LeastInclusion ==
    ASSUME NEW T, IsFiniteSet(T), NEW Family \in SUBSET (SUBSET T), Family # {}
    PROVE  \E U \in Family : \A V \in Family : <<V, U>> \notin StrictSubsetOrdering(T)
PROOF
<1>1. IsWellFoundedOn(StrictSubsetOrdering(T), FiniteSubsetsOf(T))
    BY FS_StrictSubsetOrderingWellFounded
<1>2. Family \subseteq FiniteSubsetsOf(T) BY FS_FiniteSubsetsOfFinite
<1> QED BY <1>1, <1>2, WFMin, Zenon

\* A bounded set of numbers has a greatest element,
LEMMA GreatestNumber ==
    ASSUME NEW n \in Nat, NEW T, T \subseteq 1..n, T # {}
    PROVE  \E x \in T : \A y \in T : y <= x
PROOF
<1> DEFINE Above(x) == {y \in T : x < y}
           Family   == {Above(x) : x \in T}
<1>1. IsFiniteSet(T)
    <2>1. IsFiniteSet(1..n) BY FS_Interval
    <2> QED BY <2>1, FS_Subset
<1>2. Family \in SUBSET (SUBSET T) /\ Family # {} OBVIOUS
<1>3. PICK U \in Family : \A V \in Family : <<V, U>> \notin StrictSubsetOrdering(T)
    <2> HIDE DEF Family
    <2> QED BY <1>1, <1>2, LeastInclusion
<1>4. PICK x \in T : U = Above(x) OBVIOUS
<1>5. ASSUME NEW y \in T, x < y PROVE FALSE
    <2>1. \A z \in T : y < z => x < z BY <1>5
    <2>2. Above(y) \subseteq Above(x) BY <2>1
    <2>3. y \in Above(x) /\ y \notin Above(y) BY <1>5
    <2>4. Above(y) \in Family OBVIOUS
    <2> QED BY <1>3, <1>4, <2>2, <2>3, <2>4 DEF StrictSubsetOrdering
<1>6. \A y \in T : x \in Nat /\ y \in Nat OBVIOUS
<1> QED BY <1>5, <1>6

\* and a least one
LEMMA LeastNumber ==
    ASSUME NEW n \in Nat, NEW T, T \subseteq 1..n, T # {}
    PROVE  \E x \in T : \A y \in T : x <= y
  <1> DEFINE Below(x) == {y \in T : y < x}
             Family   == {Below(x) : x \in T}
  <1>1. IsFiniteSet(T)
    <2>1. IsFiniteSet(1..n)
      BY FS_Interval
    <2>2. QED
      BY <2>1, FS_Subset
  <1>2. Family \in SUBSET (SUBSET T) /\ Family # {}
    OBVIOUS
  <1>3. PICK U \in Family : \A V \in Family : <<V, U>> \notin StrictSubsetOrdering(T)
    <2> HIDE DEF Family
    <2> QED BY <1>1, <1>2, LeastInclusion
  <1>4. PICK x \in T : U = Below(x)
    OBVIOUS
  <1>5. ASSUME NEW y \in T, y < x PROVE FALSE
    <2>1. \A z \in T : z < y => z < x
      BY <1>5
    <2>2. Below(y) \subseteq Below(x)
      BY <2>1
    <2>3. y \in Below(x) /\ y \notin Below(y)
      BY <1>5
    <2>4. Below(y) \in Family
      OBVIOUS
    <2>5. QED
      BY <1>3, <1>4, <2>2, <2>3, <2>4 DEF StrictSubsetOrdering
  <1>6. \A y \in T : x \in Nat /\ y \in Nat
    OBVIOUS
  <1>7. QED
    BY <1>5, <1>6

\* What holds at 0 and on from each number holds up to n
LEMMA UpTo ==
    ASSUME NEW n \in Nat, NEW T, 0 \in T, \A k \in 0..(n - 1) : k \in T => k + 1 \in T
    PROVE  0..n \subseteq T
PROOF
<1> SUFFICES ASSUME NEW m \in 0..n PROVE m \in T OBVIOUS
<1> DEFINE U == {j \in 1..(m + 1) : j - 1 \in T}
<1>1. U \subseteq 1..(m + 1) /\ 1 \in U /\ m + 1 \in Nat OBVIOUS
<1>2. PICK j \in U : \A i \in U : i <= j
    <2> HIDE DEF U
    <2> QED BY <1>1, GreatestNumber
<1>3. j \in 1..(m + 1) /\ j - 1 \in T OBVIOUS
<1>4. CASE j = m + 1 BY <1>3, <1>4
<1>5. CASE j < m + 1
      <2>1. j - 1 \in 0..(n - 1) /\ (j - 1) + 1 = j BY <1>3, <1>5
      <2>2. j \in T BY <1>3, <2>1
      <2>3. j + 1 \in U BY <1>3, <1>5, <2>2
      <2>4. j + 1 <= j
          <3> HIDE DEF U
          <3> QED BY <1>2, <2>3
      <2> QED BY <1>3, <2>4
<1> QED BY <1>3, <1>4, <1>5

\* A greater factor gives at least one more
LEMMA Multiples ==
    ASSUME NEW y \in Nat, NEW c \in Nat, y < c, NEW k \in Nat
    PROVE  y * k \in Nat /\ c * k \in Nat /\ y * k + k <= c * k
PROOF
<1>1. PICK e \in Nat : c = y + 1 + e
    <2>1. c - y - 1 \in Nat /\ c = y + 1 + (c - y - 1) OBVIOUS
    <2> QED BY <2>1
<1>2. c * k = y * k + k + e * k BY <1>1
<1>3. e * k \in Nat /\ y * k \in Nat OBVIOUS
<1> QED BY <1>2, <1>3

\* What a quotient is at least
LEMMA QuotientAtLeast ==
    ASSUME NEW x \in Nat, NEW k \in Nat \ {0}, NEW c \in Nat
    PROVE  x \div k \in Nat /\ (c <= x \div k <=> c * k <= x)
PROOF
<1>1. PICK q : q = x \div k OBVIOUS
<1>2. q \in Nat /\ k * q <= x /\ x < k * q + k BY <1>1
<1>3. q * k = k * q /\ q * k \in Nat /\ c * k \in Nat BY <1>2
<1>4. CASE c = q BY <1>1, <1>2, <1>3, <1>4
<1>5. CASE c < q
      <2>1. c * k + k <= q * k BY <1>2, <1>5, Multiples
      <2> QED BY <1>1, <1>2, <1>3, <1>5, <2>1
<1>6. CASE q < c
      <2>1. q * k + k <= c * k BY <1>2, <1>6, Multiples
      <2> QED BY <1>1, <1>2, <1>3, <1>6, <2>1
<1> QED BY <1>2, <1>4, <1>5, <1>6

-----------------------------------------------------------------------------
(* Sums *)

Total(g, S) == MapThenSumSet(LAMBDA x : g[x], S)

\* Finitely many finite parts
LEMMA FiniteParts ==
    ASSUME NEW S, IsFiniteSet(S), NEW P, \A x \in S : IsFiniteSet(P[x])
    PROVE  IsFiniteSet(UNION {P[x] : x \in S})
PROOF
<1> DEFINE parts == {P[x] : x \in S}
           f == [x \in S |-> P[x]]
<1>1. f \in Surjection(S, parts) BY DEF Surjection
<1> HIDE DEF f
<1>2. IsFiniteSet(parts) BY <1>1, FS_Surjection
<1>3. \A part \in parts : IsFiniteSet(part) OBVIOUS
<1> HIDE DEF parts
<1>4. IsFiniteSet(UNION parts) BY <1>2, <1>3, FS_UNION
<1> QED BY <1>4 DEF parts

\* The sum of the sizes of disjoint parts is the size of their union: f adds up
\* the sizes over every subset, and nothing else does
LEMMA SumOfParts ==
    ASSUME NEW S, IsFiniteSet(S), NEW P, \A x \in S : IsFiniteSet(P[x]),
           \A x, y \in S : x # y => P[x] \cap P[y] = {},
           NEW g, \A x \in S : g[x] = Cardinality(P[x])
    PROVE  Total(g, S) = Cardinality(UNION {P[x] : x \in S})
PROOF
<1> DEFINE Whole(s) == UNION {P[x] : x \in s}
           First(s) == CHOOSE x \in s : TRUE
           Sums(h)  == h = [s \in SUBSET S |->
                                IF s = {} THEN 0 ELSE g[First(s)] + h[s \ {First(s)}]]
           size == [s \in SUBSET S |-> Cardinality(Whole(s))]
<1>1. \A s \in SUBSET S : s # {} =>
          /\ First(s) \in S /\ First(s) \in s
          /\ s \ {First(s)} \in SUBSET S
    OBVIOUS
<1>2. \A s \in SUBSET S : IsFiniteSet(Whole(s)) /\ \A x \in s : IsFiniteSet(P[x])
    <2> SUFFICES ASSUME NEW s \in SUBSET S
                 PROVE  IsFiniteSet(Whole(s)) /\ \A x \in s : IsFiniteSet(P[x])
        OBVIOUS
    <2>1. IsFiniteSet(s) /\ \A x \in s : IsFiniteSet(P[x]) BY FS_Subset
    <2> QED BY <2>1, FiniteParts
<1>3. ASSUME NEW s \in SUBSET S, s # {}
      PROVE  Cardinality(Whole(s)) = g[First(s)] + Cardinality(Whole(s \ {First(s)}))
    <2>1. PICK x, r : x = First(s) /\ r = s \ {x} OBVIOUS
    <2>2. x \in S /\ x \in s /\ r \in SUBSET S BY <1>1, <1>3, <2>1
    <2>3. Whole(s) = P[x] \cup Whole(r) BY <2>1, <2>2
    <2>4. P[x] \cap Whole(r) = {} BY <2>1, <2>2
    <2>5. IsFiniteSet(P[x]) /\ IsFiniteSet(Whole(r)) BY <1>2, <2>2
    <2>6. PICK A, B : A = P[x] /\ B = Whole(r) OBVIOUS
    <2>7. IsFiniteSet(A) /\ IsFiniteSet(B) /\ A \cap B = {} BY <2>4, <2>5, <2>6
    <2>8. Cardinality(A \cup B) = Cardinality(A) + Cardinality(B) - Cardinality(A \cap B)
        BY <2>7, FS_Union
    <2>9. Cardinality(A \cap B) = 0 /\ Cardinality(A) \in Nat /\ Cardinality(B) \in Nat
        BY <2>7, FS_EmptySet, FS_CardinalityType
    <2>10. Cardinality(A \cup B) = Cardinality(A) + Cardinality(B) BY <2>8, <2>9
    <2> HIDE DEF Whole, First
    <2> QED BY <2>1, <2>2, <2>3, <2>6, <2>10
<1>4. Sums(size)
    <2>1. Cardinality(Whole({})) = 0
        <3>1. Whole({}) = {} OBVIOUS
        <3> QED BY <3>1, FS_EmptySet
    <2>2. \A s \in SUBSET S :
              size[s] = IF s = {} THEN 0 ELSE g[First(s)] + size[s \ {First(s)}]
        <3> HIDE DEF First, Whole
        <3> QED BY <1>1, <1>3, <2>1
    <2>3. size = [s \in SUBSET S |-> size[s]] OBVIOUS
    <2> HIDE DEF First, size
    <2> QED BY <2>2, <2>3
<1>5. ASSUME NEW h, Sums(h) PROVE h[S] = size[S]
    <2> DEFINE Bad == {s \in SUBSET S : h[s] # size[s]}
    <2>1. SUFFICES ASSUME Bad # {} PROVE FALSE OBVIOUS
    <2>2. PICK s \in Bad : \A t \in Bad : <<t, s>> \notin StrictSubsetOrdering(S)
        <3>1. Bad \in SUBSET (SUBSET S) OBVIOUS
        <3> HIDE DEF Bad
        <3> QED BY <2>1, <3>1, LeastInclusion
    <2>3. s \in SUBSET S /\ h[s] # size[s] BY <2>2
    <2> DEFINE r == s \ {First(s)}
    <2>4. /\ h[s] = IF s = {} THEN 0 ELSE g[First(s)] + h[r]
          /\ size[s] = IF s = {} THEN 0 ELSE g[First(s)] + size[r]
        <3> HIDE DEF First, size
        <3> QED BY <1>4, <1>5, <2>3
    <2>5. s # {} BY <2>3, <2>4
    <2>6. r \in SUBSET S /\ <<r, s>> \in StrictSubsetOrdering(S)
        <3>1. First(s) \in s /\ r \in SUBSET S BY <1>1, <2>3, <2>5
        <3> QED BY <2>3, <3>1 DEF StrictSubsetOrdering
    <2>7. h[r] = size[r]
        <3>1. r \notin Bad
            <4> HIDE DEF Bad, r
            <4> QED BY <2>2, <2>6
        <3> HIDE DEF r, size
        <3> QED BY <2>6, <3>1
    <2> QED BY <2>3, <2>4, <2>5, <2>7
<1>6. Total(g, S) = (CHOOSE h : Sums(h))[S]
    BY DEF Total, MapThenSumSet, MapThenFoldSet
<1>7. Sums(CHOOSE h : Sums(h))
    <2> HIDE DEF Sums
    <2> QED BY <1>4
<1>8. PICK h : h = (CHOOSE f : Sums(f)) OBVIOUS
<1>9. h[S] = size[S]
    <2> HIDE DEF Sums
    <2> QED BY <1>5, <1>7, <1>8
<1>10. size[S] = Cardinality(Whole(S)) OBVIOUS
<1> QED BY <1>6, <1>8, <1>9, <1>10

\* Each x, g[x] times
Ones(g, S) == UNION {{x} \X (1..g[x]) : x \in S}

\* A sum counts them
LEMMA SumIsOnes ==
    ASSUME NEW S, IsFiniteSet(S), NEW g, \A x \in S : g[x] \in Nat
    PROVE  IsFiniteSet(Ones(g, S)) /\ Total(g, S) = Cardinality(Ones(g, S))
PROOF
<1> DEFINE P == [x \in S |-> {x} \X (1..g[x])]
<1>1. ASSUME NEW x \in S PROVE IsFiniteSet(P[x]) /\ Cardinality(P[x]) = g[x]
    <2>1. PICK n \in Nat : n = g[x] OBVIOUS
    <2>2. IsFiniteSet(1..n) /\ Cardinality(1..n) = n BY FS_Interval
    <2>3. IsFiniteSet({x}) /\ Cardinality({x}) = 1 BY FS_Singleton
    <2>4. IsFiniteSet({x} \X (1..n)) /\ Cardinality({x} \X (1..n)) = 1 * n
        BY <2>2, <2>3, FS_Product
    <2> QED BY <2>1, <2>4
<1>2. UNION {P[x] : x \in S} = Ones(g, S)
    <2>1. {P[x] : x \in S} = {{x} \X (1..g[x]) : x \in S} OBVIOUS
    <2> HIDE DEF P
    <2> QED BY <2>1 DEF Ones
<1>3. \A x, y \in S : x # y => P[x] \cap P[y] = {} OBVIOUS
<1> HIDE DEF P
<1>4. Total(g, S) = Cardinality(UNION {P[x] : x \in S}) BY <1>1, <1>3, SumOfParts
<1>5. IsFiniteSet(UNION {P[x] : x \in S}) BY <1>1, FiniteParts
<1> QED BY <1>2, <1>4, <1>5

LEMMA SameSum ==
    ASSUME NEW S, IsFiniteSet(S), NEW g, NEW h, \A x \in S : g[x] = h[x] /\ h[x] \in Nat
    PROVE  Total(g, S) = Total(h, S)
PROOF
<1>1. Ones(g, S) = Ones(h, S)
    <2>1. {{x} \X (1..g[x]) : x \in S} = {{x} \X (1..h[x]) : x \in S} OBVIOUS
    <2> QED BY <2>1 DEF Ones
<1> QED BY <1>1, SumIsOnes

\* The sum over two disjoint sets
LEMMA SumOfTwo ==
    ASSUME NEW A, NEW B, IsFiniteSet(A), IsFiniteSet(B), A \cap B = {},
           NEW g, \A x \in A \cup B : g[x] \in Nat
    PROVE  /\ Total(g, A) \in Nat /\ Total(g, B) \in Nat
           /\ Total(g, A \cup B) = Total(g, A) + Total(g, B)
PROOF
<1>1. IsFiniteSet(A \cup B) BY FS_Union
<1>2. PICK U, V : U = Ones(g, A) /\ V = Ones(g, B) OBVIOUS
<1>3. U \cap V = {} BY <1>2 DEF Ones
<1>4. Ones(g, A \cup B) = U \cup V BY <1>2 DEF Ones
<1>5. IsFiniteSet(U) /\ IsFiniteSet(V) BY <1>2, SumIsOnes
<1>6. Cardinality(U \cup V) = Cardinality(U) + Cardinality(V) - Cardinality(U \cap V)
    BY <1>5, FS_Union
<1>7. Cardinality(U \cap V) = 0 /\ Cardinality(U) \in Nat /\ Cardinality(V) \in Nat
    BY <1>3, <1>5, FS_EmptySet, FS_CardinalityType
<1>8. Cardinality(U \cup V) = Cardinality(U) + Cardinality(V) BY <1>6, <1>7
<1>9. Total(g, A) = Cardinality(U) /\ Total(g, B) = Cardinality(V) BY <1>2, SumIsOnes
<1>10. Total(g, A \cup B) = Cardinality(U \cup V) BY <1>1, <1>4, SumIsOnes
<1> QED BY <1>7, <1>8, <1>9, <1>10

\* Of nothing, and of one
LEMMA SumOfFew ==
    ASSUME NEW g, NEW x, g[x] \in Nat
    PROVE  Total(g, {}) = 0 /\ Total(g, {x}) = g[x]
PROOF
<1>1. Ones(g, {}) = {} BY DEF Ones
<1>2. Total(g, {}) = 0 BY <1>1, SumIsOnes, FS_EmptySet
<1>3. PICK n \in Nat : n = g[x] OBVIOUS
<1>4. Ones(g, {x}) = {x} \X (1..n) BY <1>3 DEF Ones
<1>5. IsFiniteSet(1..n) /\ Cardinality(1..n) = n BY FS_Interval
<1>6. IsFiniteSet({x}) /\ Cardinality({x}) = 1 BY FS_Singleton
<1>7. Cardinality({x} \X (1..n)) = 1 * n BY <1>5, <1>6, FS_Product
<1>8. Total(g, {x}) = Cardinality({x} \X (1..n)) BY <1>3, <1>4, <1>6, SumIsOnes
<1> QED BY <1>2, <1>3, <1>7, <1>8

\* Of at most c each, and of at most l one of them
LEMMA SumAtMost ==
    ASSUME NEW S, IsFiniteSet(S), NEW c \in Nat, NEW g, \A x \in S : g[x] \in 0..c
    PROVE  /\ Total(g, S) \in 0..(c * Cardinality(S))
           /\ (\A x \in S : g[x] = c) => Total(g, S) = c * Cardinality(S)
           /\ \A x \in S, l \in 0..c : g[x] <= l => Total(g, S) + (c - l) <= c * Cardinality(S)
PROOF
<1>1. PICK U, V, n : U = Ones(g, S) /\ V = S \X (1..c) /\ n = Cardinality(S) OBVIOUS
<1>2. IsFiniteSet(1..c) /\ Cardinality(1..c) = c BY FS_Interval
<1>3. n \in Nat BY <1>1, FS_CardinalityType
<1>4. IsFiniteSet(V) /\ Cardinality(V) = n * c BY <1>1, <1>2, FS_Product
<1>5. n * c = c * n /\ c * n \in Nat BY <1>3
<1>6. \A x \in S : 1..g[x] \subseteq 1..c OBVIOUS
<1>7. U \subseteq V BY <1>1, <1>6 DEF Ones
<1>8. /\ IsFiniteSet(U) /\ Cardinality(U) <= Cardinality(V) /\ Cardinality(U) \in Nat
      /\ Total(g, S) = Cardinality(U)
    BY <1>1, <1>4, <1>7, FS_Subset, FS_CardinalityType, SumIsOnes
<1>9. ASSUME \A x \in S : g[x] = c PROVE Total(g, S) = c * n
    <2>1. U = V BY <1>1, <1>9 DEF Ones
    <2> QED BY <1>4, <1>5, <1>8, <2>1
<1>10. ASSUME NEW x \in S, NEW l \in 0..c, g[x] <= l PROVE Total(g, S) + (c - l) <= c * n
    <2>1. PICK W : W = {x} \X ((l + 1)..c) OBVIOUS
    <2>2. /\ IsFiniteSet((l + 1)..c)
          /\ Cardinality((l + 1)..c) = IF l + 1 > c THEN 0 ELSE c - (l + 1) + 1
        <3>1. l + 1 \in Int /\ c \in Int OBVIOUS
        <3> QED BY <3>1, FS_Interval
    <2>3. IsFiniteSet({x}) /\ Cardinality({x}) = 1 BY FS_Singleton
    <2>4. Cardinality((l + 1)..c) = c - l BY <2>2
    <2>5. IsFiniteSet(W) /\ Cardinality(W) = c - l
        <3>1. PICK X, m : X = (l + 1)..c /\ m = c - l OBVIOUS
        <3>2. IsFiniteSet(X) /\ Cardinality(X) = m /\ m \in Nat BY <2>2, <2>4, <3>1
        <3>3. IsFiniteSet({x} \X X) /\ Cardinality({x} \X X) = 1 * m
            BY <2>3, <3>2, FS_Product
        <3> QED BY <2>1, <3>1, <3>2, <3>3
    <2>6. (l + 1)..c \subseteq 1..c /\ \A i \in 1..g[x] : i \notin (l + 1)..c BY <1>10
    <2>7. W \subseteq V /\ U \cap W = {} BY <1>1, <2>1, <2>6 DEF Ones
    <2>8. /\ IsFiniteSet(U \cup W)
          /\ Cardinality(U \cup W) = Cardinality(U) + Cardinality(W) - Cardinality(U \cap W)
        BY <1>8, <2>5, FS_Union
    <2>9. Cardinality(U \cap W) = 0 BY <2>7, FS_EmptySet
    <2>10. U \cup W \subseteq V BY <1>7, <2>7
    <2>11. Cardinality(U \cup W) <= Cardinality(V) BY <1>4, <2>10, FS_Subset
    <2> QED BY <1>4, <1>5, <1>8, <2>5, <2>8, <2>9, <2>11
<1> QED BY <1>1, <1>3, <1>4, <1>5, <1>8, <1>9, <1>10
================================================================================
