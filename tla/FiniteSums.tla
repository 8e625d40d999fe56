----------------------------- MODULE FiniteSums -----------------------------
(***************************************************************************)
(* Facts the proofs share: what CHOOSE picks as a first match exists, an   *)
(* induction over the subsets of a finite set, and what a sum over a       *)
(* finite set (MapThenSumSet of the community modules) is in any order.    *)
(***************************************************************************)
EXTENDS Integers, FiniteSets, FiniteSetsExt, FiniteSetTheorems, WellFoundedInduction, TLAPS

-----------------------------------------------------------------------------
(* Least elements and induction *)

\* Every nonempty set of naturals has a least element.
LEMMA LeastNatural ==
    ASSUME NEW S \in SUBSET Nat, S # {}
    PROVE  \E m \in S : \A n \in S : m <= n
<1> DEFINE R == OpToRel(<, Nat)
<1>1. IsWellFoundedOn(R, Nat)
  BY NatLessThanWellFounded
<1>2. PICK m \in S : \A n \in S : ~(<<n, m>> \in R)
  <2> HIDE DEF R
  <2> QED BY <1>1, WFMin
<1>3. \A n \in Nat : n < m => <<n, m>> \in R
  BY DEF OpToRel
<1> HIDE DEF R
<1>4. ASSUME NEW n \in S
      PROVE  m <= n
  <2>1. m \in Nat /\ n \in Nat
    OBVIOUS
  <2>2. ~(n < m)
    BY <1>2, <1>3, <2>1
  <2> QED BY <2>1, <2>2
<1> QED BY <1>4

\* A set of subsets of a finite set that has the empty one, and each one it has all
\* the next smaller ones of, has the whole set.
LEMMA SubsetInduction ==
    ASSUME NEW S, IsFiniteSet(S), NEW Good,
           {} \in Good,
           \A T \in SUBSET S : T # {} /\ (\A x \in T : T \ {x} \in Good) => T \in Good
    PROVE  S \in Good
<1> SUFFICES ASSUME S \notin Good
             PROVE  FALSE
  OBVIOUS
<1> DEFINE Bad == {T \in SUBSET S : T \notin Good}
           Sizes == {Cardinality(T) : T \in Bad}
<1>1. \A T \in SUBSET S : IsFiniteSet(T) /\ Cardinality(T) \in Nat
  BY FS_Subset, FS_CardinalityType
<1>2. Sizes \in SUBSET Nat /\ Sizes # {}
  BY <1>1
<1>3. PICK T \in Bad : \A U \in Bad : Cardinality(T) <= Cardinality(U)
  <2>1. PICK m \in Sizes : \A n \in Sizes : m <= n
    <3> HIDE DEF Sizes
    <3> QED BY <1>2, LeastNatural
  <2> QED BY <2>1
<1>4. PICK x \in T : T \ {x} \in Bad
  OBVIOUS
<1>5. Cardinality(T \ {x}) = Cardinality(T) - 1
  BY <1>1, <1>4, FS_RemoveElement
<1> QED
  BY <1>1, <1>3, <1>4, <1>5

\* What a function makes of a finite set is finite.
LEMMA FiniteImage ==
    ASSUME NEW S, IsFiniteSet(S), NEW f
    PROVE  IsFiniteSet({f[x] : x \in S})
<1> DEFINE g == [x \in S |-> f[x]]
           T == {f[x] : x \in S}
<1>1. g \in Surjection(S, T)
  BY DEF Surjection
<1> HIDE DEF g, T
<1> QED BY <1>1, FS_Surjection DEF T

-----------------------------------------------------------------------------
(* Sums *)

\* The sum of f over S.
SumOf(f, S) == MapThenSumSet(LAMBDA x : f[x], S)

First(T) == CHOOSE x \in T : TRUE

\* g holds the sums of f over the subsets of S.
AreSums(f, S, g) ==
    g = [T \in SUBSET S |-> IF T = {} THEN 0 ELSE f[First(T)] + g[T \ {First(T)}]]

SumsOver(f, S) == CHOOSE g : AreSums(f, S, g)

\* The sum is what the recursive function of the definition yields.
LEMMA SumOfSums == \A f, S : SumOf(f, S) = SumsOver(f, S)[S]
BY DEF SumOf, MapThenSumSet, MapThenFoldSet, SumsOver, AreSums, First

\* What a function of sums is at a subset.
LEMMA SumsAt ==
    \A f, S, g : AreSums(f, S, g) =>
        \A T \in SUBSET S : g[T] = IF T = {} THEN 0 ELSE f[First(T)] + g[T \ {First(T)}]
BY DEF AreSums

\* The definition chooses an element of the set.
LEMMA FirstIn == \A T : T # {} => First(T) \in T
BY DEF First

\* Two functions of sums agree where both are defined.
LEMMA SumsAgree ==
    ASSUME NEW f, NEW A, NEW B, NEW g, NEW h, AreSums(f, A, g), AreSums(f, B, h),
           NEW S \in SUBSET A, S \subseteq B, IsFiniteSet(S)
    PROVE  g[S] = h[S]
<1> DEFINE Good == {T \in SUBSET S : g[T] = h[T]}
<1>1. {} \in Good
  BY SumsAt
<1>2. ASSUME NEW T \in SUBSET S, T # {}, \A x \in T : T \ {x} \in Good
      PROVE  T \in Good
  <2>1. T \in SUBSET A /\ T \in SUBSET B
    OBVIOUS
  <2>2. First(T) \in T
    BY <1>2, FirstIn
  <2>3. g[T] = f[First(T)] + g[T \ {First(T)}] /\ h[T] = f[First(T)] + h[T \ {First(T)}]
    BY <1>2, <2>1, SumsAt
  <2> QED BY <1>2, <2>2, <2>3
<1>3. S \in Good
  <2> HIDE DEF Good
  <2> QED BY <1>1, <1>2, SubsetInduction
<1> QED BY <1>3

\* There is a function of sums.
LEMMA SumsExist ==
    ASSUME NEW f, NEW S, IsFiniteSet(S)
    PROVE  AreSums(f, S, SumsOver(f, S))
<1> DEFINE Good == {T \in SUBSET S : \A U \in SUBSET T : AreSums(f, U, SumsOver(f, U))}
<1>1. \A T : (\E g : AreSums(f, T, g)) => AreSums(f, T, SumsOver(f, T))
  BY DEF SumsOver
<1>2. {} \in Good
  <2>1. AreSums(f, {}, [T \in SUBSET {} |-> 0])
    BY DEF AreSums
  <2> QED BY <1>1, <2>1
<1>3. ASSUME NEW T \in SUBSET S, T # {}, \A x \in T : T \ {x} \in Good
      PROVE  T \in Good
  <2> DEFINE Rest(U) == U \ {First(U)}
             h == [U \in SUBSET T |->
                      IF U = {} THEN 0 ELSE f[First(U)] + SumsOver(f, Rest(U))[Rest(U)]]
  <2>1. ASSUME NEW U \in SUBSET T, U # T
        PROVE  AreSums(f, U, SumsOver(f, U))
    <3>1. PICK x \in T : x \notin U
      BY <2>1
    <3>2. T \ {x} \in Good /\ U \in SUBSET (T \ {x})
      BY <1>3, <3>1
    <3> QED BY <3>2
  <2>2. ASSUME NEW U \in SUBSET T, U # {}
        PROVE  /\ First(U) \in U
               /\ Rest(U) \in SUBSET T
               /\ Rest(U) # T
               /\ IsFiniteSet(Rest(U))
    BY <2>2, FirstIn, FS_Subset
  <2>3. ASSUME NEW U \in SUBSET T, U # T
        PROVE  h[U] = SumsOver(f, U)[U]
    <3>1. AreSums(f, U, SumsOver(f, U)) /\ U \in SUBSET U
      BY <2>1, <2>3
    <3>2. CASE U = {}
      <4>1. SumsOver(f, U)[U] = 0
        BY <3>1, <3>2, SumsAt
      <4> QED BY <3>2, <4>1
    <3>3. CASE U # {}
      <4>1. SumsOver(f, U)[U] = f[First(U)] + SumsOver(f, U)[Rest(U)]
        BY <3>1, <3>3, SumsAt
      <4>2. SumsOver(f, U)[Rest(U)] = SumsOver(f, Rest(U))[Rest(U)]
        <5>1. AreSums(f, Rest(U), SumsOver(f, Rest(U)))
          BY <2>1, <2>2, <3>3
        <5>2. Rest(U) \in SUBSET U /\ Rest(U) \subseteq Rest(U) /\ IsFiniteSet(Rest(U))
          BY <2>2, <3>3
        <5> HIDE DEF Rest
        <5> QED BY <3>1, <5>1, <5>2, SumsAgree
      <4> QED BY <3>3, <4>1, <4>2
    <3> QED BY <3>2, <3>3
  <2>4. ASSUME NEW U \in SUBSET T
        PROVE  h[U] = IF U = {} THEN 0 ELSE f[First(U)] + h[Rest(U)]
    <3>1. U # {} => h[Rest(U)] = SumsOver(f, Rest(U))[Rest(U)]
      <4> HIDE DEF h
      <4> QED BY <2>2, <2>3
    <3> QED BY <3>1
  <2>5. AreSums(f, T, h)
    <3>1. h = [U \in SUBSET T |-> h[U]]
      OBVIOUS
    <3>2. h = [U \in SUBSET T |-> IF U = {} THEN 0 ELSE f[First(U)] + h[U \ {First(U)}]]
      <4> HIDE DEF h
      <4> QED BY <2>4, <3>1
    <3> HIDE DEF h
    <3> QED BY <3>2 DEF AreSums
  <2>6. AreSums(f, T, SumsOver(f, T))
    <3> HIDE DEF h
    <3> QED BY <1>1, <2>5
  <2> QED BY <2>1, <2>6
<1>4. S \in Good
  <2> HIDE DEF Good
  <2> QED BY <1>2, <1>3, SubsetInduction
<1> QED BY <1>4

-----------------------------------------------------------------------------
(* What a sum is *)

\* The empty sum, and the sum without the element the definition chooses.
LEMMA SumFirst ==
    ASSUME NEW f, NEW S, IsFiniteSet(S)
    PROVE  SumOf(f, S) = IF S = {} THEN 0 ELSE f[First(S)] + SumOf(f, S \ {First(S)})
<1>1. AreSums(f, S, SumsOver(f, S)) /\ S \in SUBSET S
  BY SumsExist
<1>2. CASE S = {}
  BY <1>1, <1>2, SumsAt, SumOfSums
<1>3. CASE S # {}
  <2> DEFINE R == S \ {First(S)}
  <2>1. SumsOver(f, S)[S] = f[First(S)] + SumsOver(f, S)[R]
    BY <1>1, <1>3, SumsAt
  <2>2. IsFiniteSet(R) /\ R \in SUBSET S /\ R \subseteq R
    BY FS_Subset
  <2>3. AreSums(f, R, SumsOver(f, R))
    BY <2>2, SumsExist
  <2>4. SumsOver(f, S)[R] = SumsOver(f, R)[R]
    <3> HIDE DEF R
    <3> QED BY <1>1, <2>2, <2>3, SumsAgree
  <2> QED BY <1>3, <2>1, <2>4, SumOfSums
<1> QED BY <1>2, <1>3

\* The empty sum is zero.
LEMMA SumEmpty == \A f : SumOf(f, {}) = 0
BY SumFirst, FS_EmptySet

\* A sum of integers is an integer.
LEMMA SumInt ==
    ASSUME NEW f, NEW S, IsFiniteSet(S), \A x \in S : f[x] \in Int
    PROVE  SumOf(f, S) \in Int
<1> DEFINE Good == {T \in SUBSET S : SumOf(f, T) \in Int}
<1>1. {} \in Good
  BY SumEmpty
<1>2. ASSUME NEW T \in SUBSET S, T # {}, \A x \in T : T \ {x} \in Good
      PROVE  T \in Good
  <2>1. First(T) \in T /\ IsFiniteSet(T)
    BY <1>2, FirstIn, FS_Subset
  <2>2. SumOf(f, T) = f[First(T)] + SumOf(f, T \ {First(T)})
    BY <1>2, <2>1, SumFirst
  <2> QED BY <1>2, <2>1, <2>2
<1>3. S \in Good
  <2> HIDE DEF Good
  <2> QED BY <1>1, <1>2, SubsetInduction
<1> QED BY <1>3

\* Any element may be taken out of a sum.
LEMMA SumRemove ==
    ASSUME NEW f, NEW S, IsFiniteSet(S), \A x \in S : f[x] \in Int, NEW y \in S
    PROVE  SumOf(f, S) = f[y] + SumOf(f, S \ {y})
<1> DEFINE Good == {T \in SUBSET S : \A x \in T : SumOf(f, T) = f[x] + SumOf(f, T \ {x})}
<1>1. {} \in Good
  OBVIOUS
<1>2. ASSUME NEW T \in SUBSET S, T # {}, \A x \in T : T \ {x} \in Good
      PROVE  T \in Good
  <2>1. PICK c \in T : SumOf(f, T) = f[c] + SumOf(f, T \ {c})
    <3>1. First(T) \in T /\ IsFiniteSet(T)
      BY <1>2, FirstIn, FS_Subset
    <3> QED BY <1>2, <3>1, SumFirst
  <2>2. ASSUME NEW x \in T, x # c
        PROVE  SumOf(f, T) = f[x] + SumOf(f, T \ {x})
    <3> DEFINE both == SumOf(f, (T \ {c}) \ {x})
    <3>1. (T \ {c}) \ {x} = (T \ {x}) \ {c} /\ x \in T \ {c} /\ c \in T \ {x}
      BY <2>2
    <3>2. SumOf(f, T \ {c}) = f[x] + both /\ SumOf(f, T \ {x}) = f[c] + both
      BY <1>2, <3>1
    <3>3. both \in Int
      <4>1. (T \ {c}) \ {x} \in SUBSET S /\ IsFiniteSet((T \ {c}) \ {x})
        BY FS_Subset
      <4> QED BY <4>1, SumInt
    <3>4. f[c] \in Int /\ f[x] \in Int
      OBVIOUS
    <3> HIDE DEF both
    <3> QED BY <2>1, <3>2, <3>3, <3>4
  <2> QED BY <2>1, <2>2
<1>3. S \in Good
  <2> HIDE DEF Good
  <2> QED BY <1>1, <1>2, SubsetInduction
<1> QED BY <1>3

\* A sum of naturals is a natural number.
LEMMA SumNat ==
    ASSUME NEW f, NEW S, IsFiniteSet(S), \A x \in S : f[x] \in Nat
    PROVE  SumOf(f, S) \in Nat
<1> DEFINE Good == {T \in SUBSET S : SumOf(f, T) \in Nat}
<1>1. {} \in Good
  BY SumEmpty
<1>2. ASSUME NEW T \in SUBSET S, T # {}, \A x \in T : T \ {x} \in Good
      PROVE  T \in Good
  <2>1. First(T) \in T /\ IsFiniteSet(T)
    BY <1>2, FirstIn, FS_Subset
  <2>2. SumOf(f, T) = f[First(T)] + SumOf(f, T \ {First(T)})
    BY <1>2, <2>1, SumFirst
  <2> QED BY <1>2, <2>1, <2>2
<1>3. S \in Good
  <2> HIDE DEF Good
  <2> QED BY <1>1, <1>2, SubsetInduction
<1> QED BY <1>3

\* Sums of functions that agree on the set are equal.
LEMMA SumEqual ==
    ASSUME NEW f, NEW g, NEW S, IsFiniteSet(S), \A x \in S : f[x] = g[x]
    PROVE  SumOf(f, S) = SumOf(g, S)
<1> DEFINE Good == {T \in SUBSET S : SumOf(f, T) = SumOf(g, T)}
<1>1. {} \in Good
  BY SumEmpty
<1>2. ASSUME NEW T \in SUBSET S, T # {}, \A x \in T : T \ {x} \in Good
      PROVE  T \in Good
  <2>1. First(T) \in T /\ IsFiniteSet(T)
    BY <1>2, FirstIn, FS_Subset
  <2>2. /\ SumOf(f, T) = f[First(T)] + SumOf(f, T \ {First(T)})
        /\ SumOf(g, T) = g[First(T)] + SumOf(g, T \ {First(T)})
    BY <1>2, <2>1, SumFirst
  <2> QED BY <1>2, <2>1, <2>2
<1>3. S \in Good
  <2> HIDE DEF Good
  <2> QED BY <1>1, <1>2, SubsetInduction
<1> QED BY <1>3

\* The sum of sums of two is the sum of their sums.
LEMMA SumPlus ==
    ASSUME NEW f, NEW g, NEW h, NEW S, IsFiniteSet(S),
           \A x \in S : f[x] \in Int /\ g[x] \in Int /\ h[x] = f[x] + g[x]
    PROVE  SumOf(h, S) = SumOf(f, S) + SumOf(g, S)
<1> DEFINE Good == {T \in SUBSET S : SumOf(h, T) = SumOf(f, T) + SumOf(g, T)}
<1>1. {} \in Good
  BY SumEmpty
<1>2. ASSUME NEW T \in SUBSET S, T # {}, \A x \in T : T \ {x} \in Good
      PROVE  T \in Good
  <2> DEFINE y == First(T)
             R == T \ {y}
  <2>1. y \in T /\ IsFiniteSet(T) /\ IsFiniteSet(R)
    BY <1>2, FirstIn, FS_Subset
  <2>2. /\ SumOf(f, T) = f[y] + SumOf(f, R)
        /\ SumOf(g, T) = g[y] + SumOf(g, R)
        /\ SumOf(h, T) = h[y] + SumOf(h, R)
    BY <1>2, <2>1, SumFirst
  <2>3. SumOf(f, R) \in Int /\ SumOf(g, R) \in Int
    BY <2>1, SumInt
  <2>4. SumOf(h, R) = SumOf(f, R) + SumOf(g, R)
    BY <1>2, <2>1
  <2>5. f[y] \in Int /\ g[y] \in Int /\ h[y] = f[y] + g[y]
    BY <2>1
  <2> HIDE DEF y, R
  <2> QED BY <2>2, <2>3, <2>4, <2>5
<1>3. S \in Good
  <2> HIDE DEF Good
  <2> QED BY <1>1, <1>2, SubsetInduction
<1> QED BY <1>3

\* Sums over two parts of a set add up to the sum over the set.
LEMMA SumUnion ==
    ASSUME NEW f, NEW A, NEW B, IsFiniteSet(A), IsFiniteSet(B), A \cap B = {},
           \A x \in A \cup B : f[x] \in Int
    PROVE  SumOf(f, A \cup B) = SumOf(f, A) + SumOf(f, B)
<1> DEFINE Good == {T \in SUBSET B : SumOf(f, A \cup T) = SumOf(f, A) + SumOf(f, T)}
<1>1. {} \in Good
  <2>1. SumOf(f, A) \in Int /\ A \cup {} = A
    BY SumInt
  <2> QED BY <2>1, SumEmpty
<1>2. ASSUME NEW T \in SUBSET B, T # {}, \A x \in T : T \ {x} \in Good
      PROVE  T \in Good
  <2>1. PICK x \in T : TRUE
    BY <1>2
  <2>2. /\ IsFiniteSet(T) /\ IsFiniteSet(T \ {x}) /\ IsFiniteSet(A \cup T)
        /\ (A \cup T) \ {x} = A \cup (T \ {x})
    BY FS_Subset, FS_Union
  <2>3. /\ SumOf(f, T) = f[x] + SumOf(f, T \ {x})
        /\ SumOf(f, A \cup T) = f[x] + SumOf(f, (A \cup T) \ {x})
    BY <2>2, SumRemove
  <2>4. SumOf(f, A) \in Int /\ SumOf(f, T \ {x}) \in Int /\ f[x] \in Int
    BY <2>2, SumInt
  <2>5. SumOf(f, A \cup (T \ {x})) = SumOf(f, A) + SumOf(f, T \ {x})
    BY <1>2
  <2>6. SumOf(f, A \cup T) = f[x] + (SumOf(f, A) + SumOf(f, T \ {x}))
    BY <2>2, <2>3, <2>5
  <2>7. SumOf(f, A \cup T) = SumOf(f, A) + SumOf(f, T)
    BY <2>3, <2>4, <2>6
  <2> QED BY <2>7
<1>3. B \in Good
  <2> HIDE DEF Good
  <2> QED BY <1>1, <1>2, SubsetInduction
<1> QED BY <1>3

\* Sums over the parts of a partition add up to the sum over the whole.
LEMMA SumParts ==
    ASSUME NEW f, NEW S, IsFiniteSet(S), \A x \in S : f[x] \in Int,
           NEW K, IsFiniteSet(K), NEW Part \in [K -> SUBSET S],
           \A k, l \in K : k # l => Part[k] \cap Part[l] = {},
           NEW g, \A k \in K : g[k] = SumOf(f, Part[k])
    PROVE  SumOf(g, K) = SumOf(f, UNION {Part[k] : k \in K})
<1> DEFINE Whole(L) == UNION {Part[k] : k \in L}
           Good == {L \in SUBSET K : SumOf(g, L) = SumOf(f, Whole(L))}
<1>1. {} \in Good
  <2>1. Whole({}) = {}
    OBVIOUS
  <2> QED BY <2>1, SumEmpty
<1>2. ASSUME NEW L \in SUBSET K, L # {}, \A k \in L : L \ {k} \in Good
      PROVE  L \in Good
  <2>1. PICK k \in L : TRUE
    BY <1>2
  <2>2. Whole(L) = Whole(L \ {k}) \cup Part[k] /\ Whole(L \ {k}) \cap Part[k] = {}
    OBVIOUS
  <2>3. IsFiniteSet(Whole(L \ {k})) /\ IsFiniteSet(Part[k]) /\ IsFiniteSet(L)
    <3>1. Whole(L \ {k}) \in SUBSET S /\ Part[k] \in SUBSET S
      OBVIOUS
    <3> HIDE DEF Whole
    <3> QED BY <3>1, FS_Subset
  <2>4. \A x \in Whole(L \ {k}) \cup Part[k] : f[x] \in Int
    OBVIOUS
  <2>5. SumOf(f, Whole(L)) = SumOf(f, Whole(L \ {k})) + SumOf(f, Part[k])
    <3> DEFINE A == Whole(L \ {k})
               B == Part[k]
    <3>1. /\ IsFiniteSet(A) /\ IsFiniteSet(B) /\ A \cap B = {} /\ Whole(L) = A \cup B
          /\ \A x \in A \cup B : f[x] \in Int
      BY <2>2, <2>3, <2>4
    <3> HIDE DEF A, B
    <3>2. SumOf(f, A \cup B) = SumOf(f, A) + SumOf(f, B)
      BY <3>1, SumUnion
    <3> QED BY <3>1, <3>2 DEF A, B
  <2>6. \A l \in L : g[l] \in Int
    <3>1. ASSUME NEW l \in L
          PROVE  SumOf(f, Part[l]) \in Int
      <4>1. Part[l] \in SUBSET S /\ IsFiniteSet(Part[l])
        BY FS_Subset
      <4> QED BY <4>1, SumInt
    <3> QED BY <3>1
  <2>7. SumOf(g, L) = g[k] + SumOf(g, L \ {k})
    BY <2>3, <2>6, SumRemove
  <2>8. SumOf(f, Whole(L \ {k})) \in Int /\ SumOf(f, Part[k]) \in Int
    <3> HIDE DEF Whole
    <3> QED BY <2>3, <2>4, SumInt
  <2>9. SumOf(g, L \ {k}) = SumOf(f, Whole(L \ {k})) /\ g[k] = SumOf(f, Part[k])
    BY <1>2
  <2>10. SumOf(g, L) = SumOf(f, Whole(L))
    <3> HIDE DEF Whole
    <3> QED BY <2>5, <2>7, <2>8, <2>9
  <2> QED BY <2>10
<1>3. K \in Good
  <2> HIDE DEF Good
  <2> QED BY <1>1, <1>2, SubsetInduction
<1> QED BY <1>3

\* A sum of equal terms is their product with the number of them.
LEMMA SumConstant ==
    ASSUME NEW f, NEW S, IsFiniteSet(S), NEW c \in Int, \A x \in S : f[x] = c
    PROVE  SumOf(f, S) = c * Cardinality(S)
<1> DEFINE Good == {T \in SUBSET S : SumOf(f, T) = c * Cardinality(T)}
<1>1. {} \in Good
  <2>1. c * 0 = 0
    OBVIOUS
  <2> QED BY <2>1, SumEmpty, FS_EmptySet
<1>2. ASSUME NEW T \in SUBSET S, T # {}, \A x \in T : T \ {x} \in Good
      PROVE  T \in Good
  <2>1. PICK x \in T : TRUE
    BY <1>2
  <2> DEFINE n == Cardinality(T \ {x})
  <2>2. IsFiniteSet(T) /\ IsFiniteSet(T \ {x})
    BY FS_Subset
  <2>3. n \in Nat /\ Cardinality(T) = n + 1
    <3>1. n \in Nat /\ Cardinality(T) \in Nat
      BY <2>2, FS_CardinalityType
    <3>2. n = Cardinality(T) - 1
      BY <2>1, <2>2, FS_RemoveElement
    <3> QED BY <3>1, <3>2
  <2>4. SumOf(f, T) = f[x] + SumOf(f, T \ {x})
    BY <2>2, SumRemove
  <2>5. f[x] = c /\ SumOf(f, T \ {x}) = c * n
    BY <1>2
  <2>6. c + c * n = c * (n + 1)
    BY <2>3
  <2> QED BY <2>3, <2>4, <2>5, <2>6
<1>3. S \in Good
  <2> HIDE DEF Good
  <2> QED BY <1>1, <1>2, SubsetInduction
<1> QED BY <1>3

\* A sum over parts, in each of which the terms are equal, is the sum over the parts of
\* their term times their size.
LEMMA SumConstantParts ==
    ASSUME NEW K, IsFiniteSet(K), NEW S, IsFiniteSet(S),
           NEW P, \A k \in K : P[k] \in SUBSET S,
           \A k, l \in K : k # l => P[k] \cap P[l] = {},
           NEW v, \A k \in K : v[k] \in Int,
           NEW f, \A k \in K : \A x \in P[k] : f[x] = v[k],
           NEW g, \A k \in K : g[k] = v[k] * Cardinality(P[k])
    PROVE  SumOf(g, K) = SumOf(f, UNION {P[k] : k \in K})
<1> DEFINE Part == [k \in K |-> P[k]]
           W == UNION {Part[k] : k \in K}
<1>1. Part \in [K -> SUBSET W] /\ \A k, l \in K : k # l => Part[k] \cap Part[l] = {}
  OBVIOUS
<1>2. IsFiniteSet(W)
  <2>1. W \in SUBSET S
    OBVIOUS
  <2> QED BY <2>1, FS_Subset
<1>3. \A x \in W : f[x] \in Int
  OBVIOUS
<1>4. ASSUME NEW k \in K
      PROVE  g[k] = SumOf(f, Part[k])
  <2>1. IsFiniteSet(P[k]) /\ \A x \in P[k] : f[x] = v[k]
    BY FS_Subset
  <2>2. SumOf(f, P[k]) = v[k] * Cardinality(P[k])
    BY <2>1, SumConstant
  <2> QED BY <2>2
<1>5. SumOf(g, K) = SumOf(f, UNION {Part[k] : k \in K})
  <2> HIDE DEF Part, W
  <2> QED BY <1>1, <1>2, <1>3, <1>4, SumParts
<1>6. UNION {Part[k] : k \in K} = UNION {P[k] : k \in K}
  OBVIOUS
<1> HIDE DEF Part
<1> QED BY <1>5, <1>6

\* A sum of naturals does not grow when terms are left out.
LEMMA SumSubset ==
    ASSUME NEW f, NEW T, IsFiniteSet(T), \A x \in T : f[x] \in Nat, NEW S \in SUBSET T
    PROVE  SumOf(f, S) <= SumOf(f, T)
<1> DEFINE R == T \ S
<1>1. IsFiniteSet(S) /\ IsFiniteSet(R) /\ S \cap R = {} /\ S \cup R = T
  BY FS_Subset
<1> HIDE DEF R
<1>2. SumOf(f, T) = SumOf(f, S) + SumOf(f, R)
  BY <1>1, SumUnion
<1>3. SumOf(f, S) \in Nat /\ SumOf(f, R) \in Nat
  BY <1>1, SumNat
<1> QED BY <1>2, <1>3

-----------------------------------------------------------------------------
(* Shares *)

\* A quotient is the last one not above the exact value.
LEMMA Quotient ==
    ASSUME NEW a \in Nat, NEW d \in Nat, d > 0
    PROVE  /\ a \div d \in Nat
           /\ d * (a \div d) <= a
           /\ a <= d * (a \div d) + (d - 1)
<1> DEFINE q == a \div d
           r == a % d
<1>1. q \in Int /\ r \in Nat /\ r <= d - 1 /\ a = d * q + r
  OBVIOUS
<1>2. q >= 0
  OBVIOUS
<1> HIDE DEF q, r
<1> QED BY <1>1, <1>2 DEF q

\* Shares rounded down lose less than one each.
LEMMA SharesBound ==
    ASSUME NEW cost \in Nat, NEW total \in Nat, total > 0,
           NEW t, NEW s, NEW S, IsFiniteSet(S),
           \A x \in S : t[x] \in Nat /\ s[x] = (cost * t[x]) \div total
    PROVE  /\ total * SumOf(s, S) <= cost * SumOf(t, S)
           /\ cost * SumOf(t, S) <= total * SumOf(s, S) + (total - 1) * Cardinality(S)
<1> DEFINE Good == {T \in SUBSET S :
              /\ total * SumOf(s, T) <= cost * SumOf(t, T)
              /\ cost * SumOf(t, T) <= total * SumOf(s, T) + (total - 1) * Cardinality(T)}
<1>1. {} \in Good
  BY SumEmpty, FS_EmptySet
<1>2. \A x \in S : t[x] \in Nat /\ s[x] \in Nat
                  /\ total * s[x] <= cost * t[x] /\ cost * t[x] <= total * s[x] + (total - 1)
  <2>1. ASSUME NEW x \in S
        PROVE  t[x] \in Nat /\ s[x] \in Nat
               /\ total * s[x] <= cost * t[x] /\ cost * t[x] <= total * s[x] + (total - 1)
    <3>1. cost * t[x] \in Nat /\ s[x] = (cost * t[x]) \div total /\ t[x] \in Nat
      OBVIOUS
    <3> QED BY <3>1, Quotient
  <2> QED BY <2>1
<1>3. ASSUME NEW T \in SUBSET S, T # {}, \A x \in T : T \ {x} \in Good
      PROVE  T \in Good
  <2>1. PICK x \in T : TRUE
    BY <1>3
  <2>2. IsFiniteSet(T) /\ IsFiniteSet(T \ {x})
    BY FS_Subset
  <2>3. SumOf(s, T) = s[x] + SumOf(s, T \ {x}) /\ SumOf(t, T) = t[x] + SumOf(t, T \ {x})
    BY <1>2, <2>2, SumRemove
  <2>4. Cardinality(T \ {x}) \in Nat /\ Cardinality(T) = Cardinality(T \ {x}) + 1
    BY <2>2, FS_RemoveElement, FS_CardinalityType
  <2>5. SumOf(s, T \ {x}) \in Nat /\ SumOf(t, T \ {x}) \in Nat
    BY <1>2, <2>2, SumNat
  <2>6. /\ total * SumOf(s, T \ {x}) <= cost * SumOf(t, T \ {x})
        /\ cost * SumOf(t, T \ {x})
              <= total * SumOf(s, T \ {x}) + (total - 1) * Cardinality(T \ {x})
    BY <1>3
  <2>7. \A a, b, c, d, n \in Nat :
           /\ total * a <= cost * b /\ cost * b <= total * a + (total - 1)
           /\ total * c <= cost * d /\ cost * d <= total * c + (total - 1) * n
           => /\ total * (a + c) <= cost * (b + d)
              /\ cost * (b + d) <= total * (a + c) + (total - 1) * (n + 1)
    OBVIOUS
  <2>8. /\ total * SumOf(s, T) <= cost * SumOf(t, T)
        /\ cost * SumOf(t, T) <= total * SumOf(s, T) + (total - 1) * Cardinality(T)
    BY <1>2, <2>3, <2>4, <2>5, <2>6, <2>7
  <2> QED BY <2>8
<1>4. S \in Good
  <2> HIDE DEF Good
  <2> QED BY <1>1, <1>3, SubsetInduction
<1> QED BY <1>4

\* So they add up to what is shared out, but for less than one each.
LEMMA SharesAddUp ==
    ASSUME NEW cost \in Nat, NEW total \in Nat, total > 0,
           NEW t, NEW s, NEW S, IsFiniteSet(S),
           \A x \in S : t[x] \in Nat /\ s[x] = (cost * t[x]) \div total,
           NEW whole \in Nat,
           total * whole <= cost * SumOf(t, S), cost * SumOf(t, S) < total * (whole + 1)
    PROVE  /\ SumOf(s, S) <= whole
           /\ S # {} => whole - SumOf(s, S) < Cardinality(S)
<1> DEFINE a == SumOf(s, S)
           b == cost * SumOf(t, S)
           n == Cardinality(S)
<1>1. a \in Nat
  <2>1. ASSUME NEW x \in S
        PROVE  s[x] \in Nat
    <3>1. cost * t[x] \in Nat /\ s[x] = (cost * t[x]) \div total
      OBVIOUS
    <3> QED BY <3>1, Quotient
  <2> QED BY <2>1, SumNat
<1>2. b \in Nat
  <2>1. SumOf(t, S) \in Nat
    BY SumNat
  <2> QED BY <2>1
<1>3. n \in Nat /\ (S # {} => n > 0)
  BY FS_CardinalityType, FS_EmptySet
<1>4. total * a <= b /\ b <= total * a + (total - 1) * n
  BY SharesBound
<1>5. total * whole <= b /\ b < total * (whole + 1)
  OBVIOUS
<1> HIDE DEF a, b, n
<1>6. a <= whole
  <2>1. total * a < total * (whole + 1)
    BY <1>1, <1>2, <1>4, <1>5
  <2>2. a < whole + 1
    BY <1>1, <2>1
  <2> QED BY <1>1, <2>2
<1>7. n > 0 => whole - a < n
  <2>1. SUFFICES ASSUME n > 0, whole - a >= n
                 PROVE  FALSE
    BY <1>1, <1>3
  <2>2. total * whole >= total * (a + n)
    BY <1>1, <1>3, <2>1
  <2>3. total * (a + n) = total * a + (total - 1) * n + n
    BY <1>1, <1>3
  <2>4. total * a \in Nat /\ (total - 1) * n \in Nat /\ total * whole \in Nat
    BY <1>1, <1>3
  <2> QED BY <1>2, <1>3, <1>4, <1>5, <2>1, <2>2, <2>3, <2>4
<1> QED BY <1>3, <1>6, <1>7 DEF a, n
=============================================================================
