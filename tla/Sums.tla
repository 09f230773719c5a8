--------------------------------- MODULE Sums ---------------------------------
(***************************************************************************)
(* Facts about SumFunctionOnSet, the sum of the community modules, over a  *)
(* finite set of integers: what the proofs that no count is lost need.     *)
(* The induction over the size of the set is the choice of a least         *)
(* counterexample.                                                         *)
(***************************************************************************)
EXTENDS Integers, FiniteSets, Functions, FiniteSetTheorems, WellFoundedInduction, TLAPS

\* An interval of integers is finite.
LEMMA UpToIsFinite ==
    ASSUME NEW a \in Int, NEW b \in Int
    PROVE  IsFiniteSet(a..b)
  BY FS_Interval

\* Every set of naturals that is not empty has a least element.
LEMMA LeastElement ==
    ASSUME NEW S \in SUBSET Nat, S # {}
    PROVE  \E x \in S : \A y \in S : x <= y
<1> DEFINE R == OpToRel(<, Nat)
<1>1. IsWellFoundedOn(R, Nat)
  BY NatLessThanWellFounded
<1>2. PICK x \in S : \A y \in S : ~ (<<y, x>> \in R)
  <2> HIDE DEF R
  <2> QED BY <1>1, WFMin
<1>3. ASSUME NEW y \in S, y < x PROVE <<y, x>> \in R
  BY <1>3 DEF OpToRel
<1>4. ASSUME NEW y \in S PROVE x <= y
  <2> HIDE DEF R
  <2>1. ~(y < x)
    BY <1>2, <1>3
  <2> QED BY <2>1
<1> QED BY <1>4

\* The element the sum takes off a set.
Chosen(s) == CHOOSE x \in s : TRUE

\* One step of the sum, on a function g from sets to their sums.
SumStepOf(f, g, s) == IF s = {} THEN 0 ELSE f[Chosen(s)] + g[s \ {Chosen(s)}]

IsSum(f, g, S) == g = [s \in SUBSET S |-> SumStepOf(f, g, s)]

\* A set loses one of its size with an element.
LEMMA Smaller ==
    ASSUME NEW S, IsFiniteSet(S), NEW T \in SUBSET S, NEW x \in T
    PROVE  /\ IsFiniteSet(T) /\ Cardinality(T) \in Nat /\ T \ {x} \in SUBSET S
           /\ IsFiniteSet(T \ {x}) /\ Cardinality(T \ {x}) \in Nat
           /\ Cardinality(T \ {x}) = Cardinality(T) - 1
<1>1. IsFiniteSet(T)
  BY FS_Subset
<1> QED BY <1>1, FS_RemoveElement, FS_CardinalityType

\* What is taken off a set is in it.
LEMMA ChosenIn ==
    ASSUME NEW S, S # {}
    PROVE  Chosen(S) \in S
  BY DEF Chosen

\* The recursion of the sum is well defined on the subsets of a finite set.
LEMMA SumExists ==
    ASSUME NEW S, IsFiniteSet(S), NEW f, \A x \in S : f[x] \in Int
    PROVE  \E g \in [SUBSET S -> Int] : IsSum(f, g, S)
<1> DEFINE Small(n) == {s \in SUBSET S : Cardinality(s) <= n}
           Good(n) == \E g \in [Small(n) -> Int] :
                         \A s \in Small(n) : g[s] = SumStepOf(f, g, s)
           Bad == {n \in Nat : ~Good(n)}
<1>1. SUFFICES Bad = {}
  <2>1. Cardinality(S) \in Nat /\ \A s \in SUBSET S : Cardinality(s) <= Cardinality(S)
    BY FS_Subset, FS_CardinalityType
  <2>2. Small(Cardinality(S)) = SUBSET S
    BY <2>1
  <2>3. Good(Cardinality(S))
    <3> HIDE DEF Good
    <3> QED BY <1>1, <2>1
  <2>4. PICK g \in [SUBSET S -> Int] : \A s \in SUBSET S : g[s] = SumStepOf(f, g, s)
    <3> HIDE DEF Small
    <3> QED BY <2>2, <2>3
  <2> QED BY <2>4 DEF IsSum
<1>2. SUFFICES ASSUME Bad # {} PROVE FALSE
  OBVIOUS
<1>3. PICK m \in Bad : \A n \in Bad : m <= n
  <2>1. Bad \in SUBSET Nat
    OBVIOUS
  <2> HIDE DEF Bad
  <2> QED BY <1>2, <2>1, LeastElement
<1>4. m \in Nat
  OBVIOUS
<1>5. CASE m = 0
  <2> DEFINE g == [s \in Small(0) |-> 0]
  <2>1. ASSUME NEW s \in Small(0) PROVE s = {}
    <3>1. IsFiniteSet(s) /\ Cardinality(s) \in Nat
      BY FS_Subset, FS_CardinalityType
    <3> QED BY <3>1, FS_EmptySet
  <2>2. \A s \in Small(0) : g[s] = SumStepOf(f, g, s)
    BY <2>1 DEF SumStepOf
  <2>3. g \in [Small(0) -> Int]
    OBVIOUS
  <2>4. Good(0)
    <3> HIDE DEF g
    <3> QED BY <2>2, <2>3
  <2> HIDE DEF Good
  <2> QED BY <1>5, <2>4
<1>6. CASE m > 0
  <2>1. m - 1 \in Nat /\ m - 1 < m
    BY <1>4, <1>6
  <2>2. Good(m - 1)
    <3> HIDE DEF Good
    <3> QED BY <1>3, <1>4, <2>1
  <2>3. PICK h \in [Small(m - 1) -> Int] :
           \A s \in Small(m - 1) : h[s] = SumStepOf(f, h, s)
    BY <2>2
  <2> DEFINE g == [s \in Small(m) |-> SumStepOf(f, h, s)]
  <2>4. ASSUME NEW s \in Small(m), s # {}
        PROVE  Chosen(s) \in S /\ s \ {Chosen(s)} \in Small(m - 1)
    <3>1. Chosen(s) \in s
      BY <2>4, ChosenIn
    <3>2. s \in SUBSET S /\ Cardinality(s) <= m
      OBVIOUS
    <3>3. /\ s \ {Chosen(s)} \in SUBSET S /\ Cardinality(s) \in Nat
          /\ Cardinality(s \ {Chosen(s)}) = Cardinality(s) - 1
      BY <3>1, <3>2, Smaller
    <3> QED BY <1>4, <3>1, <3>2, <3>3
  <2>5. g \in [Small(m) -> Int]
    <3>1. ASSUME NEW s \in Small(m) PROVE SumStepOf(f, h, s) \in Int
      BY <2>3, <2>4 DEF SumStepOf
    <3> QED BY <3>1
  <2>6. ASSUME NEW s \in Small(m) PROVE g[s] = SumStepOf(f, g, s)
    <3>1. CASE s = {}
      BY <3>1 DEF SumStepOf
    <3>2. CASE s # {}
      <4> DEFINE r == s \ {Chosen(s)}
      <4>1. r \in Small(m - 1) /\ r \in Small(m)
        BY <1>4, <2>4, <3>2, FS_Subset, FS_CardinalityType
      <4>2. g[r] = h[r]
        BY <2>3, <4>1
      <4>3. g[s] = f[Chosen(s)] + h[r]
        BY <3>2 DEF SumStepOf
      <4>4. SumStepOf(f, g, s) = f[Chosen(s)] + g[r]
        <5> HIDE DEF g
        <5> QED BY <3>2 DEF SumStepOf
      <4> HIDE DEF g, r
      <4> QED BY <4>2, <4>3, <4>4
    <3> QED BY <3>1, <3>2
  <2>7. Good(m)
    <3> HIDE DEF g
    <3> QED BY <2>5, <2>6
  <2> HIDE DEF Good
  <2> QED BY <2>7
<1> QED BY <1>4, <1>5, <1>6

\* Two functions that sum agree where both are defined.
LEMMA SumUnique ==
    ASSUME NEW S, IsFiniteSet(S), NEW T \in SUBSET S, NEW f,
           NEW g, IsSum(f, g, S), NEW h, IsSum(f, h, T)
    PROVE  \A s \in SUBSET T : g[s] = h[s]
<1> DEFINE Bad == {n \in Nat : \E s \in SUBSET T : Cardinality(s) = n /\ g[s] # h[s]}
<1>1. SUFFICES ASSUME NEW t \in SUBSET T, g[t] # h[t] PROVE FALSE
  OBVIOUS
<1>2. IsFiniteSet(T)
  BY FS_Subset
<1>3. Cardinality(t) \in Nat
  BY <1>2, FS_Subset, FS_CardinalityType
<1>4. PICK m \in Bad : \A n \in Bad : m <= n
  <2>1. Bad \in SUBSET Nat /\ Bad # {}
    BY <1>1, <1>3
  <2> HIDE DEF Bad
  <2> QED BY <2>1, LeastElement
<1>5. PICK s \in SUBSET T : Cardinality(s) = m /\ g[s] # h[s]
  OBVIOUS
<1>6. g[s] = SumStepOf(f, g, s) /\ h[s] = SumStepOf(f, h, s)
  <2>1. s \in SUBSET S
    OBVIOUS
  <2>2. ASSUME NEW a, NEW A, NEW b \in SUBSET A, IsSum(f, a, A)
        PROVE  a[b] = SumStepOf(f, a, b)
    <3> DEFINE r == [x \in SUBSET A |-> SumStepOf(f, a, x)]
    <3>1. r[b] = SumStepOf(f, a, b)
      OBVIOUS
    <3>2. a = r
      BY <2>2 DEF IsSum
    <3> HIDE DEF r
    <3> QED BY <3>1, <3>2
  <2> QED BY <2>1, <2>2
<1>7. s # {}
  BY <1>5, <1>6 DEF SumStepOf
<1> DEFINE r == s \ {Chosen(s)}
<1>8. Chosen(s) \in s
  BY <1>7, ChosenIn
<1>9. r \in SUBSET T /\ Cardinality(r) \in Nat /\ Cardinality(r) < m
  BY <1>2, <1>5, <1>8, Smaller
<1>10. g[r] = h[r]
  <2>1. Cardinality(r) \notin Bad
    <3> HIDE DEF Bad, r
    <3>1. m \in Nat
      BY DEF Bad
    <3> QED BY <1>4, <1>9, <3>1
  <2> QED BY <1>9, <2>1
<1> HIDE DEF r, Bad
<1> QED BY <1>5, <1>6, <1>7, <1>10 DEF SumStepOf, r

\* The sum over a set, as the sum over its subset without one element.
LEMMA SumUnfolds ==
    ASSUME NEW S, IsFiniteSet(S), NEW f, \A x \in S : f[x] \in Int
    PROVE  /\ SumFunctionOnSet(f, S) \in Int
           /\ S # {} => SumFunctionOnSet(f, S) =
                          f[Chosen(S)] + SumFunctionOnSet(f, S \ {Chosen(S)})
<1>1. ASSUME NEW T, IsFiniteSet(T), \A x \in T : f[x] \in Int
      PROVE  \E g \in [SUBSET T -> Int] : IsSum(f, g, T) /\ SumFunctionOnSet(f, T) = g[T]
  <2> DEFINE G == CHOOSE g : g = [s \in SUBSET T |-> SumStepOf(f, g, s)]
  <2>1. SumFunctionOnSet(f, T) = G[T]
    BY DEF SumFunctionOnSet, FoldFunctionOnSet, MapThenFoldSet, SumStepOf, Chosen
  <2>2. IsSum(f, G, T)
    BY <1>1, SumExists DEF IsSum
  <2>3. PICK g \in [SUBSET T -> Int] : IsSum(f, g, T)
    BY <1>1, SumExists
  <2> HIDE DEF G
  <2>4. g[T] = G[T]
    BY <1>1, <2>2, <2>3, SumUnique
  <2> QED BY <2>1, <2>3, <2>4
<1>2. PICK g \in [SUBSET S -> Int] : IsSum(f, g, S) /\ SumFunctionOnSet(f, S) = g[S]
  BY <1>1
<1>3. ASSUME S # {} PROVE SumFunctionOnSet(f, S) =
                            f[Chosen(S)] + SumFunctionOnSet(f, S \ {Chosen(S)})
  <2> DEFINE T == S \ {Chosen(S)}
  <2>1. IsFiniteSet(T) /\ \A x \in T : f[x] \in Int
    BY FS_Subset
  <2>2. PICK h \in [SUBSET T -> Int] : IsSum(f, h, T) /\ SumFunctionOnSet(f, T) = h[T]
    BY <1>1, <2>1
  <2>3. g[T] = h[T]
    BY <1>2, <2>2, SumUnique
  <2>4. g[S] = f[Chosen(S)] + g[T]
    <3> DEFINE r == [x \in SUBSET S |-> SumStepOf(f, g, x)]
    <3>1. r[S] = SumStepOf(f, g, S)
      OBVIOUS
    <3>2. g = r
      BY <1>2 DEF IsSum
    <3> HIDE DEF r
    <3> QED BY <1>3, <3>1, <3>2 DEF SumStepOf
  <2> HIDE DEF T
  <2>5. SumFunctionOnSet(f, S) = f[Chosen(S)] + SumFunctionOnSet(f, T)
    BY <1>2, <2>2, <2>3, <2>4, Zenon
  <2> QED BY <2>5 DEF T
<1> QED BY <1>2, <1>3

-----------------------------------------------------------------------------

\* Over no elements the sum is 0.
LEMMA SumEmpty ==
    ASSUME NEW f
    PROVE  SumFunctionOnSet(f, {}) = 0
<1> DEFINE G == CHOOSE g : g = [s \in SUBSET {} |-> SumStepOf(f, g, s)]
<1>1. SumFunctionOnSet(f, {}) = G[{}]
  BY DEF SumFunctionOnSet, FoldFunctionOnSet, MapThenFoldSet, SumStepOf, Chosen
<1>2. IsSum(f, G, {})
  BY SumExists, FS_EmptySet DEF IsSum
<1> DEFINE r == [x \in SUBSET {} |-> SumStepOf(f, G, x)]
<1>3. r[{}] = 0
  BY DEF SumStepOf
<1>4. G = r
  BY <1>2 DEF IsSum
<1> HIDE DEF G, r
<1> QED BY <1>1, <1>3, <1>4

\* The sum is an integer, and any element can be taken out of it.
LEMMA SumSplits ==
    ASSUME NEW S, IsFiniteSet(S), NEW f, \A y \in S : f[y] \in Int
    PROVE  /\ SumFunctionOnSet(f, S) \in Int
           /\ \A x \in S : /\ SumFunctionOnSet(f, S \ {x}) \in Int
                           /\ SumFunctionOnSet(f, S) = f[x] + SumFunctionOnSet(f, S \ {x})
<1> DEFINE Sum(T) == SumFunctionOnSet(f, T)
           Bad == {n \in Nat : \E T \in SUBSET S :
                      Cardinality(T) = n /\ \E x \in T : Sum(T) # f[x] + Sum(T \ {x})}
<1>1. ASSUME NEW T \in SUBSET S
      PROVE  /\ Sum(T) \in Int /\ IsFiniteSet(T) /\ Cardinality(T) \in Nat
             /\ T # {} => Sum(T) = f[Chosen(T)] + Sum(T \ {Chosen(T)})
  <2>1. IsFiniteSet(T) /\ Cardinality(T) \in Nat /\ \A y \in T : f[y] \in Int
    BY FS_Subset, FS_CardinalityType
  <2> QED BY <2>1, SumUnfolds
<1> HIDE DEF Sum
<1>2. ASSUME NEW T \in SUBSET S, NEW x \in T PROVE Sum(T) = f[x] + Sum(T \ {x})
  <2>1. SUFFICES ASSUME Bad # {} PROVE FALSE
    BY <1>1, <1>2
  <2>2. PICK m \in Bad : \A n \in Bad : m <= n
    <3>1. Bad \in SUBSET Nat
      OBVIOUS
    <3> HIDE DEF Bad
    <3> QED BY <2>1, <3>1, LeastElement
  <2>3. PICK U \in SUBSET S, u \in S :
           u \in U /\ Cardinality(U) = m /\ Sum(U) # f[u] + Sum(U \ {u})
    OBVIOUS
  <2>4. PICK c \in U : c = Chosen(U)
    BY <2>3, ChosenIn
  <2>5. c # u
    BY <1>1, <2>3, <2>4
  <2> DEFINE A == U \ {c}
             B == U \ {u}
             C == A \ {u}
  <2>6. /\ A \in SUBSET S /\ B \in SUBSET S /\ C \in SUBSET S /\ C = B \ {c}
        /\ u \in A /\ c \in B /\ B # {}
    BY <2>3, <2>5
  <2>7. m \in Nat /\ Cardinality(A) = m - 1 /\ Cardinality(B) = m - 1
        /\ Cardinality(A) \in Nat /\ Cardinality(B) \in Nat
    BY <2>3, <2>4, Smaller
  <2>8. Cardinality(A) \notin Bad /\ Cardinality(B) \notin Bad
    <3> HIDE DEF Bad, A, B
    <3> QED BY <2>2, <2>7
  <2>9. Sum(A) = f[u] + Sum(C) /\ Sum(B) = f[c] + Sum(B \ {c})
    <3> HIDE DEF A, B
    <3> QED BY <2>6, <2>7, <2>8 DEF C
  <2>10. Sum(U) = f[c] + Sum(A)
    BY <1>1, <2>3, <2>4
  <2>11. f[c] \in Int /\ f[u] \in Int /\ Sum(A) \in Int /\ Sum(B) \in Int /\ Sum(C) \in Int
    <3> HIDE DEF A, B, C
    <3> QED BY <1>1, <2>3, <2>4, <2>6
  <2>12. Sum(B \ {c}) = Sum(C)
    BY <2>6
  <2> HIDE DEF A, B, C
  <2>13. Sum(U) = f[u] + Sum(B)
    BY <2>9, <2>10, <2>11, <2>12
  <2> QED BY <2>3, <2>13 DEF B
<1>3. S \in SUBSET S /\ \A x \in S : S \ {x} \in SUBSET S
  OBVIOUS
<1>4. Sum(S) \in Int /\ \A x \in S : Sum(S \ {x}) \in Int /\ Sum(S) = f[x] + Sum(S \ {x})
  BY <1>1, <1>2, <1>3
<1> QED BY <1>4 DEF Sum

\* The sum depends on the values over the set only.
LEMMA SumSame ==
    ASSUME NEW S, IsFiniteSet(S), NEW f, NEW g,
           \A y \in S : f[y] \in Int /\ g[y] = f[y]
    PROVE  SumFunctionOnSet(g, S) = SumFunctionOnSet(f, S)
<1> DEFINE Bad == {n \in Nat : \E T \in SUBSET S : Cardinality(T) = n
                      /\ SumFunctionOnSet(g, T) # SumFunctionOnSet(f, T)}
<1>1. SUFFICES ASSUME Bad # {} PROVE FALSE
  <2>1. S \in SUBSET S /\ Cardinality(S) \in Nat
    BY FS_CardinalityType
  <2> QED BY <1>1, <2>1
<1>2. PICK m \in Bad : \A n \in Bad : m <= n
  <2>1. Bad \in SUBSET Nat
    OBVIOUS
  <2> HIDE DEF Bad
  <2> QED BY <1>1, <2>1, LeastElement
<1>3. PICK T \in SUBSET S : Cardinality(T) = m
                            /\ SumFunctionOnSet(g, T) # SumFunctionOnSet(f, T)
  OBVIOUS
<1>4. PICK c \in T : TRUE
  BY <1>3, SumEmpty
<1> DEFINE R == T \ {c}
<1>5. /\ IsFiniteSet(T) /\ R \in SUBSET S /\ m \in Nat
      /\ Cardinality(R) \in Nat /\ Cardinality(R) = m - 1
  BY <1>3, Smaller
<1>6. SumFunctionOnSet(g, R) = SumFunctionOnSet(f, R)
  <2>1. Cardinality(R) \notin Bad
    <3> HIDE DEF Bad, R
    <3> QED BY <1>2, <1>5
  <2> QED BY <1>5, <2>1
<1>7. /\ SumFunctionOnSet(f, T) = f[c] + SumFunctionOnSet(f, R)
      /\ SumFunctionOnSet(g, T) = g[c] + SumFunctionOnSet(g, R)
  <2>1. \A y \in T : f[y] \in Int /\ g[y] \in Int
    OBVIOUS
  <2> QED BY <1>5, <2>1, SumSplits
<1> QED BY <1>3, <1>6, <1>7

\* Zeros sum up to 0.
LEMMA SumZero ==
    ASSUME NEW S, IsFiniteSet(S), NEW f, \A y \in S : f[y] = 0
    PROVE  SumFunctionOnSet(f, S) = 0
<1> DEFINE Bad == {n \in Nat : \E T \in SUBSET S : Cardinality(T) = n
                      /\ SumFunctionOnSet(f, T) # 0}
<1>1. SUFFICES ASSUME Bad # {} PROVE FALSE
  <2>1. S \in SUBSET S /\ Cardinality(S) \in Nat
    BY FS_CardinalityType
  <2> QED BY <1>1, <2>1
<1>2. PICK m \in Bad : \A n \in Bad : m <= n
  <2>1. Bad \in SUBSET Nat
    OBVIOUS
  <2> HIDE DEF Bad
  <2> QED BY <1>1, <2>1, LeastElement
<1>3. PICK T \in SUBSET S : Cardinality(T) = m /\ SumFunctionOnSet(f, T) # 0
  OBVIOUS
<1>4. PICK c \in T : TRUE
  BY <1>3, SumEmpty
<1> DEFINE R == T \ {c}
<1>5. /\ IsFiniteSet(T) /\ R \in SUBSET S /\ m \in Nat
      /\ Cardinality(R) \in Nat /\ Cardinality(R) = m - 1
  BY <1>3, Smaller
<1>6. SumFunctionOnSet(f, R) = 0
  <2>1. Cardinality(R) \notin Bad
    <3> HIDE DEF Bad, R
    <3> QED BY <1>2, <1>5
  <2> QED BY <1>5, <2>1
<1>7. SumFunctionOnSet(f, T) = f[c] + SumFunctionOnSet(f, R)
  <2>1. \A y \in T : f[y] \in Int
    OBVIOUS
  <2> QED BY <1>5, <2>1, SumSplits
<1> QED BY <1>3, <1>6, <1>7

\* Where one value grows by d, so does the sum.
LEMMA SumGrows ==
    ASSUME NEW S, IsFiniteSet(S), NEW f, NEW g, NEW x \in S, NEW d \in Int,
           \A y \in S : f[y] \in Int,
           g[x] = f[x] + d, \A y \in S : y # x => g[y] = f[y]
    PROVE  SumFunctionOnSet(g, S) = SumFunctionOnSet(f, S) + d
<1> DEFINE R == S \ {x}
<1>1. \A y \in S : g[y] \in Int
  OBVIOUS
<1>2. SumFunctionOnSet(f, R) \in Int /\ SumFunctionOnSet(f, S) = f[x] + SumFunctionOnSet(f, R)
  BY SumSplits
<1>3. SumFunctionOnSet(g, S) = g[x] + SumFunctionOnSet(g, R)
  BY <1>1, SumSplits
<1>4. SumFunctionOnSet(g, R) = SumFunctionOnSet(f, R)
  <2>1. IsFiniteSet(R) /\ \A y \in R : f[y] \in Int /\ g[y] = f[y]
    BY FS_Subset
  <2> QED BY <2>1, SumSame
<1>5. f[x] \in Int
  OBVIOUS
<1> HIDE DEF R
<1> QED BY <1>2, <1>3, <1>4, <1>5

\* The sum over an interval grows by its last value.
LEMMA SumExtends ==
    ASSUME NEW n \in Nat, NEW f, NEW g,
           \A y \in 1..n : f[y] \in Int /\ g[y] = f[y], g[n + 1] \in Int
    PROVE  /\ SumFunctionOnSet(f, 1..n) \in Int
           /\ SumFunctionOnSet(g, 1..(n + 1)) = SumFunctionOnSet(f, 1..n) + g[n + 1]
<1>1. IsFiniteSet(1..n) /\ IsFiniteSet(1..(n + 1))
  BY FS_Interval
<1>2. \A y \in 1..(n + 1) : g[y] \in Int
  OBVIOUS
<1>3. n + 1 \in 1..(n + 1) /\ (1..(n + 1)) \ {n + 1} = 1..n
  OBVIOUS
<1>4. SumFunctionOnSet(g, 1..(n + 1)) = g[n + 1] + SumFunctionOnSet(g, 1..n)
  <2> DEFINE S == 1..(n + 1)
             x == n + 1
  <2>1. IsFiniteSet(S) /\ x \in S /\ \A y \in S : g[y] \in Int
    BY <1>1, <1>2, <1>3
  <2> HIDE DEF S, x
  <2>2. SumFunctionOnSet(g, S) = g[x] + SumFunctionOnSet(g, S \ {x})
    BY <2>1, SumSplits
  <2>3. S \ {x} = 1..n
    BY <1>3 DEF S, x
  <2> QED BY <2>2, <2>3, Zenon DEF S, x
<1>5. SumFunctionOnSet(g, 1..n) = SumFunctionOnSet(f, 1..n) /\ SumFunctionOnSet(f, 1..n) \in Int
  BY <1>1, SumSame, SumSplits
<1> QED BY <1>4, <1>5

\* Without negative values the sum over a subset is no larger.
LEMMA SumOfSubset ==
    ASSUME NEW S, IsFiniteSet(S), NEW f, \A y \in S : f[y] \in Nat, NEW R \in SUBSET S
    PROVE  /\ SumFunctionOnSet(f, R) \in Int /\ SumFunctionOnSet(f, S) \in Int
           /\ SumFunctionOnSet(f, R) <= SumFunctionOnSet(f, S)
<1>1. SumFunctionOnSet(f, R) \in Int /\ SumFunctionOnSet(f, S) \in Int
  <2>1. IsFiniteSet(R) /\ \A y \in S : f[y] \in Int
    BY FS_Subset
  <2> QED BY <2>1, SumSplits
<1> DEFINE Between == {T \in SUBSET S : R \subseteq T}
           Bad == {n \in Nat : \E T \in Between : Cardinality(T) = n
                      /\ ~(SumFunctionOnSet(f, R) <= SumFunctionOnSet(f, T))}
<1>2. SUFFICES ASSUME Bad # {} PROVE FALSE
  <2>1. S \in Between /\ Cardinality(S) \in Nat
    BY FS_CardinalityType
  <2> QED BY <1>1, <1>2, <2>1
<1>3. PICK m \in Bad : \A n \in Bad : m <= n
  <2>1. Bad \in SUBSET Nat
    OBVIOUS
  <2> HIDE DEF Bad
  <2> QED BY <1>2, <2>1, LeastElement
<1>4. PICK T \in Between : Cardinality(T) = m
                            /\ ~(SumFunctionOnSet(f, R) <= SumFunctionOnSet(f, T))
  OBVIOUS
<1>5. PICK c \in T : c \notin R
  BY <1>1, <1>4
<1> DEFINE U == T \ {c}
<1>6. /\ IsFiniteSet(T) /\ U \in Between /\ m \in Nat
      /\ Cardinality(U) \in Nat /\ Cardinality(U) = m - 1
  BY <1>4, <1>5, Smaller
<1>7. SumFunctionOnSet(f, R) <= SumFunctionOnSet(f, U)
  <2>1. Cardinality(U) \notin Bad
    <3> HIDE DEF Bad, U
    <3> QED BY <1>3, <1>6
  <2> QED BY <1>6, <2>1
<1>8. SumFunctionOnSet(f, T) = f[c] + SumFunctionOnSet(f, U) /\ SumFunctionOnSet(f, U) \in Int
  <2>1. \A y \in T : f[y] \in Int
    OBVIOUS
  <2> QED BY <1>6, <2>1, SumSplits
<1>9. f[c] \in Nat
  OBVIOUS
<1> HIDE DEF U, Bad, Between
<1> QED BY <1>1, <1>4, <1>7, <1>8, <1>9

=============================================================================
