--------------------------- MODULE FindIndexProofs ---------------------------
(***************************************************************************)
(* The binary search of FindIndex is correct for every node size, key      *)
(* length and token range.  The inductive invariant says that the window   *)
(* never loses the searched key: everything left of it is not later than   *)
(* the key, everything right of it is later.                               *)
(***************************************************************************)
EXTENDS FindIndex, TLAPS

\* On a node with entries the window is a non-empty range of its indices; on a
\* node without entries it is empty from the start and the loop aborts.
WindowInv ==
    IF entries = 0
    THEN pc \in {"while", "abort"} /\ mn = 0 /\ mx = -1
    ELSE pc # "abort" /\ 0 <= mn /\ mn <= mx /\ mx <= entries - 1

\* The entry at mn is not later than the key (unless it is the first), every
\* entry behind mx is later.
BoundsInv ==
    entries > 0 =>
        /\ mn > 0 => ~Earlier(key, keyvals[mn])
        /\ \A e \in (mx+1)..(entries-1) : Earlier(key, keyvals[e])

\* An entry equal to the key is inside the window.
InsideInv == \A e \in 0..(entries-1) : keyvals[e] = key => mn <= e /\ e <= mx

\* While a probe is compared it lies in the window, right of mn, and all tokens
\* before i agree.
ProbeInv ==
    pc = "compare" =>
        /\ mn < mp /\ mp <= mx
        /\ \A h \in 1..(i-1) : key[h] = keyvals[mp][h]

\* After the loop the window is one entry, and the result is that entry or -1.
ResultInv ==
    /\ pc \in {"exact", "return"} => mn = mx
    /\ pc = "return" =>
         ret = IF exact /\ \E j \in 1..N : keyvals[mn][j] # key[j] THEN -1 ELSE mn

IInv == TypeOK /\ Sorted /\ WindowInv /\ BoundsInv /\ InsideInv /\ ProbeInv /\ ResultInv

-----------------------------------------------------------------------------

\* The token order is irreflexive and asymmetric on integer tuples; no proof
\* below needs that it is total or transitive.
LEMMA EarlierIrreflexive ==
    ASSUME NEW a \in [1..N -> Int]
    PROVE  ~Earlier(a, a)
  BY FindAssumption DEF Earlier

\* Of two keys at most one is earlier than the other.
LEMMA EarlierAsymmetric ==
    ASSUME NEW a \in [1..N -> Int], NEW b \in [1..N -> Int], Earlier(a, b)
    PROVE  ~Earlier(b, a)
<1>1. PICK j \in 1..N : a[j] < b[j] /\ \A h \in 1..(j-1) : a[h] = b[h]
  BY DEF Earlier
<1>2. SUFFICES ASSUME Earlier(b, a) PROVE FALSE
  OBVIOUS
<1>3. PICK g \in 1..N : b[g] < a[g] /\ \A h \in 1..(g-1) : b[h] = a[h]
  BY <1>2 DEF Earlier
<1>4. CASE j < g
  BY <1>1, <1>3, <1>4, FindAssumption
<1>5. CASE g < j
  BY <1>1, <1>3, <1>5, FindAssumption
<1>6. CASE g = j
  BY <1>1, <1>3, <1>6, FindAssumption
<1>7. QED
  BY <1>4, <1>5, <1>6, FindAssumption

\* Stored keys and queries are integer tuples.
LEMMA KeysAreTuples ==
    ASSUME TypeOK
    PROVE  /\ key \in [1..N -> Int]
           /\ \A e \in 0..(entries-1) : keyvals[e] \in [1..N -> Int]
           /\ entries \in Nat
<1>1. Token \subseteq Int /\ QueryToken \subseteq Int
  BY FindAssumption
<1>2. \A S \in SUBSET Int : \A f : f \in [1..N -> S] => f \in [1..N -> Int]
  OBVIOUS
<1>3. key \in [1..N -> QueryToken] /\ keyvals \in [0..(entries-1) -> [1..N -> Token]]
  BY DEF TypeOK
<1>4. key \in [1..N -> Int]
  BY <1>1, <1>2, <1>3
<1>5. \A e \in 0..(entries-1) : keyvals[e] \in [1..N -> Int]
  BY <1>1, <1>2, <1>3
<1>6. entries \in Nat
  BY FindAssumption DEF TypeOK
<1>7. QED
  BY <1>4, <1>5, <1>6

-----------------------------------------------------------------------------

\* A search begins within the invariant.
LEMMA InitIInv == Init => IInv
<1> SUFFICES ASSUME Init PROVE IInv
  OBVIOUS
<1> USE FindAssumption DEF Init
<1>1. TypeOK
  BY DEF TypeOK
<1>2. Sorted /\ WindowInv /\ ProbeInv /\ ResultInv
  BY DEF WindowInv, ProbeInv, ResultInv
<1>3. BoundsInv /\ InsideInv
  BY <1>1, KeysAreTuples DEF BoundsInv, InsideInv
<1>4. QED
  BY <1>1, <1>2, <1>3 DEF IInv

\* Left of the probe: an entry from the probe on cannot equal the key.
LEMMA GoLeftIInv == IInv /\ GoLeft => IInv'
<1> SUFFICES ASSUME IInv, GoLeft PROVE IInv'
  OBVIOUS
<1> USE FindAssumption
<1>1. /\ entries \in Nat /\ mn \in Nat /\ mx \in Int /\ mp \in Nat /\ i \in 1..N
      /\ entries > 0 /\ mn < mp /\ mp <= mx /\ mx <= entries - 1
  BY DEF IInv, TypeOK, GoLeft, WindowInv, ProbeInv
<1>2. /\ entries' = entries /\ keyvals' = keyvals /\ key' = key /\ mn' = mn
      /\ mx' = mp - 1 /\ pc' = "while" /\ exact' = exact /\ mp' = mp /\ i' = i
      /\ ret' = ret /\ pc = "compare"
  BY DEF GoLeft, args
<1>3. /\ key \in [1..N -> Int]
      /\ \A e \in 0..(entries-1) : keyvals[e] \in [1..N -> Int]
  BY KeysAreTuples DEF IInv
<1>4. Earlier(key, keyvals[mp])
  BY DEF Earlier, GoLeft, IInv, ProbeInv, TypeOK
<1>5. \A e \in mp..(entries-1) : Earlier(key, keyvals[e])
  <2> SUFFICES ASSUME NEW e \in mp..(entries-1) PROVE Earlier(key, keyvals[e])
    OBVIOUS
  <2>1. CASE e = mp
    BY <2>1, <1>4
  <2>2. CASE e > mp
    <3>1. PICK j \in 1..N : key[j] < keyvals[mp][j]
                             /\ \A h \in 1..(j-1) : key[h] = keyvals[mp][h]
      BY <1>4 DEF Earlier
    <3>2. PICK g \in 1..N : keyvals[mp][g] < keyvals[e][g]
                             /\ \A h \in 1..(g-1) : keyvals[mp][h] = keyvals[e][h]
      <4>1. Earlier(keyvals[mp], keyvals[e])
        BY <1>1, <2>2 DEF IInv, Sorted
      <4>2. QED
        BY <4>1 DEF Earlier
    <3>3. keyvals[mp] \in [1..N -> Int] /\ keyvals[e] \in [1..N -> Int]
      BY <1>1, <1>3
    <3>4. CASE j < g
      <4>0. keyvals[mp][j] = keyvals[e][j]
        BY <3>2, <3>4
      <4>1. key[j] < keyvals[e][j] /\ \A h \in 1..(j-1) : key[h] = keyvals[e][h]
        BY <3>1, <3>2, <3>4, <4>0
      <4>2. QED
        BY <4>1 DEF Earlier
    <3>5. CASE g <= j
      <4>0. key[g] < keyvals[e][g]
        <5>1. key[g] <= keyvals[mp][g]
          <6>1. key[g] \in Int
            BY <1>3
          <6>2. key[g] < keyvals[mp][g] \/ key[g] = keyvals[mp][g]
            BY <3>1, <3>5
          <6>3. QED
            BY <6>1, <6>2, <3>3
        <5>2. QED
          BY <5>1, <3>2, <3>3, <1>3
      <4>1. key[g] < keyvals[e][g] /\ \A h \in 1..(g-1) : key[h] = keyvals[e][h]
        BY <3>1, <3>2, <3>5, <4>0
      <4>2. QED
        BY <4>1 DEF Earlier
    <3>6. QED
      BY <3>4, <3>5
  <2>3. QED
    BY <2>1, <2>2, <1>1
<1>6. TypeOK'
  BY <1>1, <1>2 DEF IInv, TypeOK
<1>7. Sorted' /\ WindowInv' /\ ProbeInv' /\ ResultInv'
  BY <1>1, <1>2 DEF IInv, Sorted, WindowInv, ProbeInv, ResultInv, Earlier
<1>8. BoundsInv'
  BY <1>1, <1>2, <1>5 DEF IInv, BoundsInv, Earlier
<1>9. InsideInv'
  <2> SUFFICES ASSUME NEW e \in 0..(entries-1), keyvals[e] = key
               PROVE  mn <= e /\ e <= mp - 1
    BY <1>2 DEF InsideInv
  <2>1. ~Earlier(key, keyvals[e])
    BY <1>3, EarlierIrreflexive
  <2>2. ~(e \in mp..(entries-1))
    BY <1>5, <2>1
  <2>3. mn <= e
    BY DEF IInv, InsideInv
  <2>4. QED
    BY <1>1, <2>2, <2>3
<1>10. QED
  BY <1>6, <1>7, <1>8, <1>9 DEF IInv

\* Right of the probe: the probed key is not later than the argument, so an
\* entry left of the probe cannot equal the argument.
LEMMA GoRightIInv == IInv /\ GoRight => IInv'
<1> SUFFICES ASSUME IInv, GoRight PROVE IInv'
  OBVIOUS
<1> USE FindAssumption
<1>1. /\ entries \in Nat /\ mn \in Nat /\ mx \in Int /\ mp \in Nat /\ i \in 1..N
      /\ entries > 0 /\ mn < mp /\ mp <= mx /\ mx <= entries - 1
  BY DEF IInv, TypeOK, GoRight, WindowInv, ProbeInv
<1>2. /\ entries' = entries /\ keyvals' = keyvals /\ key' = key /\ mn' = mp
      /\ mx' = mx /\ pc' = "while" /\ exact' = exact /\ mp' = mp /\ i' = i
      /\ ret' = ret /\ pc = "compare"
  BY DEF GoRight, args
<1>3. /\ key \in [1..N -> Int]
      /\ \A e \in 0..(entries-1) : keyvals[e] \in [1..N -> Int]
      /\ keyvals[mp] \in [1..N -> Int]
  BY <1>1, KeysAreTuples DEF IInv
<1>4. keyvals[mp] = key \/ Earlier(keyvals[mp], key)
  <2>1. \A h \in 1..(i-1) : key[h] = keyvals[mp][h]
    BY DEF IInv, ProbeInv, GoRight
  <2>2. CASE key[i] > keyvals[mp][i]
    BY <1>1, <1>3, <2>1, <2>2 DEF Earlier
  <2>3. CASE key[i] = keyvals[mp][i] /\ i = N
    <3>1. \A h \in 1..N : key[h] = keyvals[mp][h]
      BY <2>1, <2>3
    <3>2. QED
      BY <3>1, <1>3
  <2>4. QED
    BY <2>2, <2>3 DEF GoRight
<1>5. ~Earlier(key, keyvals[mp])
  BY <1>3, <1>4, EarlierIrreflexive, EarlierAsymmetric
<1>6. \A e \in 0..(mp-1) : keyvals[e] # key
  <2> SUFFICES ASSUME NEW e \in 0..(mp-1), keyvals[e] = key PROVE FALSE
    OBVIOUS
  <2>1. Earlier(key, keyvals[mp])
    BY <1>1 DEF IInv, Sorted
  <2>2. QED
    BY <2>1, <1>5
<1>7. TypeOK'
  BY <1>1, <1>2 DEF IInv, TypeOK
<1>8. Sorted' /\ WindowInv' /\ ProbeInv' /\ ResultInv'
  BY <1>1, <1>2 DEF IInv, Sorted, WindowInv, ProbeInv, ResultInv, Earlier
<1>9. BoundsInv'
  BY <1>1, <1>2, <1>5 DEF IInv, BoundsInv, Earlier
<1>10. InsideInv'
  BY <1>1, <1>2, <1>6 DEF IInv, InsideInv
<1>11. QED
  BY <1>7, <1>8, <1>9, <1>10 DEF IInv

\* Every step of a search keeps the invariant.
LEMMA NextIInv == IInv /\ [Next]_vars => IInv'
<1> SUFFICES ASSUME IInv, [Next]_vars PROVE IInv'
  OBVIOUS
<1> USE FindAssumption
<1>1. CASE Probe
  <2>1. TypeOK'
    BY <1>1 DEF IInv, TypeOK, Probe, args, WindowInv
  <2>2. Sorted' /\ BoundsInv' /\ InsideInv' /\ ResultInv'
    BY <1>1 DEF IInv, Probe, args, Sorted, BoundsInv, InsideInv, ResultInv, Earlier
  <2>3. WindowInv' /\ ProbeInv'
    BY <1>1 DEF IInv, TypeOK, Probe, args, WindowInv, ProbeInv
  <2>4. QED
    BY <2>1, <2>2, <2>3 DEF IInv
<1>2. CASE WindowClosed
  <2>1. TypeOK' /\ WindowInv' /\ ProbeInv' /\ ResultInv'
    BY <1>2 DEF IInv, TypeOK, WindowClosed, args, WindowInv, ProbeInv, ResultInv
  <2>2. Sorted' /\ BoundsInv' /\ InsideInv'
    BY <1>2 DEF IInv, WindowClosed, args, Sorted, BoundsInv, InsideInv, Earlier
  <2>3. QED
    BY <2>1, <2>2 DEF IInv
<1>3. CASE GoLeft
  BY <1>3, GoLeftIInv
<1>4. CASE GoRight
  BY <1>4, GoRightIInv
<1>5. CASE NextToken
  <2>1. TypeOK' /\ WindowInv' /\ ResultInv'
    BY <1>5 DEF IInv, TypeOK, NextToken, args, WindowInv, ResultInv
  <2>2. Sorted' /\ BoundsInv' /\ InsideInv'
    BY <1>5 DEF IInv, NextToken, args, Sorted, BoundsInv, InsideInv, Earlier
  <2>3. ProbeInv'
    BY <1>5 DEF IInv, TypeOK, NextToken, args, ProbeInv
  <2>4. QED
    BY <2>1, <2>2, <2>3 DEF IInv
<1>6. CASE Return
  <2>1. TypeOK' /\ WindowInv' /\ ProbeInv' /\ ResultInv'
    BY <1>6 DEF IInv, TypeOK, Return, args, WindowInv, ProbeInv, ResultInv
  <2>2. Sorted' /\ BoundsInv' /\ InsideInv'
    BY <1>6 DEF IInv, Return, args, Sorted, BoundsInv, InsideInv, Earlier
  <2>3. QED
    BY <2>1, <2>2 DEF IInv
<1>7. CASE UNCHANGED vars
  BY <1>7 DEF IInv, TypeOK, vars, Sorted, WindowInv, BoundsInv, InsideInv,
              ProbeInv, ResultInv, Earlier
<1>8. QED
  BY <1>1, <1>2, <1>3, <1>4, <1>5, <1>6, <1>7 DEF Next

\* The invariant holds in every behaviour.
LEMMA InvariantHolds == Spec => []IInv
<1>1. QED
  BY InitIInv, NextIInv, PTL DEF Spec

-----------------------------------------------------------------------------

\* Type correctness.
THEOREM FindTypeOK == Spec => []TypeOK
<1>1. IInv => TypeOK
  BY DEF IInv
<1>2. QED
  BY <1>1, InvariantHolds, PTL

\* sfbti.c: assert( mn < mx ) never fails on a node that has an entry.
THEOREM FindAssertHolds == Spec => []AssertHolds
<1>1. IInv => AssertHolds
  BY DEF IInv, WindowInv, AssertHolds
<1>2. QED
  BY <1>1, InvariantHolds, PTL

\* The exact search finds the key when some entry holds it and reports -1
\* otherwise, for every sorted node.
THEOREM FindExactSearch == Spec => []ExactSearch
<1>1. IInv => ExactSearch
  <2> SUFFICES ASSUME IInv, pc = "return", exact
               PROVE  IF \E e \in 0..(entries-1) : keyvals[e] = key
                      THEN ret \in 0..(entries-1) /\ keyvals[ret] = key
                      ELSE ret = -1
    BY DEF ExactSearch
  <2>1. /\ mn = mx /\ mn \in 0..(entries-1) /\ entries \in Nat
    BY FindAssumption DEF IInv, ResultInv, WindowInv, TypeOK
  <2>2. ret = IF \E j \in 1..N : keyvals[mn][j] # key[j] THEN -1 ELSE mn
    BY DEF IInv, ResultInv
  <2>3. keyvals[mn] \in [1..N -> Int] /\ key \in [1..N -> Int]
    BY <2>1, KeysAreTuples DEF IInv
  <2>4. (\E j \in 1..N : keyvals[mn][j] # key[j]) <=> keyvals[mn] # key
    <3>1. ASSUME NEW a \in [1..N -> Int], NEW b \in [1..N -> Int]
          PROVE  (\E j \in 1..N : a[j] # b[j]) <=> a # b
      <4>1. a = [j \in 1..N |-> a[j]] /\ b = [j \in 1..N |-> b[j]]
        OBVIOUS
      <4>2. (\A j \in 1..N : a[j] = b[j]) => a = b
        BY <4>1, Zenon
      <4>3. QED
        BY <4>2
    <3>2. QED
      BY <2>3, <3>1
  <2>5. \A e \in 0..(entries-1) : keyvals[e] = key => e = mn
    BY <2>1 DEF IInv, InsideInv
  <2>6. QED
    BY <2>1, <2>2, <2>4, <2>5
<1>2. QED
  BY <1>1, InvariantHolds, PTL

\* The inexact search answers the child whose key range covers the key.
THEOREM FindChildSearch == Spec => []ChildSearch
<1>1. IInv => ChildSearch
  <2> SUFFICES ASSUME IInv, pc = "return", ~exact PROVE ChildSearch
    BY DEF ChildSearch
  <2>1. ret = mn /\ mn = mx /\ mn \in 0..(entries-1) /\ entries > 0
    BY FindAssumption DEF IInv, ResultInv, WindowInv, TypeOK
  <2>2. QED
    BY <2>1 DEF IInv, BoundsInv, ChildSearch
<1>2. QED
  BY <1>1, InvariantHolds, PTL

\* Whatever node it is given, the search of either kind answers the right index.
THEOREM FindSearchResult == Spec => []SearchResult
<1>1. ExactSearch /\ ChildSearch /\ AssertHolds => SearchResult
  BY DEF SearchResult
<1>2. QED
  BY <1>1, FindExactSearch, FindChildSearch, FindAssertHolds, PTL

\* Every comparison strictly narrows the window: the loop cannot run forever.
THEOREM FindWindowShrinks == Spec => WindowShrinks
<1> DEFINE Shrinks == pc = "compare" /\ pc' = "while" =>
                        /\ mn <= mn'
                        /\ mx' <= mx
                        /\ mx' - mn' < mx - mn
                        /\ mp \in 0..(entries-1)
<1>1. IInv /\ [Next]_vars => [Shrinks]_vars
  <2> SUFFICES ASSUME IInv, Next, pc = "compare", pc' = "while"
               PROVE  Shrinks
    OBVIOUS
  <2>1. /\ entries \in Nat /\ mn \in Nat /\ mx \in Int /\ mp \in Nat
        /\ mn < mp /\ mp <= mx /\ mx <= entries - 1
    BY FindAssumption DEF IInv, TypeOK, WindowInv, ProbeInv
  <2>2. GoLeft \/ GoRight
    BY DEF Next, Probe, WindowClosed, NextToken, Return
  <2>3. QED
    BY <2>1, <2>2 DEF GoLeft, GoRight
<1>2. QED
  BY <1>1, InvariantHolds, PTL DEF Spec, WindowShrinks

=============================================================================
