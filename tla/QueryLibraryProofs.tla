-------------------------- MODULE QueryLibraryProofs --------------------------
(***************************************************************************)
(* Theorems about the query library: the layout of a mapped node, the scan *)
(* of an archive, and what a library that says it is ready has, answers    *)
(* and can be made to misuse.                                              *)
(*                                                                         *)
(* ScanInv is the invariant of the scan: how far it is in the layout of    *)
(* the archive and that the bindings are those of the members behind it.   *)
(* LibInv is the one of lib1tquery_init and of the library it leaves: what *)
(* it has got in each phase, which trees are opened, and that the table of *)
(* random reads leads to them and is no longer than their leaves allow.    *)
(***************************************************************************)
EXTENDS QueryLibrary, Sums

-----------------------------------------------------------------------------
(* The layout of a node                                                     *)

\* Two products with the same positive factor differ in order as the others do.
LEMMA ProductOrder ==
    ASSUME NEW a \in Nat \ {0}, NEW x \in Nat, NEW y \in Nat, x < y
    PROVE  a * x < a * y
  <1>1. a * y = a * x + a * (y - x)
    OBVIOUS
  <1>2. y - x \in Nat \ {0}
    OBVIOUS
  <1>3. a * (y - x) > 0
    BY <1>2
  <1> QED BY <1>1, <1>3

\* Equal products of one positive number have equal factors.
LEMMA ProductCancels ==
    ASSUME NEW a \in Nat \ {0}, NEW x \in Nat, NEW y \in Nat, a * x = a * y
    PROVE  x = y
  <1>1. CASE x < y
    BY <1>1, ProductOrder
  <1>2. CASE y < x
    BY <1>2, ProductOrder
  <1> QED BY <1>1, <1>2

\* Entries of a file do not overlap: the suffix of an entry begins where its key ends
\* and ends where the next key, or the flags, begin.
THEOREM EntriesAdjoin ==
    ASSUME NEW n \in Nat, NEW i \in Places
    PROVE  /\ FileSuffix(n, i) = FileKey(n, i) + TokenSize * n
           /\ FileKey(n, i + 1) = FileSuffix(n, i) + SuffixSize
           /\ FileFlags(n) = FileKey(n, KeysPerRecord)
  <1> DEFINE t == TokenSize * n
  <1>1. t \in Int /\ i \in Int /\ SuffixSize \in Int
    BY LayoutAssumption DEF Places
  <1> HIDE DEF t
  <1>2. (i + 1) * t + i * SuffixSize = i * (t + SuffixSize) + t
    BY <1>1
  <1>3. (i + 1) * (t + SuffixSize) = (i + 1) * t + i * SuffixSize + SuffixSize
    BY <1>1
  <1> QED BY <1>2, <1>3 DEF t, FileKey, FileSuffix, FileFlags

\* A node of the file has the layout of the struct exactly when the file's n-grams
\* have NGRAM_SIZE tokens: lookups by the mapping are right for that n only, whatever
\* the sizes are.
THEOREM MappedLayout ==
    ASSUME NEW n \in Nat
    PROVE  SameLayout(n) <=> n = NgramSize
  <1> USE LayoutAssumption
  <1>1. ASSUME n = NgramSize PROVE SameLayout(n)
    <2> SUFFICES ASSUME NEW i \in Places
                 PROVE  FileSuffix(NgramSize, i) = StructSuffix(i)
      BY <1>1 DEF SameLayout, FileKey, StructKey, FileFlags, StructFlags
    <2>1. FileSuffix(NgramSize, i) = FileKey(NgramSize, i) + TokenSize * NgramSize
      BY EntriesAdjoin
    <2> QED BY <2>1 DEF FileKey, StructSuffix
  <1>2. ASSUME SameLayout(n) PROVE n = NgramSize
    <2>1. KeysPerRecord * (TokenSize * n + SuffixSize)
            = KeysPerRecord * (TokenSize * NgramSize + SuffixSize)
      BY <1>2 DEF SameLayout, FileFlags, StructFlags
    <2>2. TokenSize * n \in Nat /\ TokenSize * NgramSize \in Nat
      OBVIOUS
    <2>3. TokenSize * n + SuffixSize = TokenSize * NgramSize + SuffixSize
      BY <2>1, <2>2, ProductCancels
    <2>4. TokenSize * n = TokenSize * NgramSize
      BY <2>2, <2>3
    <2> QED BY <2>4, ProductCancels
  <1> QED BY <1>1, <1>2

-----------------------------------------------------------------------------
(* Sequences put one behind the other                                       *)

\* One step of the flattening, on a function from indices to what is before them.
JoinOf(seqs, f, i) == IF i = 1 THEN seqs[i] ELSE f[i - 1] \o seqs[i]

IsJoin(seqs, n, f) == f = [i \in 1..n |-> JoinOf(seqs, f, i)]

\* Two sequences one behind the other.
LEMMA ConcatAt ==
    ASSUME NEW S, NEW a \in Seq(S), NEW b \in Seq(S)
    PROVE  /\ a \o b \in Seq(S)
           /\ Len(a) \in Nat /\ Len(b) \in Nat /\ Len(a \o b) = Len(a) + Len(b)
           /\ \A k \in 1..Len(a) : (a \o b)[k] = a[k]
           /\ \A k \in 1..Len(b) : (a \o b)[Len(a) + k] = b[k]
  OBVIOUS

\* Such a function exists for every number of sequences.
LEMMA JoinExists ==
    ASSUME NEW S, NEW n \in Nat, NEW seqs, \A i \in 1..n : seqs[i] \in Seq(S)
    PROVE  \E f \in [1..n -> Seq(S)] : IsJoin(seqs, n, f)
<1> DEFINE Good(m) == \E f \in [1..m -> Seq(S)] : \A i \in 1..m : f[i] = JoinOf(seqs, f, i)
           Bad == {m \in 0..n : ~Good(m)}
<1>1. SUFFICES Good(n)
  <2>1. PICK f \in [1..n -> Seq(S)] : \A i \in 1..n : f[i] = JoinOf(seqs, f, i)
    BY <1>1
  <2>2. f = [i \in 1..n |-> JoinOf(seqs, f, i)]
    BY <2>1
  <2> QED BY <2>2 DEF IsJoin
<1>2. SUFFICES ASSUME Bad # {} PROVE FALSE
  <2> HIDE DEF Good
  <2> QED BY <1>2
<1>3. PICK m \in Bad : \A k \in Bad : m <= k
  <2>1. Bad \in SUBSET Nat
    OBVIOUS
  <2> HIDE DEF Bad
  <2> QED BY <1>2, <2>1, LeastElement
<1>4. m \in 0..n /\ ~Good(m)
  <2> HIDE DEF Good
  <2> QED OBVIOUS
<1>5. Good(0)
  <2> DEFINE g == [i \in 1..0 |-> <<>>]
  <2>1. g \in [1..0 -> Seq(S)] /\ \A i \in 1..0 : g[i] = JoinOf(seqs, g, i)
    OBVIOUS
  <2> HIDE DEF g
  <2> QED BY <2>1
<1>6. m # 0
  <2> HIDE DEF Good
  <2> QED BY <1>4, <1>5
<1>7. Good(m - 1)
  <2>1. m - 1 \in 0..n /\ ~(m <= m - 1)
    BY <1>4, <1>6
  <2> HIDE DEF Good
  <2> QED BY <1>3, <2>1
<1>8. PICK h \in [1..(m-1) -> Seq(S)] : \A i \in 1..(m-1) : h[i] = JoinOf(seqs, h, i)
  BY <1>7
<1> DEFINE g == [i \in 1..m |-> JoinOf(seqs, h, i)]
<1>9. \A i \in 1..(m-1) : g[i] = h[i]
  BY <1>4, <1>8
<1>10. g \in [1..m -> Seq(S)]
  <2>1. ASSUME NEW i \in 1..m PROVE JoinOf(seqs, h, i) \in Seq(S)
    <3>1. seqs[i] \in Seq(S) /\ (i # 1 => i - 1 \in 1..(m-1))
      BY <1>4
    <3>2. i # 1 => h[i - 1] \in Seq(S)
      BY <3>1, <1>8
    <3> QED BY <3>1, <3>2 DEF JoinOf
  <2> QED BY <2>1
<1>11. \A i \in 1..m : g[i] = JoinOf(seqs, g, i)
  <2> SUFFICES ASSUME NEW i \in 1..m PROVE g[i] = JoinOf(seqs, g, i)
    OBVIOUS
  <2>1. g[i] = JoinOf(seqs, h, i)
    OBVIOUS
  <2>2. i # 1 => i - 1 \in 1..(m-1)
    BY <1>4
  <2>3. i # 1 => g[i - 1] = h[i - 1]
    <3> HIDE DEF g
    <3> QED BY <1>9, <2>2
  <2> HIDE DEF g
  <2> QED BY <2>1, <2>3 DEF JoinOf
<1>12. Good(m)
  <2> HIDE DEF g
  <2> QED BY <1>10, <1>11
<1> HIDE DEF Good
<1> QED BY <1>4, <1>12

\* A function that is given by its values at the indices has them.
LEMMA JoinValue ==
    ASSUME NEW n, NEW seqs, NEW f, IsJoin(seqs, n, f), NEW i \in 1..n
    PROVE  f[i] = JoinOf(seqs, f, i)
<1> DEFINE r == [j \in 1..n |-> JoinOf(seqs, f, j)]
<1>1. r[i] = JoinOf(seqs, f, i)
  OBVIOUS
<1>2. f = r
  BY DEF IsJoin
<1> HIDE DEF r
<1> QED BY <1>1, <1>2

\* There is one such function.
LEMMA JoinUnique ==
    ASSUME NEW n \in Nat, NEW seqs,
           NEW f, IsJoin(seqs, n, f),
           NEW g, IsJoin(seqs, n, g)
    PROVE  f = g
<1> DEFINE Bad == {i \in 1..n : f[i] # g[i]}
<1>1. CASE Bad = {}
  <2>1. \A i \in 1..n : f[i] = g[i]
    BY <1>1
  <2> DEFINE rf == [i \in 1..n |-> JoinOf(seqs, f, i)]
             rg == [i \in 1..n |-> JoinOf(seqs, g, i)]
  <2>2. \A i \in 1..n : rf[i] = rg[i]
    BY <2>1, JoinValue
  <2>3. rf = rg
    BY <2>2
  <2>4. f = rf /\ g = rg
    BY DEF IsJoin
  <2> HIDE DEF rf, rg
  <2> QED BY <2>3, <2>4
<1>2. CASE Bad # {}
  <2>1. PICK m \in Bad : \A k \in Bad : m <= k
    <3>1. Bad \in SUBSET Nat
      OBVIOUS
    <3> HIDE DEF Bad
    <3> QED BY <1>2, <3>1, LeastElement
  <2>2. m \in 1..n /\ f[m] # g[m]
    OBVIOUS
  <2>3. f[m] = JoinOf(seqs, f, m) /\ g[m] = JoinOf(seqs, g, m)
    BY <2>2, JoinValue
  <2>4. m # 1
    BY <2>2, <2>3 DEF JoinOf
  <2>5. m - 1 \in 1..n /\ ~(m <= m - 1)
    BY <2>2, <2>4
  <2>6. f[m - 1] = g[m - 1]
    BY <2>1, <2>5
  <2> HIDE DEF Bad
  <2> QED BY <2>2, <2>3, <2>4, <2>6 DEF JoinOf
<1> QED BY <1>1, <1>2

\* The function that flattening chooses.
LEMMA FlattenIs ==
    ASSUME NEW S, NEW seqs \in Seq(Seq(S)), Len(seqs) # 0
    PROVE  \E g \in [1..Len(seqs) -> Seq(S)] :
             /\ FlattenSeq(seqs) = g[Len(seqs)]
             /\ \A i \in 1..Len(seqs) : g[i] = JoinOf(seqs, g, i)
<1>0. Len(seqs) \in Nat /\ \A i \in 1..Len(seqs) : seqs[i] \in Seq(S)
  OBVIOUS
<1>1. PICK n \in Nat : n = Len(seqs)
  BY <1>0
<1>2. PICK g \in [1..n -> Seq(S)] : IsJoin(seqs, n, g)
  BY <1>0, <1>1, JoinExists
<1> DEFINE F == CHOOSE f : f = [i \in 1..n |-> JoinOf(seqs, f, i)]
<1>3. FlattenSeq(seqs) = F[n]
  BY <1>1 DEF FlattenSeq, JoinOf
<1>4. IsJoin(seqs, n, F)
  BY <1>2 DEF IsJoin
<1> HIDE DEF F
<1>5. F = g
  BY <1>2, <1>4, JoinUnique
<1>6. \A i \in 1..n : g[i] = JoinOf(seqs, g, i)
  BY <1>2, JoinValue
<1> QED BY <1>1, <1>3, <1>5, <1>6

\* Sequences one behind the other, and where each of them starts.
Joined(seqs, s, starts) ==
    /\ starts \in [1..(Len(seqs) + 1) -> Nat]
    /\ starts[1] = 0
    /\ Len(s) = starts[Len(seqs) + 1]
    /\ \A i \in 1..Len(seqs) :
         /\ starts[i + 1] = starts[i] + Len(seqs[i])
         /\ \A k \in 1..Len(seqs[i]) : s[starts[i] + k] = seqs[i][k]

\* What flattening gives.
LEMMA FlattenJoins ==
    ASSUME NEW S, NEW seqs \in Seq(Seq(S))
    PROVE  /\ FlattenSeq(seqs) \in Seq(S)
           /\ \E starts : Joined(seqs, FlattenSeq(seqs), starts)
<1>0. Len(seqs) \in Nat /\ \A i \in 1..Len(seqs) : seqs[i] \in Seq(S) /\ Len(seqs[i]) \in Nat
  OBVIOUS
<1>1. CASE Len(seqs) = 0
  <2>1. FlattenSeq(seqs) = seqs /\ seqs = <<>>
    BY <1>1 DEF FlattenSeq
  <2> DEFINE st == [i \in 1..1 |-> 0]
  <2>2. Joined(seqs, seqs, st)
    BY <2>1 DEF Joined
  <2> QED BY <2>1, <2>2
<1>2. CASE Len(seqs) # 0
  <2>1. PICK n \in Nat : n = Len(seqs)
    BY <1>0
  <2>2. n > 0
    BY <1>2, <2>1
  <2>3. PICK g \in [1..n -> Seq(S)] :
             /\ FlattenSeq(seqs) = g[n]
             /\ \A i \in 1..n : g[i] = JoinOf(seqs, g, i)
    BY <1>2, <2>1, FlattenIs
  <2>4. \A i \in 1..n : g[i] \in Seq(S) /\ Len(g[i]) \in Nat
    BY <2>3
  <2>5. \A i \in 1..n : seqs[i] \in Seq(S) /\ Len(seqs[i]) \in Nat
    BY <1>0, <2>1
  <2> DEFINE starts == [i \in 1..(n + 1) |-> IF i = 1 THEN 0 ELSE Len(g[i - 1])]
  <2>6. starts \in [1..(n + 1) -> Nat] /\ starts[1] = 0
    <3>1. \A i \in 1..(n + 1) : i = 1 \/ i - 1 \in 1..n
      BY <2>2
    <3> QED BY <2>2, <2>4, <3>1
  <2>7. \A i \in 1..n : starts[i + 1] = Len(g[i])
    <3>1. \A i \in 1..n : i + 1 \in 1..(n + 1) /\ i + 1 # 1 /\ (i + 1) - 1 = i
      BY <2>2
    <3> QED BY <3>1
  <2> HIDE DEF starts
  \* The last piece of a beginning.
  <2>8. ASSUME NEW i \in 1..n
        PROVE  /\ starts[i + 1] = starts[i] + Len(seqs[i])
               /\ \A k \in 1..Len(seqs[i]) : g[i][starts[i] + k] = seqs[i][k]
    <3>1. CASE i = 1
      <4>1. g[i] = seqs[i] /\ starts[i] = 0 /\ starts[i + 1] = Len(seqs[i])
        BY <2>3, <2>6, <2>7, <3>1 DEF JoinOf
      <4>2. \A k \in 1..Len(seqs[i]) : 0 + k = k
        BY <2>5
      <4> QED BY <2>5, <4>1, <4>2
    <3>2. CASE i # 1
      <4>1. i - 1 \in 1..n /\ (i - 1) + 1 = i
        BY <3>2
      <4>2. g[i] = g[i - 1] \o seqs[i]
        BY <2>3, <3>2 DEF JoinOf
      <4>3. starts[i] = Len(g[i - 1])
        BY <2>7, <4>1
      <4>4. g[i - 1] \in Seq(S) /\ seqs[i] \in Seq(S)
        BY <2>4, <2>5, <4>1
      <4> DEFINE a == g[i - 1]
                 b == seqs[i]
      <4>5. a \in Seq(S) /\ b \in Seq(S) /\ g[i] = a \o b /\ starts[i] = Len(a)
        BY <4>2, <4>3, <4>4
      <4> HIDE DEF a, b
      <4>6. Len(g[i]) = Len(a) + Len(b) /\ \A k \in 1..Len(b) : g[i][Len(a) + k] = b[k]
        BY <4>5, ConcatAt
      <4>7. starts[i + 1] = Len(a) + Len(b)
        BY <2>7, <4>6
      <4> QED BY <4>5, <4>6, <4>7 DEF b
    <3> QED BY <3>1, <3>2
  \* What is in a beginning stays where it is.
  <2>9. ASSUME NEW i \in 1..n
        PROVE  \A j \in i..n : Len(g[i]) <= Len(g[j]) /\ \A k \in 1..Len(g[i]) : g[j][k] = g[i][k]
    <3> DEFINE Kept(j) == Len(g[i]) <= Len(g[j]) /\ \A k \in 1..Len(g[i]) : g[j][k] = g[i][k]
               Bad == {j \in i..n : ~Kept(j)}
    <3>1. SUFFICES ASSUME Bad # {} PROVE FALSE
      OBVIOUS
    <3>2. PICK m \in Bad : \A j \in Bad : m <= j
      <4>1. Bad \in SUBSET Nat
        OBVIOUS
      <4> HIDE DEF Bad
      <4> QED BY <3>1, <4>1, LeastElement
    <3>3. m \in i..n /\ ~Kept(m)
      OBVIOUS
    <3>4. m # i
      BY <2>4, <3>3
    <3>5. m - 1 \in i..n /\ ~(m <= m - 1) /\ m \in 1..n /\ m - 1 \in 1..n /\ m # 1
      BY <3>3, <3>4
    <3>6. Kept(m - 1)
      <4> HIDE DEF Kept
      <4> QED BY <3>2, <3>5
    <3> HIDE DEF Bad
    <3>7. g[m] = g[m - 1] \o seqs[m]
      BY <2>3, <3>5 DEF JoinOf
    <3>8. g[m - 1] \in Seq(S) /\ seqs[m] \in Seq(S) /\ g[i] \in Seq(S)
      BY <2>4, <2>5, <3>5
    <3>9. Len(g[m - 1]) <= Len(g[m]) /\ \A k \in 1..Len(g[m - 1]) : g[m][k] = g[m - 1][k]
      <4> DEFINE a == g[m - 1]
                 b == seqs[m]
      <4>1. a \in Seq(S) /\ b \in Seq(S) /\ g[m] = a \o b
        BY <3>7, <3>8
      <4> HIDE DEF a, b
      <4>2. Len(a) <= Len(g[m]) /\ \A k \in 1..Len(a) : g[m][k] = a[k]
        BY <4>1, ConcatAt
      <4> QED BY <4>2 DEF a
    <3>10. Kept(m)
      BY <3>6, <3>8, <3>9
    <3> QED BY <3>3, <3>10
  <2>10. ASSUME NEW i \in 1..n, NEW k \in 1..Len(seqs[i])
         PROVE  g[n][starts[i] + k] = seqs[i][k]
    <3>1. n \in i..n
      OBVIOUS
    <3>2. starts[i] \in Nat /\ Len(seqs[i]) \in Nat
      BY <2>5, <2>6
    <3>4. Len(g[i]) = starts[i] + Len(seqs[i])
      BY <2>7, <2>8
    <3>3. starts[i] + k \in 1..Len(g[i])
      BY <3>2, <3>4
    <3> QED BY <2>8, <2>9, <3>1, <3>3
  <2>11. Joined(seqs, FlattenSeq(seqs), starts)
    BY <2>1, <2>2, <2>3, <2>6, <2>7, <2>8, <2>10 DEF Joined
  <2> QED BY <2>2, <2>3, <2>11
<1> QED BY <1>1, <1>2

\* A piece starts not before one that is before it.
LEMMA StartsAscend ==
    ASSUME NEW S, NEW seqs \in Seq(Seq(S)), NEW s, NEW starts, Joined(seqs, s, starts),
           NEW j \in 1..(Len(seqs) + 1), NEW i \in 1..j
    PROVE  starts[i] <= starts[j]
<1> DEFINE n == Len(seqs)
           Bad == {m \in i..(n + 1) : ~(starts[i] <= starts[m])}
<1>0. n \in Nat /\ j \in 1..(n + 1) /\ i \in 1..j
      /\ \A m \in 1..n : Len(seqs[m]) \in Nat
  OBVIOUS
<1>1. starts \in [1..(n + 1) -> Nat] /\ \A m \in 1..n : starts[m + 1] = starts[m] + Len(seqs[m])
  BY DEF Joined
<1> HIDE DEF n
<1>2. SUFFICES ASSUME Bad # {} PROVE FALSE
  BY <1>0
<1>3. PICK m \in Bad : \A k \in Bad : m <= k
  <2>1. Bad \in SUBSET Nat
    BY <1>0
  <2> HIDE DEF Bad
  <2> QED BY <1>2, <2>1, LeastElement
<1>4. m \in i..(n + 1) /\ ~(starts[i] <= starts[m])
  OBVIOUS
<1>5. m # i
  BY <1>0, <1>1, <1>4
<1>6. m - 1 \in i..(n + 1) /\ m - 1 \in 1..n /\ ~(m <= m - 1) /\ (m - 1) + 1 = m
  BY <1>0, <1>4, <1>5
<1>7. starts[i] <= starts[m - 1]
  BY <1>3, <1>6
<1>8. starts[i] \in Nat /\ starts[m - 1] \in Nat /\ starts[m] = starts[m - 1] + Len(seqs[m - 1])
  BY <1>0, <1>1, <1>6
<1> HIDE DEF Bad
<1> QED BY <1>0, <1>4, <1>6, <1>7, <1>8

-----------------------------------------------------------------------------
(* The scan of an archive                                                   *)

\* What an archive can be made of.
Proper(its) ==
    /\ Len(its) \in Nat
    /\ \A i \in 1..Len(its) :
         its[i].kind = "zero" \/ (its[i].kind = "member" /\ its[i].size \in Nat)

Blocks == [kind : {"zero", "header", "data"}, item : Nat, part : Nat]

\* The blocks of one item.
Part(its, i) ==
    IF its[i].kind = "zero" THEN <<Block("zero", i, 0)>>
    ELSE <<Block("header", i, 0)>> \o
         [p \in 1..BlocksOf(its[i].size) |-> Block("data", i, p)]
Parts(its) == [i \in 1..Len(its) |-> Part(its, i)]

\* How many blocks are in front of item i.
StartsOf(its) == CHOOSE starts : Joined(Parts(its), Layout(its), starts)

\* How many an item has.
Extent(its, i) == IF its[i].kind = "zero" THEN 1 ELSE 1 + BlocksOf(its[i].size)

\* The number of blocks that a size takes is a number.
LEMMA BlocksNat ==
    ASSUME NEW size \in Nat
    PROVE  BlocksOf(size) \in Nat
<1>1. PICK b \in Nat \ {0} : b = BlockSize
  BY TarAssumption
<1>2. PICK m \in Nat : m = size + b - 1
  OBVIOUS
<1>3. m \div b \in Nat
  OBVIOUS
<1> QED BY <1>1, <1>2, <1>3 DEF BlocksOf

\* The blocks of an item, one by one.
LEMMA PartIs ==
    ASSUME NEW its, Proper(its), NEW i \in 1..Len(its)
    PROVE  /\ Part(its, i) \in Seq(Blocks)
           /\ Len(Part(its, i)) = Extent(its, i) /\ Extent(its, i) \in Nat \ {0}
           /\ its[i].kind = "zero" => Part(its, i)[1] = Block("zero", i, 0)
           /\ its[i].kind # "zero" =>
                /\ Part(its, i)[1] = Block("header", i, 0)
                /\ \A p \in 1..BlocksOf(its[i].size) : Part(its, i)[1 + p] = Block("data", i, p)
<1>0. i \in Nat
  BY DEF Proper
<1>1. CASE its[i].kind = "zero"
  <2>1. Block("zero", i, 0) \in Blocks
    BY <1>0 DEF Block, Blocks
  <2> QED BY <1>1, <2>1 DEF Part, Extent
<1>2. CASE its[i].kind # "zero"
  <2>1. its[i].size \in Nat
    BY <1>2 DEF Proper
  <2>2. PICK n \in Nat : n = BlocksOf(its[i].size)
    BY <2>1, BlocksNat
  <2> DEFINE a == <<Block("header", i, 0)>>
             b == [p \in 1..n |-> Block("data", i, p)]
  <2>3. a \in Seq(Blocks) /\ Len(a) = 1 /\ a[1] = Block("header", i, 0)
    BY <1>0 DEF Block, Blocks
  <2>4. b \in Seq(Blocks) /\ Len(b) = n /\ \A p \in 1..n : b[p] = Block("data", i, p)
    <3>1. \A p \in 1..n : Block("data", i, p) \in Blocks
      BY <1>0 DEF Block, Blocks
    <3> QED BY <3>1
  <2>5. Part(its, i) = a \o b
    BY <1>2, <2>2 DEF Part
  <2> HIDE DEF a, b
  <2>6. /\ Part(its, i) \in Seq(Blocks) /\ Len(Part(its, i)) = 1 + n
        /\ \A k \in 1..1 : Part(its, i)[k] = a[k]
        /\ \A k \in 1..n : Part(its, i)[1 + k] = b[k]
    <3>1. PICK c : c = a \o b
      OBVIOUS
    <3>2. /\ c \in Seq(Blocks) /\ Len(c) = Len(a) + Len(b)
          /\ \A k \in 1..Len(a) : c[k] = a[k]
          /\ \A k \in 1..Len(b) : c[Len(a) + k] = b[k]
      <4>1. a \in Seq(Blocks) /\ b \in Seq(Blocks)
        BY <2>3, <2>4
      <4>2. \A k \in 1..Len(a) : c[k] = a[k]
        BY <3>1, <4>1, ConcatAt
      <4>3. \A k \in 1..Len(b) : c[Len(a) + k] = b[k]
        BY <3>1, <4>1, ConcatAt
      <4>4. c \in Seq(Blocks) /\ Len(c) = Len(a) + Len(b)
        BY <3>1, <4>1, ConcatAt
      <4> QED BY <4>2, <4>3, <4>4
    <3> QED BY <2>3, <2>4, <2>5, <3>1, <3>2
  <2> QED BY <1>2, <2>2, <2>3, <2>4, <2>6 DEF Extent
<1> QED BY <1>1, <1>2

\* Where the blocks of every item are.
LEMMA LayoutLies ==
    ASSUME NEW its, Proper(its)
    PROVE  /\ Layout(its) \in Seq(Blocks)
           /\ StartsOf(its) \in [1..(Len(its) + 1) -> Nat]
           /\ StartsOf(its)[1] = 0
           /\ Len(Layout(its)) = StartsOf(its)[Len(its) + 1]
           /\ \A i \in 1..Len(its) :
                /\ StartsOf(its)[i + 1] = StartsOf(its)[i] + Extent(its, i)
                /\ its[i].kind = "zero" =>
                     Layout(its)[StartsOf(its)[i] + 1] = Block("zero", i, 0)
                /\ its[i].kind # "zero" =>
                     /\ Layout(its)[StartsOf(its)[i] + 1] = Block("header", i, 0)
                     /\ \A p \in 1..BlocksOf(its[i].size) :
                          Layout(its)[StartsOf(its)[i] + (1 + p)] = Block("data", i, p)
           /\ \A j \in 1..(Len(its) + 1) : \A i \in 1..j : StartsOf(its)[i] <= StartsOf(its)[j]
<1>0. PICK n \in Nat : n = Len(its)
  BY DEF Proper
<1>1. Layout(its) = FlattenSeq(Parts(its))
  BY DEF Layout, Parts, Part
<1>2. Parts(its) \in Seq(Seq(Blocks)) /\ Len(Parts(its)) = n
      /\ \A i \in 1..n : Parts(its)[i] = Part(its, i)
  <2>1. \A i \in 1..n : Part(its, i) \in Seq(Blocks)
    BY <1>0, PartIs
  <2> QED BY <1>0, <2>1 DEF Parts
<1>3. PICK lay : lay = Layout(its)
  OBVIOUS
<1>4. lay \in Seq(Blocks) /\ \E starts : Joined(Parts(its), lay, starts)
  BY <1>1, <1>2, <1>3, FlattenJoins
<1>5. PICK S : S = StartsOf(its)
  OBVIOUS
<1>6. Joined(Parts(its), lay, S)
  BY <1>3, <1>4, <1>5 DEF StartsOf
<1>7. /\ S \in [1..(n + 1) -> Nat] /\ S[1] = 0 /\ Len(lay) = S[n + 1]
      /\ \A i \in 1..n : /\ S[i + 1] = S[i] + Len(Part(its, i))
                         /\ \A k \in 1..Len(Part(its, i)) : lay[S[i] + k] = Part(its, i)[k]
  <2>1. PICK P : P = Parts(its)
    OBVIOUS
  <2>2. Len(P) = n /\ \A i \in 1..n : P[i] = Part(its, i)
    BY <1>2, <2>1
  <2>3. Joined(P, lay, S)
    BY <1>6, <2>1
  <2>4. /\ S \in [1..(n + 1) -> Nat] /\ S[1] = 0 /\ Len(lay) = S[n + 1]
        /\ \A i \in 1..n : /\ S[i + 1] = S[i] + Len(P[i])
                           /\ \A k \in 1..Len(P[i]) : lay[S[i] + k] = P[i][k]
    BY <2>2, <2>3 DEF Joined
  <2> QED BY <2>2, <2>4
<1>8. \A j \in 1..(n + 1) : \A i \in 1..j : S[i] <= S[j]
  BY <1>2, <1>6, StartsAscend
<1>9. ASSUME NEW i \in 1..n
      PROVE  /\ S[i + 1] = S[i] + Extent(its, i)
             /\ its[i].kind = "zero" => lay[S[i] + 1] = Block("zero", i, 0)
             /\ its[i].kind # "zero" =>
                  /\ lay[S[i] + 1] = Block("header", i, 0)
                  /\ \A p \in 1..BlocksOf(its[i].size) : lay[S[i] + (1 + p)] = Block("data", i, p)
  <2>1. /\ Len(Part(its, i)) = Extent(its, i) /\ Extent(its, i) \in Nat \ {0}
        /\ its[i].kind = "zero" => Part(its, i)[1] = Block("zero", i, 0)
        /\ its[i].kind # "zero" =>
             /\ Part(its, i)[1] = Block("header", i, 0)
             /\ \A p \in 1..BlocksOf(its[i].size) : Part(its, i)[1 + p] = Block("data", i, p)
    BY <1>0, PartIs
  <2>2. 1 \in 1..Len(Part(its, i))
    BY <2>1
  <2>3. its[i].kind # "zero" =>
          \A p \in 1..BlocksOf(its[i].size) : 1 + p \in 1..Len(Part(its, i))
    <3>1. its[i].kind # "zero" => Extent(its, i) = 1 + BlocksOf(its[i].size)
                                  /\ BlocksOf(its[i].size) \in Nat
      BY <1>0, BlocksNat DEF Extent, Proper
    <3> QED BY <2>1, <3>1
  <2> QED BY <1>7, <2>1, <2>2, <2>3
<1> QED BY <1>0, <1>3, <1>4, <1>5, <1>7, <1>8, <1>9

-----------------------------------------------------------------------------
\* How many blocks are in front of each item of the archive.
Starts == StartsOf(items)

\* The zero blocks and the members among the first c items, and the last of them that has a name.
ZerosTo(c) == {j \in 1..c : items[j].kind = "zero"}
MembersTo(c) == {i \in 1..c : items[i].kind = "member"}
LastNamed(c, name, i) ==
    /\ i \in MembersTo(c) /\ items[i].name = name
    /\ \A j \in MembersTo(c) : items[j].name = name => j <= i

\* The scan is behind item c.
Behind(c) ==
    /\ current = BlockSize * Starts[c + 1]
    /\ zeros = Cardinality(ZerosTo(c))
    /\ scan = "scanning" => zeros < 2
    /\ scan = "done" =>
         /\ zeros = 2 /\ c >= 1 /\ items[c].kind = "zero"
         /\ Starts[c + 1] <= Len(archive)
    /\ DOMAIN bindings = {items[i].name : i \in MembersTo(c)}
    /\ \A name \in DOMAIN bindings : \E i \in MembersTo(c) :
         /\ LastNamed(c, name, i)
         /\ bindings[name] = [offset |-> BlockSize * (Starts[i] + 1), length |-> items[i].size]

\* What is read of the archive, which may be torn, is what tar laid out.
ArchiveOK ==
    /\ archive \in Seq(Blocks)
    /\ Len(archive) <= Len(Layout(items))
    /\ \A k \in 1..Len(archive) : archive[k] = Layout(items)[k]

\* The scan is behind some item, and a finished one behind the second zero block.
ScanInv ==
    /\ scan \in {"no", "scanning", "done", "failed"}
    /\ scan # "no" => conf \in Configs /\ items = conf.items /\ ArchiveOK
    /\ scan \in {"scanning", "done"} => \E c \in 0..Len(items) : Behind(c)
    /\ scan = "failed" => bindings = <<>>

\* The items of every configuration are proper.
LEMMA ItemsProper ==
    ASSUME NEW c \in Configs
    PROVE  Proper(c.items) /\ c.torn \in Nat
  BY ConfigsAssumption DEF Proper

\* The beginning of an archive that was just opened.
LEMMA OpenScans ==
    ASSUME NEW c \in Configs, TarOpen(c.items, c.torn), conf' = c
    PROVE  ScanInv'
<1>1. Proper(c.items) /\ c.torn \in Nat
  BY ItemsProper
<1>2. PICK its : its = c.items
  OBVIOUS
<1>3. PICK lay \in Seq(Blocks) : lay = Layout(its)
  BY <1>1, <1>2, LayoutLies
<1>4. Len(its) \in Nat /\ StartsOf(its)[1] = 0
  BY <1>1, <1>2, LayoutLies DEF Proper
<1>5. /\ items' = its /\ archive' = SubSeq(lay, 1, Len(lay) - c.torn)
      /\ current' = 0 /\ zeros' = 0 /\ bindings' = <<>> /\ scan' = "scanning"
  BY <1>2, <1>3 DEF TarOpen
<1>6. ArchiveOK'
  <2>1. PICK t \in Int : t = Len(lay) - c.torn
    BY <1>1, <1>3
  <2>2. t <= Len(lay)
    BY <1>1, <1>3, <2>1
  <2>3. archive' \in Seq(Blocks) /\ Len(archive') <= Len(lay)
        /\ \A k \in 1..Len(archive') : archive'[k] = lay[k]
    BY <1>3, <1>5, <2>1, <2>2
  <2>4. Layout(items)' = lay
    BY <1>3, <1>5 DEF Layout
  <2> QED BY <2>3, <2>4 DEF ArchiveOK
<1>7. Behind(0)'
  <2>1. ZerosTo(0)' = {} /\ MembersTo(0)' = {}
    BY DEF ZerosTo, MembersTo
  <2>2. Starts' = StartsOf(its)
    BY <1>5 DEF Starts, StartsOf, Parts, Part, Layout
  <2>3. BlockSize * 0 = 0
    BY TarAssumption
  <2>4. Cardinality(ZerosTo(0)') = 0
    BY <2>1, FS_EmptySet
  <2>5. DOMAIN bindings' = {}
    BY <1>5
  <2> QED BY <1>4, <1>5, <2>1, <2>2, <2>3, <2>4, <2>5 DEF Behind
<1>8. (\E d \in 0..Len(items) : Behind(d))'
  BY <1>4, <1>5, <1>7
<1> QED BY <1>2, <1>5, <1>6, <1>8 DEF ScanInv

\* The archive of a scan, by its items.
LEMMA ScanItems ==
    ASSUME ScanInv, scan # "no"
    PROVE  /\ Proper(items) /\ Layout(items) \in Seq(Blocks)
           /\ Starts \in [1..(Len(items) + 1) -> Nat] /\ Starts[1] = 0
           /\ Len(Layout(items)) = Starts[Len(items) + 1]
           /\ \A i \in 1..Len(items) : Starts[i + 1] = Starts[i] + Extent(items, i)
           /\ \A j \in 1..(Len(items) + 1) : \A i \in 1..j : Starts[i] <= Starts[j]
  BY ItemsProper, LayoutLies DEF ScanInv, Starts

\* The block that a scan is at, if the archive has it, is the first of an item.
LEMMA ScanAt ==
    ASSUME ScanInv, scan = "scanning", NEW c \in 0..Len(items), Behind(c),
           AtBlock <= Len(archive)
    PROVE  /\ AtBlock = Starts[c + 1] + 1 /\ c < Len(items) /\ Len(items) \in Nat
           /\ items[c + 1].kind = "zero" => Here = Block("zero", c + 1, 0)
           /\ items[c + 1].kind # "zero" =>
                Here = Block("header", c + 1, 0) /\ items[c + 1].kind = "member"
<1>1. PICK n \in Nat : n = Len(items)
  BY ScanItems DEF Proper
<1>2. c \in Nat /\ c <= n /\ c + 1 \in 1..(n + 1)
  BY <1>1
<1>3. PICK o \in Nat : o = Starts[c + 1]
  BY <1>1, <1>2, ScanItems
<1>4. AtBlock = o + 1
  <2>1. PICK b \in Nat \ {0} : b = BlockSize
    BY TarAssumption
  <2>2. (b * o) \div b = o
    OBVIOUS
  <2> QED BY <1>3, <2>1, <2>2 DEF AtBlock, Behind
<1>5. ArchiveOK /\ Len(archive) \in Nat
  BY DEF ScanInv, ArchiveOK
<1>6. Len(archive) <= Starts[n + 1] /\ Starts[n + 1] \in Nat
  <2>1. Len(archive) <= Len(Layout(items))
    BY <1>5 DEF ArchiveOK
  <2>2. n + 1 \in 1..(n + 1)
    OBVIOUS
  <2> QED BY <1>1, <2>1, <2>2, ScanItems
<1>7. c # n
  BY <1>3, <1>4, <1>6
<1>8. Here = Layout(items)[o + 1]
  <2>1. o + 1 \in 1..Len(archive)
    BY <1>3, <1>4, <1>5
  <2> QED BY <1>4, <1>5, <2>1 DEF Here, ArchiveOK
<1>9. c + 1 \in 1..n
  BY <1>2, <1>7
<1>10. Proper(items) /\ items[c + 1].kind \in {"zero", "member"}
  BY <1>1, <1>9, ScanItems DEF Proper
<1>11. /\ items[c + 1].kind = "zero" => Layout(items)[o + 1] = Block("zero", c + 1, 0)
       /\ items[c + 1].kind # "zero" => Layout(items)[o + 1] = Block("header", c + 1, 0)
  BY <1>1, <1>3, <1>9, <1>10, LayoutLies DEF Starts
<1> QED BY <1>1, <1>2, <1>3, <1>4, <1>7, <1>8, <1>10, <1>11

\* What is scanned with one item more.
LEMMA OneMore ==
    ASSUME NEW n \in Nat, n = Len(items), NEW c \in Nat, c < n
    PROVE  /\ items[c + 1].kind = "zero" =>
                /\ ZerosTo(c + 1) = ZerosTo(c) \union {c + 1}
                /\ Cardinality(ZerosTo(c + 1)) = Cardinality(ZerosTo(c)) + 1
                /\ MembersTo(c + 1) = MembersTo(c)
           /\ items[c + 1].kind = "member" =>
                /\ ZerosTo(c + 1) = ZerosTo(c)
                /\ MembersTo(c + 1) = MembersTo(c) \union {c + 1}
           /\ Cardinality(ZerosTo(c)) \in Nat
<1>1. \A i : i \in 1..(c + 1) <=> i \in 1..c \/ i = c + 1
  OBVIOUS
<1>2. c + 1 \notin ZerosTo(c) /\ IsFiniteSet(ZerosTo(c))
  <2>1. IsFiniteSet(1..c) /\ ZerosTo(c) \subseteq 1..c
    BY FS_Interval DEF ZerosTo
  <2> QED BY <2>1, FS_Subset DEF ZerosTo
<1>3. items[c + 1].kind = "zero" => ZerosTo(c + 1) = ZerosTo(c) \union {c + 1}
                                    /\ MembersTo(c + 1) = MembersTo(c)
  BY <1>1 DEF ZerosTo, MembersTo
<1>4. items[c + 1].kind = "member" => ZerosTo(c + 1) = ZerosTo(c)
                                      /\ MembersTo(c + 1) = MembersTo(c) \union {c + 1}
  BY <1>1 DEF ZerosTo, MembersTo
<1>5. Cardinality(ZerosTo(c)) \in Nat
      /\ Cardinality(ZerosTo(c) \union {c + 1}) = Cardinality(ZerosTo(c)) + 1
  BY <1>2, FS_AddElement, FS_CardinalityType
<1> QED BY <1>3, <1>4, <1>5

\* A zero block brings the scan behind one item more.
LEMMA ScanZeroStep ==
    ASSUME ScanInv, ScanZero, conf' = conf
    PROVE  ScanInv'
<1>1. PICK c \in 0..Len(items) : Behind(c)
  BY DEF ScanInv, ScanZero
<1>2. PICK n \in Nat : n = Len(items) /\ c < n /\ c \in Nat /\ c + 1 \in 1..n
  BY <1>1, ScanAt, ScanItems DEF ScanZero, Proper
<1>3. AtBlock = Starts[c + 1] + 1 /\ items[c + 1].kind = "zero"
  <2>1. Here.kind = "zero"
    BY DEF ScanZero
  <2>2. Block("header", c + 1, 0).kind = "header"
    BY DEF Block
  <2> QED BY <1>1, <2>1, <2>2, ScanAt DEF ScanZero
<1>4. PICK o \in Nat : o = Starts[c + 1] /\ Starts[c + 2] = o + 1
  <2>1. Extent(items, c + 1) = 1
    BY <1>3 DEF Extent
  <2>2. c + 1 \in 1..(n + 1) /\ (c + 1) + 1 = c + 2
    BY <1>2
  <2> QED BY <1>2, <2>1, <2>2, ScanItems DEF ScanZero
<1>5. current' = BlockSize * Starts[c + 2]
  <2>1. PICK b \in Nat \ {0} : b = BlockSize
    BY TarAssumption
  <2>2. b * (o + 1) = b * o + b
    OBVIOUS
  <2> QED BY <1>1, <1>4, <2>1, <2>2 DEF Behind, ScanZero
<1>6. zeros' = Cardinality(ZerosTo(c + 1)) /\ zeros \in Nat /\ zeros < 2
  BY <1>1, <1>2, <1>3, OneMore DEF Behind, ScanZero
<1>7. /\ UNCHANGED <<items, archive, bindings, conf>> /\ zeros' = zeros + 1
      /\ scan' = IF zeros + 1 < 2 THEN "scanning" ELSE "done"
  BY DEF ScanZero
<1>8. Starts' = Starts /\ Layout(items)' = Layout(items) /\ Blocks' = Blocks
  BY <1>7 DEF Starts
<1>9. MembersTo(c + 1) = MembersTo(c)
  BY <1>2, <1>3, OneMore
<1>10. (c + 1) + 1 = c + 2 /\ c + 1 >= 1 /\ c + 1 \in 0..n
  BY <1>2
<1>11. Starts[c + 2] <= Len(archive)
  BY <1>3, <1>4 DEF ScanZero
<1>12. Behind(c + 1)'
  <2>1. ZerosTo(c + 1)' = ZerosTo(c + 1) /\ MembersTo(c + 1)' = MembersTo(c)
    BY <1>7, <1>9 DEF ZerosTo, MembersTo
  <2>2. \A name, i : LastNamed(c, name, i) => LastNamed(c + 1, name, i)'
    BY <1>7, <2>1 DEF LastNamed
  <2>3. scan' = "scanning" => zeros' < 2
    BY <1>7
  <2>4. scan' = "done" => zeros' = 2
    BY <1>6, <1>7
  <2>5. DOMAIN bindings' = {items'[i].name : i \in MembersTo(c + 1)'}
    BY <1>1, <1>7, <2>1 DEF Behind
  <2>6. \A name \in DOMAIN bindings' : \E i \in MembersTo(c + 1)' :
          /\ LastNamed(c + 1, name, i)'
          /\ bindings'[name] =
               [offset |-> BlockSize * (Starts'[i] + 1), length |-> items'[i].size]
    BY <1>1, <1>7, <1>8, <2>1, <2>2 DEF Behind
  <2> QED BY <1>3, <1>5, <1>6, <1>7, <1>8, <1>10, <1>11, <2>1, <2>3, <2>4, <2>5, <2>6 DEF Behind
<1>13. ArchiveOK' /\ conf' \in Configs /\ items' = conf'.items
  BY <1>7, <1>8 DEF ScanInv, ArchiveOK, ScanZero
<1>14. scan' \in {"scanning", "done"}
  BY <1>7
<1> QED BY <1>2, <1>7, <1>10, <1>12, <1>13, <1>14 DEF ScanInv

\* So does a header, and its name is bound to it.
LEMMA ScanHeaderStep ==
    ASSUME ScanInv, ScanHeader, conf' = conf
    PROVE  ScanInv'
<1>1. PICK c \in 0..Len(items) : Behind(c)
  BY DEF ScanInv, ScanHeader
<1>2. PICK n \in Nat : n = Len(items) /\ c < n /\ c \in Nat /\ c + 1 \in 1..n
  BY <1>1, ScanAt, ScanItems DEF ScanHeader, Proper
<1>3. items[c + 1].kind = "member" /\ Here.item = c + 1
  <2>1. Here.kind = "header"
    BY DEF ScanHeader
  <2>2. Block("zero", c + 1, 0).kind = "zero" /\ Block("header", c + 1, 0).item = c + 1
    BY DEF Block
  <2> QED BY <1>1, <2>1, <2>2, ScanAt DEF ScanHeader
<1>4. PICK m \in Nat : m = BlocksOf(items[c + 1].size)
  <2>1. items[c + 1].size \in Nat
    BY <1>2, <1>3, ScanItems DEF Proper, ScanHeader
  <2> QED BY <2>1, BlocksNat
<1>5. PICK o \in Nat : o = Starts[c + 1] /\ Starts[c + 2] = o + (1 + m)
  <2>1. Extent(items, c + 1) = 1 + m
    BY <1>3, <1>4 DEF Extent
  <2>2. c + 1 \in 1..(n + 1) /\ (c + 1) + 1 = c + 2
    BY <1>2
  <2> QED BY <1>2, <2>1, <2>2, ScanItems DEF ScanHeader
<1> DEFINE name0 == items[c + 1].name
           binding == [offset |-> BlockSize * (o + 1), length |-> items[c + 1].size]
<1>6. current' = BlockSize * Starts[c + 2] /\ bindings' = Bound(name0, binding)
  <2>1. PICK b \in Nat \ {0} : b = BlockSize
    BY TarAssumption
  <2>2. b * (o + 1) = b * o + b /\ b * (o + (1 + m)) = (b * o + b) + b * m
    OBVIOUS
  <2>3. current = b * o
    BY <1>1, <1>5, <2>1 DEF Behind
  <2>4. current' = current + BlockSize + BlockSize * BlocksOf(items[c + 1].size)
        /\ bindings' = Bound(name0, [offset |-> current + BlockSize, length |-> items[c + 1].size])
    BY <1>3 DEF ScanHeader
  <2> QED BY <1>4, <1>5, <2>1, <2>2, <2>3, <2>4
<1>7. UNCHANGED <<items, archive, zeros, scan, conf>> /\ scan = "scanning"
  BY DEF ScanHeader
<1>8. Starts' = Starts /\ Layout(items)' = Layout(items) /\ Blocks' = Blocks
  BY <1>7 DEF Starts
<1>9. MembersTo(c + 1) = MembersTo(c) \union {c + 1} /\ ZerosTo(c + 1) = ZerosTo(c)
  BY <1>2, <1>3, OneMore
<1>10. (c + 1) + 1 = c + 2 /\ c + 1 \in 0..n
  BY <1>2
<1> HIDE DEF binding
<1>11. Behind(c + 1)'
  <2>1. ZerosTo(c + 1)' = ZerosTo(c) /\ MembersTo(c + 1)' = MembersTo(c) \union {c + 1}
    BY <1>7, <1>9 DEF ZerosTo, MembersTo
  <2>2. /\ DOMAIN bindings' = DOMAIN bindings \union {name0}
        /\ bindings'[name0] = binding
        /\ \A nm \in DOMAIN bindings : nm # name0 => bindings'[nm] = bindings[nm]
    BY <1>6 DEF Bound
  <2>3. DOMAIN bindings' = {items'[i].name : i \in MembersTo(c + 1)'}
    BY <1>1, <1>7, <2>1, <2>2 DEF Behind
  <2>4. ASSUME NEW nm \in DOMAIN bindings'
        PROVE  \E i \in MembersTo(c + 1)' :
                 /\ LastNamed(c + 1, nm, i)'
                 /\ bindings'[nm] =
                      [offset |-> BlockSize * (Starts'[i] + 1), length |-> items'[i].size]
    <3>1. CASE nm = name0
      <4>1. c + 1 \in MembersTo(c + 1)'
        BY <2>1
      <4>2. \A j \in MembersTo(c + 1)' : j <= c + 1
        BY <1>2, <2>1 DEF MembersTo
      <4>3. LastNamed(c + 1, nm, c + 1)'
        BY <1>7, <3>1, <4>1, <4>2 DEF LastNamed
      <4>4. bindings'[nm] =
              [offset |-> BlockSize * (Starts'[c + 1] + 1), length |-> items'[c + 1].size]
        BY <1>5, <1>7, <1>8, <2>2, <3>1 DEF binding
      <4> QED BY <4>1, <4>3, <4>4
    <3>2. CASE nm # name0
      <4>1. nm \in DOMAIN bindings /\ bindings'[nm] = bindings[nm]
        BY <2>2, <3>2
      <4>2. PICK i \in MembersTo(c) :
              /\ LastNamed(c, nm, i)
              /\ bindings[nm] = [offset |-> BlockSize * (Starts[i] + 1), length |-> items[i].size]
        BY <1>1, <4>1 DEF Behind
      <4>3. LastNamed(c + 1, nm, i)'
        BY <1>7, <2>1, <3>2, <4>2 DEF LastNamed
      <4> QED BY <1>7, <1>8, <2>1, <4>1, <4>2, <4>3
    <3> QED BY <3>1, <3>2
  <2>5. current' = BlockSize * Starts'[(c + 1) + 1] /\ zeros' = Cardinality(ZerosTo(c + 1)')
        /\ zeros' < 2 /\ scan' = "scanning"
    BY <1>1, <1>6, <1>7, <1>8, <1>10, <2>1 DEF Behind
  <2> QED BY <2>3, <2>4, <2>5 DEF Behind
<1>12. ArchiveOK' /\ conf' \in Configs /\ items' = conf'.items
  BY <1>7, <1>8 DEF ScanInv, ArchiveOK
<1> QED BY <1>2, <1>7, <1>10, <1>11, <1>12 DEF ScanInv

\* The members in front of the second zero block are those behind which the scan ended.
LEMMA ScannedTo ==
    ASSUME NEW n \in Nat, n = Len(items), NEW c \in 1..n, items[c].kind = "zero",
           Cardinality(ZerosTo(c)) = 2
    PROVE  Scanned = MembersTo(c)
<1>1. \A i \in 1..n : IsFiniteSet(ZerosTo(i)) /\ Cardinality(ZerosTo(i)) \in Nat
  <2>1. ASSUME NEW i \in 1..n PROVE IsFiniteSet(ZerosTo(i))
    <3>1. IsFiniteSet(1..i) /\ ZerosTo(i) \subseteq 1..i
      BY FS_Interval DEF ZerosTo
    <3> QED BY <3>1, FS_Subset
  <2> QED BY <2>1, FS_CardinalityType
<1>2. ASSUME NEW i \in 1..n, i < c PROVE Cardinality(ZerosTo(i)) < 2
  <2>1. c \in ZerosTo(c)
    BY DEF ZerosTo
  <2>2. Cardinality(ZerosTo(c) \ {c}) = 1 /\ IsFiniteSet(ZerosTo(c) \ {c})
    <3>1. IsFiniteSet(ZerosTo(c)) /\ Cardinality(ZerosTo(c)) = 2
      BY <1>1
    <3> QED BY <2>1, <3>1, FS_RemoveElement
  <2>3. ZerosTo(i) \subseteq ZerosTo(c) \ {c}
    BY <1>2 DEF ZerosTo
  <2>4. Cardinality(ZerosTo(i)) <= 1
    BY <2>2, <2>3, FS_Subset
  <2> QED BY <1>1, <2>4
<1>3. ASSUME NEW i \in 1..n, c <= i PROVE ~(Cardinality(ZerosTo(i)) < 2)
  <2>1. ZerosTo(c) \subseteq ZerosTo(i)
    BY <1>3 DEF ZerosTo
  <2>2. 2 <= Cardinality(ZerosTo(i))
    BY <1>1, <2>1, FS_Subset
  <2> QED BY <1>1, <2>2
<1>4. Scanned = {i \in 1..n : Cardinality(ZerosTo(i)) < 2 /\ items[i].kind = "member"}
  BY DEF Scanned, ZerosTo
<1>5. \A i \in 1..n : i < c \/ c <= i
  OBVIOUS
<1>6. MembersTo(c) = {i \in 1..n : i < c /\ items[i].kind = "member"}
  <2>1. \A i \in MembersTo(c) : i # c
    BY DEF MembersTo
  <2> QED BY <2>1 DEF MembersTo
<1> QED BY <1>2, <1>3, <1>4, <1>5, <1>6

\* A piece of a sequence.
LEMMA PieceIs ==
    ASSUME NEW S, NEW s \in Seq(S), NEW a \in Nat, NEW m \in Nat, a + m <= Len(s)
    PROVE  SubSeq(s, a + 1, a + m) = [p \in 1..m |-> s[a + p]]
<1>1. SubSeq(s, a + 1, a + m) \in Seq(S) /\ Len(SubSeq(s, a + 1, a + m)) = m
  OBVIOUS
<1>2. \A p \in 1..m : SubSeq(s, a + 1, a + m)[p] = s[a + p]
  OBVIOUS
<1>3. PICK t \in Seq(S) : t = SubSeq(s, a + 1, a + m)
  BY <1>1
<1>4. Len(t) = m /\ \A p \in 1..m : t[p] = s[a + p]
  BY <1>1, <1>2, <1>3
<1>5. t = [p \in 1..m |-> s[a + p]]
  BY <1>4
<1> QED BY <1>3, <1>5

\* Once the scan is done: a name is bound to the latest member that has it, and a read at
\* the binding brings in that member.
LEMMA BindingHolds ==
    ASSUME ScanInv, scan = "done"
    PROVE  /\ DOMAIN bindings = {items[i].name : i \in Scanned}
           /\ \A name \in DOMAIN bindings :
                /\ Latest(name) \in 1..Len(items) /\ items[Latest(name)].kind = "member"
                /\ items[Latest(name)].name = name
                /\ items[Latest(name)].size \in Nat
                /\ bindings[name].length = items[Latest(name)].size
                /\ DataAt(bindings[name]) =
                     [p \in 1..BlocksOf(items[Latest(name)].size) |->
                        Block("data", Latest(name), p)]
<1>1. PICK c \in 0..Len(items) : Behind(c)
  BY DEF ScanInv
<1>2. PICK n \in Nat : n = Len(items)
  BY ScanItems DEF Proper
<1>3. c \in 1..n /\ items[c].kind = "zero" /\ Cardinality(ZerosTo(c)) = 2
      /\ Starts[c + 1] <= Len(archive)
  BY <1>1, <1>2 DEF Behind
<1>4. Scanned = MembersTo(c)
  BY <1>2, <1>3, ScannedTo
<1>5. ASSUME NEW name \in DOMAIN bindings
      PROVE  /\ Latest(name) \in MembersTo(c)
             /\ items[Latest(name)].name = name
             /\ bindings[name] = [offset |-> BlockSize * (Starts[Latest(name)] + 1),
                                  length |-> items[Latest(name)].size]
  <2>1. PICK i \in MembersTo(c) :
          /\ LastNamed(c, name, i)
          /\ bindings[name] = [offset |-> BlockSize * (Starts[i] + 1), length |-> items[i].size]
    BY <1>1 DEF Behind
  <2> DEFINE same == {j \in Scanned : items[j].name = name}
  <2>2. i \in same /\ \A j \in same : j <= i
    BY <1>4, <2>1 DEF LastNamed
  <2>3. same \subseteq Int
    BY <1>4 DEF MembersTo
  <2>4. Latest(name) = CHOOSE k \in same : \A j \in same : j <= k
    BY <2>2 DEF Latest
  <2> HIDE DEF same
  <2>5. Latest(name) \in same /\ \A j \in same : j <= Latest(name)
    BY <2>2, <2>4
  <2>6. Latest(name) = i
    <3>1. PICK l : l = Latest(name)
      OBVIOUS
    <3>2. l \in Int /\ i \in Int /\ i <= l /\ l <= i
      BY <2>2, <2>3, <2>5, <3>1
    <3> QED BY <3>1, <3>2
  <2> QED BY <2>1, <2>6 DEF LastNamed
<1>6. ASSUME NEW name \in DOMAIN bindings, NEW i \in MembersTo(c), i = Latest(name)
      PROVE  /\ items[i].size \in Nat
             /\ DataAt(bindings[name]) =
                  [p \in 1..BlocksOf(items[i].size) |-> Block("data", i, p)]
  <2>1. i \in 1..n /\ i < c /\ items[i].kind = "member"
    <3>1. i \in 1..c /\ items[i].kind = "member"
      BY DEF MembersTo
    <3>2. i # c
      BY <1>3, <3>1
    <3> QED BY <1>3, <3>1, <3>2
  <2>2. Proper(items) /\ items[i].size \in Nat
    BY <1>2, <2>1, ScanItems DEF Proper
  <2>3. PICK m \in Nat : m = BlocksOf(items[i].size)
    BY <2>2, BlocksNat
  <2>4. PICK o \in Nat : o = Starts[i] /\ Starts[i + 1] = o + (1 + m)
    <3>1. Extent(items, i) = 1 + m
      BY <2>1, <2>3 DEF Extent
    <3>2. i \in 1..(n + 1)
      BY <2>1
    <3> QED BY <1>2, <2>1, <3>1, <3>2, ScanItems
  <2>5. ArchiveOK /\ Len(archive) \in Nat
    BY DEF ScanInv, ArchiveOK
  <2>6. (o + 1) + m <= Len(archive)
    <3>1. i + 1 \in 1..(c + 1) /\ c + 1 \in 1..(n + 1)
      BY <1>3, <2>1
    <3>2. Starts[i + 1] <= Starts[c + 1] /\ Starts[c + 1] \in Nat
      BY <1>2, <3>1, ScanItems
    <3>3. PICK e \in Nat : e = Starts[c + 1]
      BY <3>2
    <3>4. PICK l \in Nat : l = Len(archive)
      BY <2>5
    <3> QED BY <1>3, <2>4, <3>2, <3>3, <3>4
  <2>7. DataAt(bindings[name]) = SubSeq(archive, (o + 1) + 1, (o + 1) + m)
    <3>1. PICK b \in Nat \ {0} : b = BlockSize
      BY TarAssumption
    <3>2. (b * (o + 1)) \div b = o + 1
      <4>1. PICK k \in Nat : k = o + 1
        OBVIOUS
      <4>2. (b * k) \div b = k
        OBVIOUS
      <4> QED BY <4>1, <4>2
    <3>3. bindings[name].offset = b * (o + 1) /\ bindings[name].length = items[i].size
      BY <1>5, <1>6, <2>4, <3>1
    <3> QED BY <2>3, <3>1, <3>2, <3>3 DEF DataAt
  <2>8. DataAt(bindings[name]) = [p \in 1..m |-> archive[(o + 1) + p]]
    <3>1. archive \in Seq(Blocks) /\ o + 1 \in Nat
      BY <2>5 DEF ArchiveOK
    <3> QED BY <2>6, <2>7, <3>1, PieceIs
  <2>9. ASSUME NEW p \in 1..m PROVE archive[(o + 1) + p] = Block("data", i, p)
    <3>1. (o + 1) + p \in 1..Len(archive) /\ (o + 1) + p = o + (1 + p)
      BY <2>5, <2>6
    <3>2. archive[(o + 1) + p] = Layout(items)[o + (1 + p)]
      BY <2>5, <3>1 DEF ArchiveOK
    <3>3. Layout(items)[o + (1 + p)] = Block("data", i, p)
      BY <1>2, <2>1, <2>2, <2>3, <2>4, LayoutLies DEF Starts
    <3> QED BY <3>2, <3>3
  <2> QED BY <2>2, <2>3, <2>8, <2>9
<1>7. DOMAIN bindings = {items[i].name : i \in Scanned}
  BY <1>1, <1>4 DEF Behind
<1>8. ASSUME NEW name \in DOMAIN bindings
      PROVE  /\ Latest(name) \in 1..Len(items) /\ items[Latest(name)].kind = "member"
             /\ items[Latest(name)].name = name
             /\ items[Latest(name)].size \in Nat
             /\ bindings[name].length = items[Latest(name)].size
             /\ DataAt(bindings[name]) =
                  [p \in 1..BlocksOf(items[Latest(name)].size) |->
                     Block("data", Latest(name), p)]
  <2>1. PICK i \in MembersTo(c) : i = Latest(name)
    BY <1>5
  <2>2. i \in 1..n /\ items[i].kind = "member"
    BY <1>3 DEF MembersTo
  <2>3. items[i].name = name /\ bindings[name].length = items[i].size
    BY <1>5, <2>1
  <2>4. /\ items[i].size \in Nat
        /\ DataAt(bindings[name]) = [p \in 1..BlocksOf(items[i].size) |-> Block("data", i, p)]
    BY <1>6, <2>1
  <2> QED BY <1>2, <2>1, <2>2, <2>3, <2>4
<1> QED BY <1>7, <1>8

\* What the scan has bound, from the invariant.
LEMMA ScanExact == ScanInv => BindingsExact
  BY BindingHolds DEF ScanInv, BindingsExact

\* Other calls leave archive and bindings alone.
LEMMA ScanStays ==
    ASSUME ScanInv, UNCHANGED <<tarVars, conf>>
    PROVE  ScanInv'
<1>1. UNCHANGED <<items, archive, current, zeros, bindings, scan, conf>>
  BY DEF tarVars
<1>2. Starts' = Starts /\ Layout(items)' = Layout(items)
  BY <1>1 DEF Starts
<1>3. \A c : Behind(c)' = Behind(c)
  BY <1>1, <1>2 DEF Behind, ZerosTo, MembersTo, LastNamed
<1>4. ArchiveOK' = ArchiveOK
  BY <1>1, <1>2 DEF ArchiveOK
<1> QED BY <1>1, <1>3, <1>4 DEF ScanInv

\* What each step does to the archive.
LEMMA StepsOfScan ==
    ASSUME [Next]_vars
    PROVE  \/ \E c \in Configs : TarOpen(c.items, c.torn) /\ conf' = c
           \/ (ScanZero \/ ScanHeader) /\ conf' = conf
           \/ ScanFails /\ conf' = conf
           \/ UNCHANGED <<tarVars, conf>>
<1>1. CASE UNCHANGED vars
  BY <1>1 DEF vars, loading
<1>2. CASE Call
  <2>1. CASE InitCall
    BY <2>1 DEF InitCall
  <2>2. CASE \E key \in Asked : lib1tquery_lookup_ngram(Len(key), key)
    BY <2>2 DEF lib1tquery_lookup_ngram, Abort, Breaks, Answer, SearchMap, SearchArchive,
                Unchanged, loading
  <2>3. CASE lib1tquery_dictionary \/ (\E a \in Ids : lib1tquery_lookup_1gram(a))
             \/ lib1tquery_suspend_tar \/ lib1tquery_reopen_tar \/ lib1tquery_test_random_read
             \/ (\E n \in Grams : lib1tquery_debug_leafdump(n)) \/ lib1tquery_quit
    BY <2>3 DEF lib1tquery_dictionary, lib1tquery_lookup_1gram, lib1tquery_suspend_tar,
                lib1tquery_reopen_tar, lib1tquery_test_random_read, lib1tquery_debug_leafdump,
                lib1tquery_quit, Follow, Abort, Breaks, Unchanged, loading
  <2> QED BY <1>2, <2>1, <2>2, <2>3 DEF Call
<1>3. CASE InitStep
  BY <1>3 DEF InitStep, Scan, NoArchive, Map, ReadWords, InitUnigrams, SkipGram, OpenTree,
              OpenBeyond, NoRctxs, LoadFails, TreesOpened, InitDone, Fail, loading
<1>4. CASE NoArchive \/ LoadFails \/ LoadStops \/ NoRctxs
  BY <1>4 DEF NoArchive, LoadFails, LoadStops, NoRctxs, Fail, loading
<1> QED BY <1>1, <1>2, <1>3, <1>4 DEF Next

\* The first state, and every step.
LEMMA ScanInvHolds ==
    /\ Init => ScanInv
    /\ ScanInv /\ [Next]_vars => ScanInv'
<1>1. Init => ScanInv
  BY DEF Init, TarInit, ScanInv
<1>2. ASSUME ScanInv, [Next]_vars PROVE ScanInv'
  <2>1. CASE \E c \in Configs : TarOpen(c.items, c.torn) /\ conf' = c
    BY <2>1, OpenScans
  <2>2. CASE (ScanZero \/ ScanHeader) /\ conf' = conf
    BY <1>2, <2>2, ScanZeroStep, ScanHeaderStep
  <2>3. CASE ScanFails /\ conf' = conf
    <3>1. UNCHANGED <<items, archive, conf>> /\ scan = "scanning" /\ scan' = "failed"
          /\ bindings' = <<>>
      BY <2>3 DEF ScanFails
    <3>2. ArchiveOK'
      BY <1>2, <3>1 DEF ScanInv, ArchiveOK
    <3> QED BY <1>2, <3>1, <3>2 DEF ScanInv
  <2>4. CASE UNCHANGED <<tarVars, conf>>
    BY <1>2, <2>4, ScanStays
  <2> QED BY <1>2, <2>1, <2>2, <2>3, <2>4, StepsOfScan
<1> QED BY <1>1, <1>2

\* The scan binds exactly the members in front of the second zero block, each name to the
\* last that has it, whatever the archive is made of (tarbind.c:140).
THEOREM ScanBindsExactly == Spec => []BindingsExact
<1>1. Spec => []ScanInv
  BY ScanInvHolds, PTL DEF Spec
<1> QED BY <1>1, ScanExact, PTL

-----------------------------------------------------------------------------
(* Opening the trees                                                        *)

\* The phases of a call before the trees, and those after the scan.
Early == {"scan", "map", "words", "unigrams"}
Later == {"map", "words", "unigrams", "trees"}

\* b is the binding of the tree of bin j, and there is something at it.
BoundTree(n, j, b) ==
    /\ TreeName(n, j) \in DOMAIN bindings /\ b = bindings[TreeName(n, j)]
    /\ DataAt(b) # <<>>

\* An n has as many trees as lib1tquery_init counts for it, each the one of its bin.
TreesOf(n) ==
    /\ n \in DOMAIN conf.grams
    /\ Len(rctxs[n]) = IF MaxIndex(n) < 0 THEN 0 ELSE MaxIndex(n)
    /\ \A j \in 1..Len(rctxs[n]) : BoundTree(n, j - 1, rctxs[n][j])

\* Nothing was opened.
Fresh ==
    /\ gram = 2 /\ made = <<>> /\ weighted = <<>>
    /\ grams = [n \in Grams |-> "null"] /\ rctxs = [n \in Grams |-> <<>>]

\* How far a call of lib1tquery_init is, and what it has got.
PhaseInv ==
    /\ phase \in {"idle", "scan"} \union Later
    /\ initialized \in BOOLEAN /\ quitted \in BOOLEAN
    /\ quitted => initialized
    /\ phase # "idle" => ~initialized
    /\ phase = "scan" => scan = "scanning"
    /\ phase \in Later => scan = "done" /\ tar = "live"
    /\ phase \in {"scan", "map", "words"} => wordhash = "null"
    /\ phase \in {"unigrams", "trees"} => wordhash = "live"
    /\ phase = "trees" => unigrams = "live"
    /\ phase \in Early => Fresh

\* The trees opened so far: those of the n below gram, and those made.
Opened(g, m) == {t \in TreesFound : t[1] < g \/ (t[1] = g /\ t[2] < m)}
LeavesIn(S) == SumFunctionOnSet([t \in TreesFound |-> LeavesOf(t)], S)

\* The n before gram have their trees, or an array that could not be had, or no location.
GramsInv ==
    /\ DOMAIN grams = Grams /\ DOMAIN rctxs = Grams
    /\ \A n \in Grams :
         /\ grams[n] \in {"null", "live", "hollow"}
         /\ n < gram => (grams[n] = "null" <=> n \notin DOMAIN conf.grams)
         /\ n >= gram => grams[n] = "null"
         /\ grams[n] = "live" => TreesOf(n)

\* The trees being opened are those of the first bins of gram.
MadeInv ==
    /\ gram \in 2..(MaxGram + 1)
    /\ made \in Seq({bindings[name] : name \in DOMAIN bindings})
    /\ made # <<>> => gram \in DOMAIN conf.grams /\ Len(made) <= MaxIndex(gram)
    /\ \A j \in 1..Len(made) : BoundTree(gram, j - 1, made[j])

\* The table of random reads leads to opened trees, and they have leaves for it.
WeightedInv ==
    /\ weighted \in Seq(Nat \X Nat)
    /\ \A r \in 1..Len(weighted) :
         LET n == weighted[r][1] IN
         \/ n \in Grams /\ n < gram /\ grams[n] = "live" /\ weighted[r][2] \in 1..Len(rctxs[n])
         \/ n = gram /\ weighted[r][2] \in 1..Len(made)

\* The table has no more entries than the opened trees have a share of.
TableInv ==
    Len(weighted) * AssumedLeaves <= MaxSlots * LeavesIn(Opened(gram, Len(made)))

\* While the trees are opened and nothing is misused.
OpeningInv ==
    phase = "trees" /\ broken = Fine => GramsInv /\ MadeInv /\ WeightedInv /\ TableInv

\* What a library has that says it is initialised, until lib1tquery_quit and after it.
ReadyInv ==
    initialized =>
      /\ scan = "done"
      /\ DOMAIN grams = Grams
      /\ \A n \in Grams : /\ grams[n] = "null" <=> n \notin DOMAIN conf.grams
                          /\ grams[n] = "live" => TreesOf(n)
      /\ \A r \in 1..Len(weighted) :
           weighted[r][1] \in Grams /\ weighted[r][2] \in 1..Len(rctxs[weighted[r][1]])
      /\ ~quitted =>
           /\ tar = "live" /\ wordhash = "live" /\ unigrams = "live"
           /\ \A n \in Grams : grams[n] \in {"null", "live", "hollow"}
           /\ \A r \in 1..Len(weighted) : grams[weighted[r][1]] = "live"

LibInv == PhaseInv /\ OpeningInv /\ ReadyInv

-----------------------------------------------------------------------------
\* MaxGram is a number.
LEMMA GramsAre == MaxGram \in Nat /\ MaxGram >= 2 /\ Grams = 2..MaxGram
  BY LayoutAssumption, LibraryAssumption DEF Grams

\* What an int holds is a number, and the same one if it is not too large.
LEMMA IntIs ==
    /\ \A x \in Int : ToInt(x) \in Int
    /\ \A x \in 0..(IntBound - 1) : ToInt(x) = x /\ x % (2 * IntBound) = x
<1>1. PICK m \in Nat \ {0} : m = IntBound
  BY LibraryAssumption
<1>2. 2 * m \in Nat \ {0}
  OBVIOUS
<1>3. ASSUME NEW x \in Int PROVE ToInt(x) \in Int
  <2>1. (x + m) % (2 * m) \in Int
    BY <1>2
  <2> QED BY <1>1, <2>1 DEF ToInt
<1>4. ASSUME NEW x \in 0..(m - 1) PROVE ToInt(x) = x /\ x % (2 * m) = x
  <2>1. PICK M \in Nat \ {0} : M = 2 * m
    BY <1>2
  <2>2. x + m \in 0..(M - 1) /\ x \in 0..(M - 1)
    BY <2>1
  <2>3. (x + m) % M = x + m /\ x % M = x
    BY <2>2
  <2> QED BY <1>1, <2>1, <2>3 DEF ToInt
<1> QED BY <1>1, <1>3, <1>4

\* An n whose trees can be counted has as many of them as it has bins, and an array with
\* room for them all.
LEMMA CountedAre ==
    ASSUME NEW n, Bins(n) \in Nat \ {0}, Bins(n)^n \in Int, Countable(Bins(n), n)
    PROVE  /\ MaxIndex(n) = Bins(n)^n /\ Room(n) = MaxIndex(n)
           /\ MaxIndex(n) \in 0..(IntBound - 1)
<1>1. PICK x \in Int : x = Bins(n)^n
  OBVIOUS
<1>2. PICK a \in Nat \ {0} : a = RctxBytes
  BY LibraryAssumption
<1>3. PICK m \in Nat \ {0} : m = IntBound
  BY LibraryAssumption
<1>4. a * x \in 0..(m - 1)
  BY <1>1, <1>2, <1>3 DEF Countable
<1>5. x >= 0
  <2>1. SUFFICES ASSUME x < 0 PROVE FALSE
    OBVIOUS
  <2>2. a * (0 - x) > 0 /\ a * (0 - x) = 0 - a * x
    BY <2>1
  <2> QED BY <1>4, <2>2
<1>6. x <= a * x
  <2>1. a * x = x + (a - 1) * x /\ (a - 1) * x >= 0
    BY <1>5
  <2> QED BY <2>1
<1>7. x \in 0..(m - 1)
  BY <1>4, <1>5, <1>6
<1>8. ToInt(x) = x /\ ToInt(a * x) = a * x
  BY <1>3, <1>4, <1>7, IntIs
<1>9. (a * x) \div a = x
  OBVIOUS
<1> QED BY <1>1, <1>2, <1>3, <1>7, <1>8, <1>9 DEF MaxIndex, Room, Size

\* While the archive and the settings stay, so do the names and contents of the trees.
LEMMA TreesStay ==
    ASSUME UNCHANGED <<items, archive, bindings, conf>>
    PROVE  /\ \A n : Bins(n)' = Bins(n) /\ MaxIndex(n)' = MaxIndex(n)
           /\ \A n, j, b : BoundTree(n, j, b)' = BoundTree(n, j, b)
           /\ TreesFound' = TreesFound
           /\ \A t : LeavesOf(t)' = LeavesOf(t)
           /\ \A g, m : Opened(g, m)' = Opened(g, m)
           /\ \A S : LeavesIn(S)' = LeavesIn(S)
           /\ \A b : TreeAt(b)' = TreeAt(b)
           /\ \A name : Latest(name)' = Latest(name)
<1>1. \A n : Bins(n)' = Bins(n) /\ MaxIndex(n)' = MaxIndex(n)
  BY DEF Bins, MaxIndex, ToInt
<1>2. \A n, j : TreeName(n, j)' = TreeName(n, j)
  BY DEF TreeName, Bins
<1>3. \A b : DataAt(b)' = DataAt(b)
  BY DEF DataAt
<1>4. \A n, j, b : BoundTree(n, j, b)' = BoundTree(n, j, b)
  BY <1>2, <1>3 DEF BoundTree
<1>5. TreesFound' = TreesFound
  BY <1>1, <1>2, <1>3 DEF TreesFound
<1>6. \A b : TreeAt(b)' = TreeAt(b)
  BY <1>3 DEF TreeAt
<1>7. \A t : LeavesOf(t)' = LeavesOf(t)
  BY <1>2, <1>6 DEF LeavesOf
<1>8. \A g, m : Opened(g, m)' = Opened(g, m)
  BY <1>5 DEF Opened
<1>9. [t \in TreesFound |-> LeavesOf(t)]' = [t \in TreesFound |-> LeavesOf(t)]
  BY <1>5, <1>7
<1>10. \A S : LeavesIn(S)' = LeavesIn(S)
  BY <1>9 DEF LeavesIn
<1>11. \A name : Latest(name)' = Latest(name)
  BY DEF Latest, Scanned
<1> QED BY <1>1, <1>4, <1>5, <1>6, <1>7, <1>8, <1>10, <1>11

\* So do the trees of an n, if the context keeps them.
LEMMA TreesOfStay ==
    ASSUME UNCHANGED <<items, archive, bindings, conf>>, NEW n, rctxs'[n] = rctxs[n]
    PROVE  TreesOf(n)' = TreesOf(n)
  BY TreesStay DEF TreesOf

\* A step that leaves archive, call and pointers as they are keeps the invariant.
LEMMA LibStays ==
    ASSUME LibInv, UNCHANGED <<tarVars, loading, initialized, pointers, rctxs, weighted, quitted>>,
           broken' = Fine => broken = Fine
    PROVE  LibInv'
<1>1. /\ UNCHANGED <<items, archive, current, zeros, bindings, scan>>
      /\ UNCHANGED <<conf, phase, gram, made, initialized, rctxs, weighted, quitted>>
      /\ UNCHANGED <<tar, wordhash, unigrams, grams>>
  BY DEF tarVars, loading, pointers
<1>2. \A n : TreesOf(n)' = TreesOf(n)
  BY <1>1, TreesOfStay
<1>3. PhaseInv'
  <2>1. Fresh' = Fresh
    BY <1>1 DEF Fresh
  <2> QED BY <1>1, <2>1 DEF LibInv, PhaseInv
<1>4. OpeningInv'
  <2> SUFFICES ASSUME phase = "trees", broken = Fine
               PROVE  GramsInv' /\ MadeInv' /\ WeightedInv' /\ TableInv'
    BY <1>1 DEF OpeningInv
  <2>1. GramsInv /\ MadeInv /\ WeightedInv /\ TableInv
    BY DEF LibInv, OpeningInv
  <2>2. GramsInv'
    BY <1>1, <1>2, <2>1 DEF GramsInv
  <2>3. MadeInv'
    BY <1>1, <2>1, TreesStay DEF MadeInv
  <2>4. WeightedInv'
    BY <1>1, <2>1 DEF WeightedInv
  <2>5. TableInv'
    BY <1>1, <2>1, TreesStay DEF TableInv
  <2> QED BY <2>2, <2>3, <2>4, <2>5
<1>5. ReadyInv'
  BY <1>1, <1>2 DEF LibInv, ReadyInv
<1> QED BY <1>3, <1>4, <1>5 DEF LibInv

\* The steps of a call up to the trees, and its failures.
LEMMA InitCallLib ==
    ASSUME LibInv, InitCall
    PROVE  LibInv'
<1>1. /\ ~initialized /\ initialized' = FALSE /\ quitted' = quitted
      /\ phase' = "scan" /\ scan' = "scanning" /\ wordhash' = "null"
  BY DEF InitCall, outside, history, TarOpen, LibInv, PhaseInv
<1>2. Fresh'
  BY DEF InitCall, Fresh
<1>3. PhaseInv'
  BY <1>1, <1>2 DEF PhaseInv, LibInv, Later, Early
<1>4. OpeningInv' /\ ReadyInv'
  BY <1>1 DEF OpeningInv, ReadyInv
<1> QED BY <1>3, <1>4 DEF LibInv

\* The scan goes on, or ends and the call goes on to the mapping.
LEMMA ScanLib ==
    ASSUME LibInv, Scan
    PROVE  LibInv'
<1>1. /\ phase = "scan" /\ ~initialized /\ initialized' = initialized /\ quitted' = quitted
      /\ wordhash = "null" /\ wordhash' = "null" /\ Fresh
  BY DEF Scan, Loading, outside, history, LibInv, PhaseInv, Early
<1>2. Fresh'
  BY <1>1 DEF Scan, Fresh
<1>3. scan' \in {"scanning", "done"}
  BY DEF Scan, ScanZero, ScanHeader
<1>4. scan' = "done" => tar' = "live" /\ phase' = "map"
  BY DEF Scan
<1>5. scan' = "scanning" => phase' = "scan"
  BY <1>1 DEF Scan
<1>6. PhaseInv'
  BY <1>1, <1>2, <1>3, <1>4, <1>5 DEF PhaseInv, LibInv, Later, Early
<1>7. OpeningInv' /\ ReadyInv'
  BY <1>1, <1>3, <1>4, <1>5 DEF OpeningInv, ReadyInv
<1> QED BY <1>6, <1>7 DEF LibInv

\* A call that fails frees nothing twice: whatever it frees was live.
LEMMA FailLib ==
    ASSUME LibInv, NoArchive \/ LoadFails
    PROVE  LibInv' /\ broken' = Fine
<1>1. phase # "idle" /\ Running /\ Fail /\ quitted' = quitted /\ initialized' = initialized
  BY DEF NoArchive, LoadFails, NextFits, OpenNext, Loading, Later, Fail
<1>2. ~initialized
  BY <1>1 DEF LibInv, PhaseInv
<1>3. PhaseInv'
  BY <1>1, <1>2 DEF LibInv, PhaseInv, Fail, Later, Early
<1>4. OpeningInv' /\ ReadyInv'
  BY <1>1, <1>2 DEF Fail, OpeningInv, ReadyInv
<1>5. wordhash # "freed"
  BY <1>1 DEF LibInv, PhaseInv, Later
<1>6. \A n \in Grams : grams[n] # "freed"
  <2>1. CASE phase = "trees"
    BY <1>1, <2>1 DEF LibInv, OpeningInv, GramsInv, Running
  <2>2. CASE phase # "trees"
    BY <1>1, <2>2 DEF LibInv, PhaseInv, Fresh, Early, Later
  <2> QED BY <2>1, <2>2
<1>7. broken' = Fine
  BY <1>1, <1>5, <1>6 DEF Fail, Running
<1> QED BY <1>3, <1>4, <1>7 DEF LibInv

\* The archive is mapped, or not, and the dictionary is read: no tree is open yet.
LEMMA MapLib ==
    ASSUME LibInv, Map \/ ReadWords
    PROVE  LibInv'
<1>1. /\ phase \in {"map", "words"} /\ ~initialized /\ initialized' = initialized
      /\ quitted' = quitted /\ Fresh /\ scan' = scan /\ tar' = tar /\ scan = "done" /\ tar = "live"
  BY DEF Map, ReadWords, Loading, outside, history, LibInv, PhaseInv, Early, Later, tarVars,
         pointers
<1>2. Fresh'
  BY <1>1 DEF Map, ReadWords, Fresh, pointers
<1>3. \/ phase' = "words" /\ wordhash' = "null"
      \/ phase' = "unigrams" /\ wordhash' = "live"
  BY <1>1 DEF Map, ReadWords, pointers, LibInv, PhaseInv
<1>4. PhaseInv'
  BY <1>1, <1>2, <1>3 DEF PhaseInv, LibInv, Later, Early
<1>5. OpeningInv' /\ ReadyInv'
  BY <1>1, <1>3 DEF OpeningInv, ReadyInv
<1> QED BY <1>4, <1>5 DEF LibInv

\* The trees that can be opened.
LEMMA FoundIs ==
    ASSUME ScanInv, scan = "done"
    PROVE  /\ conf \in Configs /\ DOMAIN conf.grams \subseteq Grams
           /\ \A n \in DOMAIN conf.grams :
                /\ Bins(n) \in 0..(HashRange - 1) /\ (Bins(n) # 0 => Bins(n)^n \in Int)
                /\ MaxIndex(n) \in Int /\ conf.grams[n].prefix \in Nat
           /\ \A t \in TreesFound :
                /\ t = <<t[1], t[2]>> /\ t[1] \in DOMAIN conf.grams /\ t[1] \in Nat /\ t[1] >= 2
                /\ t[2] \in 0..(MaxIndex(t[1]) - 1)
                /\ BoundTree(t[1], t[2], bindings[TreeName(t[1], t[2])])
           /\ \A n \in DOMAIN conf.grams : \A j \in 0..(MaxIndex(n) - 1) : \A b :
                BoundTree(n, j, b) => <<n, j>> \in TreesFound
<1>1. conf \in Configs
  BY DEF ScanInv
<1>2. /\ DOMAIN conf.grams \subseteq Grams
      /\ \A n \in DOMAIN conf.grams :
           conf.grams[n].bins \in 0..(HashRange - 1) /\ conf.grams[n].prefix \in Nat
  BY <1>1, ConfigsAssumption
<1>3. HashRange - 1 \in Nat
  BY HashAssumption
<1>4. ASSUME NEW n \in DOMAIN conf.grams
      PROVE  /\ n \in Nat /\ n >= 2 /\ Bins(n) \in 0..(HashRange - 1)
             /\ (Bins(n) # 0 => Bins(n)^n \in Int) /\ MaxIndex(n) \in Int
  <2>1. n \in Nat /\ n >= 2
    BY <1>2, GramsAre
  <2>2. Bins(n) \in 0..(HashRange - 1) /\ Bins(n) \in Nat
    BY <1>2, <1>3 DEF Bins
  <2>3. ASSUME Bins(n) # 0 PROVE Bins(n)^n \in Int
    <3>1. PICK b \in Nat \ {0} : b = Bins(n)
      BY <2>2, <2>3
    <3>2. b^n \in Int
      BY <2>1
    <3> QED BY <3>1, <3>2
  <2>4. MaxIndex(n) \in Int
    BY <2>3, IntIs DEF MaxIndex
  <2> QED BY <2>1, <2>2, <2>3, <2>4
<1>5. ASSUME NEW t \in TreesFound
      PROVE  /\ t = <<t[1], t[2]>> /\ t[1] \in DOMAIN conf.grams
             /\ t[2] \in 0..(MaxIndex(t[1]) - 1)
             /\ BoundTree(t[1], t[2], bindings[TreeName(t[1], t[2])])
  <2>1. PICK n \in DOMAIN conf.grams : t \in {n} \X (0..(MaxIndex(n) - 1))
    BY DEF TreesFound
  <2>2. t = <<t[1], t[2]>> /\ t[1] = n /\ t[2] \in 0..(MaxIndex(n) - 1)
    BY <2>1
  <2>3. BoundTree(t[1], t[2], bindings[TreeName(t[1], t[2])])
    BY DEF TreesFound, BoundTree
  <2> QED BY <2>2, <2>3
<1>6. ASSUME NEW n \in DOMAIN conf.grams, NEW j \in 0..(MaxIndex(n) - 1), NEW b,
             BoundTree(n, j, b)
      PROVE  <<n, j>> \in TreesFound
  <2>1. <<n, j>> \in {n} \X (0..(MaxIndex(n) - 1))
    OBVIOUS
  <2>2. <<n, j>> \in UNION {{k} \X (0..(MaxIndex(k) - 1)) : k \in DOMAIN conf.grams}
    BY <2>1
  <2>3. <<n, j>>[1] = n /\ <<n, j>>[2] = j
    OBVIOUS
  <2> QED BY <1>6, <2>2, <2>3 DEF TreesFound, BoundTree
<1> QED BY <1>1, <1>2, <1>4, <1>5, <1>6

\* The unigrams are read, and the call begins with the trees: none is open, none is in the
\* table.
LEMMA InitUnigramsLib ==
    ASSUME ScanInv, LibInv, InitUnigrams
    PROVE  LibInv'
<1>1. /\ phase = "unigrams" /\ phase' = "trees" /\ unigrams' = "live"
      /\ ~initialized /\ initialized' = initialized /\ quitted' = quitted /\ Fresh
      /\ scan = "done" /\ tar = "live" /\ wordhash = "live"
      /\ UNCHANGED <<items, archive, current, zeros, bindings, scan, tar, wordhash, conf>>
      /\ UNCHANGED <<gram, made, weighted, grams, rctxs>>
  BY DEF InitUnigrams, Loading, outside, history, LibInv, PhaseInv, Early, Later, tarVars
<1>2. PhaseInv'
  BY <1>1 DEF PhaseInv, LibInv, Later, Early
<1>3. GramsInv'
  BY <1>1, GramsAre DEF GramsInv, Fresh
<1>4. MadeInv' /\ WeightedInv'
  BY <1>1, GramsAre DEF MadeInv, WeightedInv, Fresh
<1>5. TableInv'
  <2>1. Opened(2, 0) = {}
    BY <1>1, FoundIs DEF Opened
  <2>2. LeavesIn(Opened(gram, Len(made))) = 0
    BY <1>1, <2>1, SumEmpty DEF LeavesIn, Fresh
  <2>3. LeavesIn(Opened(gram, Len(made)))' = 0
    BY <1>1, <2>2, TreesStay
  <2>4. Len(weighted') = 0 /\ 0 * AssumedLeaves = 0 /\ MaxSlots * 0 = 0
    BY <1>1, LibraryAssumption DEF Fresh
  <2> QED BY <2>3, <2>4 DEF TableInv
<1>6. OpeningInv' /\ ReadyInv'
  BY <1>1, <1>3, <1>4, <1>5 DEF OpeningInv, ReadyInv
<1> QED BY <1>2, <1>6 DEF LibInv

\* There are finitely many trees.
LEMMA FoundFinite ==
    ASSUME ScanInv, scan = "done"
    PROVE  IsFiniteSet(TreesFound)
<1> DEFINE Of(n) == {n} \X (0..(MaxIndex(n) - 1))
           D == DOMAIN conf.grams
           F == [n \in D |-> Of(n)]
           All == {Of(n) : n \in D}
<1>1. D \subseteq Grams /\ \A n \in D : MaxIndex(n) \in Int
  BY FoundIs
<1>2. IsFiniteSet(D)
  <2>1. IsFiniteSet(Grams)
    BY GramsAre, FS_Interval
  <2> QED BY <1>1, <2>1, FS_Subset
<1>3. \A T \in All : IsFiniteSet(T)
  <2> SUFFICES ASSUME NEW n \in D PROVE IsFiniteSet(Of(n))
    OBVIOUS
  <2>1. IsFiniteSet({n})
    BY FS_Singleton
  <2>2. MaxIndex(n) - 1 \in Int
    BY <1>1
  <2>3. IsFiniteSet(0..(MaxIndex(n) - 1))
    BY <2>2, UpToIsFinite
  <2> QED BY <2>1, <2>3, FS_Product
<1>4. IsFiniteSet(All)
  <2>1. F \in Surjection(D, All)
    BY DEF Surjection
  <2> HIDE DEF F, All, D
  <2> QED BY <1>2, <2>1, FS_Surjection
<1>5. IsFiniteSet(UNION All)
  <2> HIDE DEF All
  <2> QED BY <1>3, <1>4, FS_UNION
<1>6. TreesFound \subseteq UNION All
  BY DEF TreesFound
<1> QED BY <1>5, <1>6, FS_Subset

\* What is behind a binding that is not empty: the latest member of that name.
LEMMA TreeAtIs ==
    ASSUME ScanInv, scan = "done", NEW name \in DOMAIN bindings, DataAt(bindings[name]) # <<>>
    PROVE  /\ TreeAt(bindings[name]) = items[Latest(name)].holds
           /\ Latest(name) \in 1..Len(items) /\ items[Latest(name)].kind = "member"
           /\ items[Latest(name)].name = name
           /\ Leaves[TreeAt(bindings[name]).build] \in Nat
<1>1. PICK i : i = Latest(name)
  OBVIOUS
<1>2. /\ i \in 1..Len(items) /\ items[i].kind = "member" /\ items[i].name = name
      /\ items[i].size \in Nat
      /\ DataAt(bindings[name]) = [p \in 1..BlocksOf(items[i].size) |-> Block("data", i, p)]
  BY <1>1, BindingHolds
<1>3. PICK m \in Nat : m = BlocksOf(items[i].size)
  BY <1>2, BlocksNat
<1>4. m # 0
  <2>1. [p \in 1..0 |-> Block("data", i, p)] = <<>>
    OBVIOUS
  <2> QED BY <1>2, <1>3, <2>1
<1>5. DataAt(bindings[name])[1].item = i
  <2>1. 1 \in 1..m
    BY <1>4
  <2> QED BY <1>2, <1>3, <2>1 DEF Block
<1>6. items[i].holds.build \in DOMAIN Leaves
  <2>1. conf \in Configs /\ items = conf.items
    BY DEF ScanInv
  <2> QED BY <1>2, <2>1, ConfigsAssumption
<1>7. Leaves[items[i].holds.build] \in Nat
  BY <1>6, ConfigsAssumption
<1> QED BY <1>1, <1>2, <1>5, <1>7 DEF TreeAt

\* The sums over opened trees.
LEMMA LeavesInIs ==
    ASSUME ScanInv, scan = "done", NEW R \in SUBSET TreesFound, NEW S \in SUBSET R
    PROVE  /\ LeavesIn(R) \in Int /\ LeavesIn(S) \in Int /\ LeavesIn(S) <= LeavesIn(R)
           /\ \A t \in TreesFound : LeavesOf(t) \in Nat
           /\ \A t \in TreesFound \ S : R = S \union {t} => LeavesIn(R) = LeavesIn(S) + LeavesOf(t)
<1> DEFINE f == [t \in TreesFound |-> LeavesOf(t)]
<1>1. \A t \in TreesFound : LeavesOf(t) \in Nat
  BY FoundIs, TreeAtIs DEF LeavesOf, BoundTree
<1>2. IsFiniteSet(R) /\ IsFiniteSet(TreesFound)
  BY FoundFinite, FS_Subset
<1>3. \A t \in R : f[t] \in Nat /\ f[t] = LeavesOf(t)
  BY <1>1
<1>4. LeavesIn(R) = SumFunctionOnSet(f, R) /\ LeavesIn(S) = SumFunctionOnSet(f, S)
  BY DEF LeavesIn
<1> HIDE DEF f
<1>5. LeavesIn(R) \in Int /\ LeavesIn(S) \in Int /\ LeavesIn(S) <= LeavesIn(R)
  BY <1>2, <1>3, <1>4, SumOfSubset
<1>6. ASSUME NEW t \in TreesFound \ S, R = S \union {t}
      PROVE  LeavesIn(R) = LeavesIn(S) + LeavesOf(t)
  <2>1. t \in R /\ S = R \ {t} /\ \A y \in R : f[y] \in Int
    BY <1>3, <1>6
  <2>2. SumFunctionOnSet(f, R) = f[t] + SumFunctionOnSet(f, R \ {t})
    BY <1>2, <2>1, SumSplits
  <2> QED BY <1>1, <1>3, <1>4, <1>5, <2>1, <2>2
<1> QED BY <1>1, <1>5, <1>6

\* The trees opened before a call goes on to the next n are open after it.
LEMMA OpenedGrows ==
    ASSUME ScanInv, scan = "done", NEW g \in Nat, NEW m
    PROVE  Opened(g, m) \subseteq Opened(g + 1, 0) /\ Opened(g + 1, 0) \subseteq TreesFound
<1>1. \A t \in TreesFound : t[1] \in Nat
  BY FoundIs
<1> QED BY <1>1 DEF Opened

\* The table after a step that leaves the archive alone.
LEMMA TableAt ==
    ASSUME UNCHANGED <<items, archive, bindings, conf>>, NEW g, NEW m,
           gram' = g, Len(made') = m
    PROVE  TableInv' <=> Len(weighted') * AssumedLeaves <= MaxSlots * LeavesIn(Opened(g, m))
<1>1. LeavesIn(Opened(g, m))' = LeavesIn(Opened(g, m))
  <2>1. Opened(g, m)' = Opened(g, m)
    BY TreesStay
  <2>2. PICK S : S = Opened(g, m)
    OBVIOUS
  <2>3. LeavesIn(S)' = LeavesIn(S)
    BY TreesStay
  <2> QED BY <2>1, <2>2, <2>3 DEF LeavesIn
<1>2. LeavesIn(Opened(gram, Len(made)))' = LeavesIn(Opened(g, m))'
  BY DEF LeavesIn, Opened
<1> QED BY <1>1, <1>2 DEF TableInv

\* A multiple of the larger number is larger.
LEMMA ScaledOrder ==
    ASSUME NEW x \in Int, NEW a \in Int, NEW b \in Int, a <= b, x <= MaxSlots * a
    PROVE  x <= MaxSlots * b
<1>1. MaxSlots * b = MaxSlots * a + MaxSlots * (b - a)
  BY LibraryAssumption
<1>2. MaxSlots * (b - a) >= 0
  BY LibraryAssumption
<1> QED BY <1>1, <1>2, LibraryAssumption

\* A call that goes on to the next n keeps the invariant: its trees are kept, or it has none.
LEMMA NextGramLib ==
    ASSUME ScanInv, LibInv, phase = "trees", broken = Fine, gram \in Grams,
           NEW w \in {"null", "live", "hollow"}, NEW r,
           DOMAIN grams' = Grams, \A n \in Grams : grams'[n] = IF n = gram THEN w ELSE grams[n],
           DOMAIN rctxs' = Grams, \A n \in Grams : rctxs'[n] = IF n = gram THEN r ELSE rctxs[n],
           w = "null" <=> gram \notin DOMAIN conf.grams,
           w = "live" => /\ r = made
                         /\ Len(made) = IF MaxIndex(gram) < 0 THEN 0 ELSE MaxIndex(gram),
           w # "live" => made = <<>>,
           gram' = gram + 1, made' = <<>>,
           UNCHANGED <<tarVars, conf, phase, tar, wordhash, unigrams, weighted, initialized,
                       quitted, broken>>
    PROVE  LibInv'
<1>1. /\ UNCHANGED <<items, archive, current, zeros, bindings, scan>>
      /\ UNCHANGED <<conf, phase, weighted, initialized, quitted, tar, wordhash, unigrams, broken>>
  BY DEF tarVars
<1>2. /\ GramsInv /\ MadeInv /\ WeightedInv /\ TableInv
      /\ ~initialized /\ scan = "done" /\ gram \in Nat
  BY GramsAre DEF LibInv, OpeningInv, PhaseInv, Later
<1>3. PhaseInv'
  BY <1>1 DEF LibInv, PhaseInv, Early, Later
<1>5. GramsInv'
  <2>1. DOMAIN grams' = Grams /\ DOMAIN rctxs' = Grams
    BY <1>2 DEF GramsInv
  <2>2. ASSUME NEW n \in Grams
        PROVE  /\ grams'[n] \in {"null", "live", "hollow"}
               /\ n < gram + 1 => (grams'[n] = "null" <=> n \notin DOMAIN conf.grams)
               /\ n >= gram + 1 => grams'[n] = "null"
               /\ grams'[n] = "live" => TreesOf(n)'
    <3>0. n \in Nat
      BY GramsAre
    <3>1. CASE n = gram
      <4>1. grams'[n] = w /\ rctxs'[n] = r
        BY <1>2, <3>1 DEF GramsInv
      <4>2. w = "live" => TreesOf(n)'
        <5> SUFFICES ASSUME w = "live" PROVE TreesOf(n)'
          OBVIOUS
        <5>1. PICK q : q = made
          OBVIOUS
        <5>2. /\ rctxs'[n] = q /\ MaxIndex(n)' = MaxIndex(n) /\ n \in DOMAIN conf'.grams
              /\ Len(q) = IF MaxIndex(n) < 0 THEN 0 ELSE MaxIndex(n)
          BY <1>1, <3>1, <4>1, <5>1, TreesStay
        <5>3. \A j \in 1..Len(q) : BoundTree(n, j - 1, q[j])
          BY <1>2, <3>1, <5>1 DEF MadeInv
        <5>4. \A j \in 1..Len(q) : BoundTree(n, j - 1, q[j])'
          BY <1>1, <5>3, TreesStay
        <5> QED BY <5>2, <5>4 DEF TreesOf
      <4> QED BY <1>2, <3>0, <3>1, <4>1, <4>2
    <3>2. CASE n # gram
      <4>1. grams'[n] = grams[n] /\ rctxs'[n] = rctxs[n]
        BY <1>2, <3>2 DEF GramsInv
      <4>2. TreesOf(n)' = TreesOf(n)
        BY <1>1, <4>1, TreesOfStay
      <4>3. (n < gram + 1 => n < gram) /\ (n >= gram + 1 => n >= gram)
        BY <1>2, <3>0, <3>2
      <4> QED BY <1>2, <4>1, <4>2, <4>3 DEF GramsInv
    <3> QED BY <3>1, <3>2
  <2> QED BY <1>1, <2>1, <2>2 DEF GramsInv
<1>6. MadeInv'
  <2>1. gram + 1 \in 2..(MaxGram + 1)
    BY GramsAre
  <2>2. Len(<<>>) = 0 /\ <<>> \in Seq({bindings'[name] : name \in DOMAIN bindings'})
    OBVIOUS
  <2> QED BY <2>1, <2>2 DEF MadeInv
<1>7. WeightedInv'
  <2> SUFFICES ASSUME NEW k \in 1..Len(weighted), NEW n, n = weighted[k][1]
               PROVE  /\ n \in Grams /\ n < gram + 1 /\ grams'[n] = "live"
                      /\ weighted[k][2] \in 1..Len(rctxs'[n])
    BY <1>1, <1>2 DEF WeightedInv
  <2>1. CASE n = gram /\ weighted[k][2] \in 1..Len(made)
    <3>1. made # <<>>
      BY <2>1
    <3>2. w = "live" /\ r = made
      BY <3>1
    <3> QED BY <1>2, <2>1, <3>2 DEF GramsInv
  <2>2. CASE n \in Grams /\ n < gram /\ grams[n] = "live" /\ weighted[k][2] \in 1..Len(rctxs[n])
    <3>1. n \in Nat /\ n # gram /\ n < gram + 1
      BY <1>2, <2>2, GramsAre
    <3> QED BY <1>2, <2>2, <3>1 DEF GramsInv
  <2> QED BY <1>2, <2>1, <2>2 DEF WeightedInv
<1>8. TableInv'
  <2>1. PICK g \in Nat : g = gram
    BY <1>2
  <2>2. PICK m : m = Len(made)
    OBVIOUS
  <2>3. Len(weighted) * AssumedLeaves <= MaxSlots * LeavesIn(Opened(g, m))
    BY <1>2, <2>1, <2>2 DEF TableInv
  <2>4. /\ Opened(g + 1, 0) \in SUBSET TreesFound /\ Opened(g, m) \in SUBSET Opened(g + 1, 0)
    BY <1>2, OpenedGrows
  <2>5. LeavesIn(Opened(g, m)) <= LeavesIn(Opened(g + 1, 0))
        /\ LeavesIn(Opened(g, m)) \in Int /\ LeavesIn(Opened(g + 1, 0)) \in Int
    BY <1>2, <2>4, LeavesInIs
  <2>6. Len(weighted) * AssumedLeaves <= MaxSlots * LeavesIn(Opened(g + 1, 0))
    <3>1. Len(weighted) \in Nat
      BY <1>2 DEF WeightedInv
    <3>2. Len(weighted) * AssumedLeaves \in Int
      BY <3>1, LibraryAssumption
    <3> HIDE <2>1
    <3> QED BY <2>3, <2>5, <3>2, ScaledOrder
  <2>7. gram' = g + 1 /\ Len(made') = 0 /\ Len(weighted') = Len(weighted)
    BY <1>1, <2>1
  <2> QED BY <1>1, <2>6, <2>7, TableAt
<1>9. OpeningInv' /\ ReadyInv'
  BY <1>1, <1>2, <1>5, <1>6, <1>7, <1>8 DEF OpeningInv, ReadyInv
<1> QED BY <1>3, <1>9 DEF LibInv

\* The three steps that go on to the next n: it has no location, its array of trees could
\* not be had, or all of its trees are open.
LEMMA GramStepsLib ==
    ASSUME ScanInv, LibInv, SkipGram \/ NoRctxs \/ TreesOpened
    PROVE  LibInv'
<1>1. /\ phase = "trees" /\ broken = Fine /\ gram \in Grams /\ gram' = gram + 1
      /\ UNCHANGED <<tarVars, conf, phase, tar, wordhash, unigrams, weighted, initialized,
                     quitted, broken>>
  BY DEF SkipGram, NoRctxs, TreesOpened, OpenNext, Loading, Running, context, pointers, outside,
         history
<1>2. GramsInv /\ MadeInv /\ scan = "done"
  BY <1>1 DEF LibInv, OpeningInv, PhaseInv, Later
<1>3. CASE SkipGram
  <2>1. gram \notin DOMAIN conf.grams /\ made = <<>> /\ made' = <<>>
    BY <1>2, <1>3 DEF SkipGram, Configured, MadeInv
  <2>2. grams' = grams /\ rctxs' = rctxs /\ grams[gram] = "null"
    <3>1. grams' = grams /\ rctxs' = rctxs
      BY <1>3 DEF SkipGram, context, pointers
    <3>2. gram >= gram
      BY <1>1, GramsAre
    <3> QED BY <1>1, <1>2, <3>1, <3>2 DEF GramsInv
  <2>3. PICK w, r : w = "null" /\ r = rctxs[gram]
    OBVIOUS
  <2>4. /\ DOMAIN grams' = Grams /\ \A n \in Grams : grams'[n] = IF n = gram THEN w ELSE grams[n]
        /\ DOMAIN rctxs' = Grams /\ \A n \in Grams : rctxs'[n] = IF n = gram THEN r ELSE rctxs[n]
    BY <1>2, <2>2, <2>3 DEF GramsInv
  <2> QED BY <1>1, <2>1, <2>3, <2>4, NextGramLib
<1>4. CASE NoRctxs
  <2>1. gram \in DOMAIN conf.grams /\ made = <<>> /\ made' = <<>>
        /\ grams' = [grams EXCEPT ![gram] = "hollow"] /\ rctxs' = rctxs
    BY <1>4 DEF NoRctxs, OpenNext, Configured
  <2>2. PICK w, r : w = "hollow" /\ r = rctxs[gram]
    OBVIOUS
  <2>3. /\ DOMAIN grams' = Grams /\ \A n \in Grams : grams'[n] = IF n = gram THEN w ELSE grams[n]
        /\ DOMAIN rctxs' = Grams /\ \A n \in Grams : rctxs'[n] = IF n = gram THEN r ELSE rctxs[n]
    BY <1>2, <2>1, <2>2 DEF GramsInv
  <2> QED BY <1>1, <2>1, <2>2, <2>3, NextGramLib
<1>5. CASE TreesOpened
  <2>1. /\ gram \in DOMAIN conf.grams /\ made' = <<>> /\ Len(made) >= MaxIndex(gram)
        /\ grams' = [grams EXCEPT ![gram] = "live"] /\ rctxs' = [rctxs EXCEPT ![gram] = made]
    BY <1>5 DEF TreesOpened, OpenNext, Configured
  <2>4. Len(made) = IF MaxIndex(gram) < 0 THEN 0 ELSE MaxIndex(gram)
    <3>1. PICK m \in Nat, x \in Int : m = Len(made) /\ x = MaxIndex(gram)
      BY <1>2, <2>1, FoundIs DEF MadeInv
    <3>2. m = 0 \/ m <= x
      BY <1>2, <3>1 DEF MadeInv
    <3> QED BY <2>1, <3>1, <3>2
  <2>2. PICK w, r : w = "live" /\ r = made
    OBVIOUS
  <2>3. /\ DOMAIN grams' = Grams /\ \A n \in Grams : grams'[n] = IF n = gram THEN w ELSE grams[n]
        /\ DOMAIN rctxs' = Grams /\ \A n \in Grams : rctxs'[n] = IF n = gram THEN r ELSE rctxs[n]
    BY <1>2, <2>1, <2>2 DEF GramsInv
  <2> QED BY <1>1, <2>1, <2>2, <2>3, <2>4, NextGramLib
<1> QED BY <1>3, <1>4, <1>5

\* What a share of the table is, and what that leaves of it.
LEMMA SlotsAre ==
    ASSUME NEW m \in Nat
    PROVE  /\ (m * MaxSlots) \div AssumedLeaves \in Nat
           /\ ((m * MaxSlots) \div AssumedLeaves) * AssumedLeaves <= MaxSlots * m
<1>1. PICK a \in Nat \ {0} : a = AssumedLeaves
  BY LibraryAssumption
<1>2. PICK x \in Nat : x = m * MaxSlots /\ x = MaxSlots * m
  BY LibraryAssumption
<1>3. x \div a \in Nat /\ (x \div a) * a <= x
  OBVIOUS
<1> QED BY <1>1, <1>2, <1>3

\* When the table is full before every tree has its share, the trees have more leaves than
\* the total that the shares are computed from.
LEMMA TableFull ==
    ASSUME NEW k \in Nat, NEW s \in Int, k > MaxSlots, k * AssumedLeaves <= MaxSlots * s
    PROVE  AssumedLeaves < s
<1>1. PICK a \in Nat \ {0} : a = AssumedLeaves
  BY LibraryAssumption
<1>2. PICK m \in Nat : m = MaxSlots
  BY LibraryAssumption
<1>3. SUFFICES ASSUME s <= a PROVE FALSE
  BY <1>1
<1>4. m * a = m * s + m * (a - s) /\ m * (a - s) >= 0
  BY <1>3
<1>5. k * a = m * a + (k - m) * a /\ (k - m) * a > 0
  <2>1. k - m \in Nat \ {0}
    BY <1>2
  <2> QED BY <2>1
<1>6. k * a <= m * s
  BY <1>1, <1>2
<1>7. k * a \in Int /\ m * a \in Int /\ m * s \in Int
  OBVIOUS
<1> QED BY <1>4, <1>5, <1>6, <1>7

\* A tree is opened: it is the one of the next bin, and its share of the table, if that
\* fits, leads to it.
LEMMA OpenTreeLib ==
    ASSUME ScanInv, LibInv, OpenTree
    PROVE  /\ LibInv'
           /\ broken' # Fine => broken' = [what |-> "table", by |-> "init"]
                                /\ AssumedLeaves < LeavesIn(TreesFound)
<1> DEFINE name == TreeName(gram, Len(made))
           b == bindings[name]
           t == <<gram, Len(made)>>
           q == Slots(b)
           mine == [s \in 1..q |-> <<gram, Len(made')>>]
           filled == weighted \o mine
<1>1. /\ phase = "trees" /\ broken = Fine /\ gram \in Grams /\ gram \in DOMAIN conf.grams
      /\ name \in DOMAIN bindings /\ DataAt(b) # <<>> /\ made' = Append(made, b)
      /\ Len(made) < MaxIndex(gram)
      /\ UNCHANGED <<items, archive, current, zeros, bindings, scan>>
      /\ UNCHANGED <<conf, phase, gram, initialized, quitted>>
      /\ UNCHANGED <<tar, wordhash, unigrams, grams, rctxs>>
  BY DEF OpenTree, NextFits, OpenNext, Loading, Running, Configured, pointers, tarVars
<1>2. IF Len(filled) > MaxSlots
      THEN broken' = [what |-> "table", by |-> "init"] /\ weighted' = weighted
      ELSE weighted' = filled /\ broken' = broken
  BY DEF OpenTree, Misuse
<1>3. /\ GramsInv /\ MadeInv /\ WeightedInv /\ TableInv /\ ~initialized /\ scan = "done"
  BY <1>1 DEF LibInv, OpeningInv, PhaseInv, Later
<1>4. PICK g \in Nat : g = gram /\ g \in DOMAIN conf.grams
  BY <1>1, GramsAre
<1>5. PICK m \in Nat : m = Len(made) /\ m < MaxIndex(g)
  BY <1>1, <1>3, <1>4 DEF MadeInv
<1>6. /\ made' \in Seq({bindings[nm] : nm \in DOMAIN bindings}) /\ Len(made') = m + 1
      /\ \A j \in 1..m : made'[j] = made[j]
      /\ made'[m + 1] = b
  <2>1. b \in {bindings[nm] : nm \in DOMAIN bindings}
    BY <1>1
  <2> HIDE DEF b
  <2> QED BY <1>1, <1>3, <1>5, <2>1 DEF MadeInv
<1>7. BoundTree(g, m, b)
  BY <1>1, <1>4, <1>5 DEF BoundTree
<1>8. MadeInv'
  <2>1. /\ gram' \in 2..(MaxGram + 1) /\ gram' \in DOMAIN conf'.grams
        /\ made' \in Seq({bindings'[nm] : nm \in DOMAIN bindings'})
    BY <1>1, <1>3, <1>6 DEF MadeInv
  <2>2. Len(made') <= MaxIndex(gram)'
    <3>1. MaxIndex(g) \in Int
      BY <1>3, <1>4, FoundIs
    <3>2. MaxIndex(gram)' = MaxIndex(g)
      BY <1>1, <1>4 DEF MaxIndex, ToInt, Bins
    <3> QED BY <1>5, <1>6, <3>1, <3>2
  <2>3. ASSUME NEW j \in 1..(m + 1), NEW c, c = made'[j]
        PROVE  BoundTree(g, j - 1, c)'
    <3>1. BoundTree(g, j - 1, c)
      <4>1. CASE j = m + 1
        <5>1. c = b /\ j - 1 = m
          BY <1>6, <2>3, <4>1
        <5> HIDE DEF b
        <5> QED BY <1>7, <5>1
      <4>2. CASE j # m + 1
        <5>1. j \in 1..m /\ c = made[j]
          BY <1>6, <2>3, <4>2
        <5> QED BY <1>3, <1>4, <1>5, <5>1 DEF MadeInv
      <4> QED BY <4>1, <4>2
    <3> QED BY <1>1, <3>1, TreesStay
  <2>4. \A j \in 1..Len(made') : BoundTree(gram, j - 1, made[j])'
    BY <1>1, <1>4, <1>6, <2>3 DEF BoundTree
  <2> QED BY <2>1, <2>2, <2>4 DEF MadeInv
<1>9. PICK l \in Nat : l = LeavesOf(t) /\ q = (l * MaxSlots) \div AssumedLeaves
  <2>1. Leaves[TreeAt(bindings[name]).build] \in Nat
    BY <1>1, <1>3, TreeAtIs
  <2>2. LeavesOf(t) = Leaves[TreeAt(b).build]
    BY DEF LeavesOf
  <2> QED BY <2>1, <2>2 DEF Slots
<1>10. q \in Nat /\ q * AssumedLeaves <= MaxSlots * l
  BY <1>9, SlotsAre
<1>11. /\ filled \in Seq(Nat \X Nat) /\ Len(filled) = Len(weighted) + q
       /\ Len(weighted) \in Nat
       /\ \A r \in 1..Len(weighted) : filled[r] = weighted[r]
       /\ \A r \in 1..q : filled[Len(weighted) + r] = <<g, m + 1>>
  <2>1. mine \in Seq(Nat \X Nat) /\ Len(mine) = q /\ \A r \in 1..q : mine[r] = <<g, m + 1>>
    <3> HIDE DEF q
    <3> QED BY <1>4, <1>6, <1>10
  <2>2. weighted \in Seq(Nat \X Nat)
    BY <1>3 DEF WeightedInv
  <2>3. PICK S, c : S = Nat \X Nat /\ c = filled
    OBVIOUS
  <2>4. weighted \in Seq(S) /\ mine \in Seq(S) /\ c = weighted \o mine
    BY <2>1, <2>2, <2>3
  <2> HIDE DEF filled, mine, q
  <2>5. c \in Seq(S) /\ Len(weighted) \in Nat /\ Len(c) = Len(weighted) + Len(mine)
    BY <2>4, ConcatAt
  <2>6. \A r \in 1..Len(weighted) : c[r] = weighted[r]
    BY <2>4, ConcatAt
  <2>7. \A r \in 1..Len(mine) : c[Len(weighted) + r] = mine[r]
    BY <2>4, ConcatAt
  <2> QED BY <2>1, <2>3, <2>5, <2>6, <2>7
<1>12. /\ t \in TreesFound /\ t \notin Opened(g, m)
       /\ Opened(g, m + 1) = Opened(g, m) \union {t}
  <2>1. t = <<g, m>> /\ m \in 0..(MaxIndex(g) - 1)
    BY <1>3, <1>4, <1>5, FoundIs
  <2>2. t \in TreesFound
    BY <1>3, <1>4, <1>7, <2>1, FoundIs
  <2>3. t[1] = g /\ t[2] = m
    BY <2>1
  <2>4. \A u \in TreesFound : u = <<u[1], u[2]>> /\ u[1] \in Nat /\ u[2] \in Int
    BY <1>3, FoundIs
  <2> HIDE DEF t
  <2>5. t \notin Opened(g, m)
    BY <2>3 DEF Opened
  <2>6. ASSUME NEW u \in TreesFound PROVE u \in Opened(g, m + 1) <=> u \in Opened(g, m) \/ u = t
    <3>1. u = t <=> u[1] = g /\ u[2] = m
      BY <2>1, <2>3, <2>4
    <3> QED BY <2>4, <3>1 DEF Opened
  <2> QED BY <2>2, <2>5, <2>6 DEF Opened
<1>13. /\ LeavesIn(Opened(g, m + 1)) = LeavesIn(Opened(g, m)) + l
       /\ LeavesIn(Opened(g, m)) \in Int
       /\ LeavesIn(Opened(g, m + 1)) \in Int /\ LeavesIn(TreesFound) \in Int
       /\ LeavesIn(Opened(g, m + 1)) <= LeavesIn(TreesFound)
  <2>1. Opened(g, m + 1) \in SUBSET TreesFound /\ Opened(g, m) \in SUBSET Opened(g, m + 1)
    BY <1>12 DEF Opened
  <2> HIDE DEF t
  <2> QED BY <1>3, <1>9, <1>12, <2>1, LeavesInIs
<1>14. /\ Len(filled) \in Nat
       /\ Len(filled) * AssumedLeaves <= MaxSlots * LeavesIn(Opened(g, m + 1))
  <2>1. Len(weighted) * AssumedLeaves <= MaxSlots * LeavesIn(Opened(g, m))
    BY <1>3, <1>4, <1>5 DEF TableInv
  <2>2. PICK a \in Nat, M \in Nat, w \in Nat, x \in Int, p \in Nat :
          a = AssumedLeaves /\ M = MaxSlots /\ w = Len(weighted) /\ x = LeavesIn(Opened(g, m))
          /\ p = q
    BY <1>10, <1>11, <1>13, LibraryAssumption
  <2>3. (w + p) * a = w * a + p * a /\ M * (x + l) = M * x + M * l
    OBVIOUS
  <2>4. w * a <= M * x /\ p * a <= M * l
    BY <1>10, <2>1, <2>2
  <2>5. w * a \in Int /\ p * a \in Int /\ M * x \in Int /\ M * l \in Int
    OBVIOUS
  <2>6. (w + p) * a <= M * (x + l)
    BY <2>3, <2>4, <2>5
  <2> HIDE DEF filled, q
  <2> QED BY <1>11, <1>13, <2>2, <2>6
<1>15. broken' # Fine => broken' = [what |-> "table", by |-> "init"]
                         /\ AssumedLeaves < LeavesIn(TreesFound)
  <2>1. Len(filled) > MaxSlots => AssumedLeaves < LeavesIn(Opened(g, m + 1))
    <3> HIDE DEF filled
    <3> QED BY <1>13, <1>14, TableFull
  <2> HIDE DEF filled
  <2> QED BY <1>1, <1>2, <1>13, <2>1, LibraryAssumption
<1>16. PhaseInv'
  BY <1>1 DEF LibInv, PhaseInv, Early, Later
<1>17. ReadyInv'
  BY <1>1, <1>3 DEF ReadyInv
<1>18. ASSUME broken' = Fine PROVE GramsInv' /\ WeightedInv' /\ TableInv'
  <2>1. weighted' = filled
    BY <1>2, <1>18 DEF Fine
  <2>2. GramsInv'
    <3>1. \A n \in Grams : TreesOf(n)' = TreesOf(n)
      BY <1>1, TreesOfStay
    <3> QED BY <1>1, <1>3, <3>1 DEF GramsInv
  <2>3. WeightedInv'
    <3> SUFFICES ASSUME NEW r \in 1..Len(filled), NEW n, n = filled[r][1]
                 PROVE  \/ /\ n \in Grams /\ n < gram /\ grams[n] = "live"
                           /\ filled[r][2] \in 1..Len(rctxs[n])
                        \/ n = gram /\ filled[r][2] \in 1..Len(made')
      BY <1>1, <1>11, <2>1 DEF WeightedInv
    <3>1. CASE r \in 1..Len(weighted)
      <4>1. filled[r] = weighted[r]
        BY <1>11, <3>1
      <4> HIDE DEF filled
      <4> QED BY <1>3, <1>5, <1>6, <3>1, <4>1 DEF WeightedInv
    <3>2. CASE r \notin 1..Len(weighted)
      <4>1. r - Len(weighted) \in 1..q /\ r = Len(weighted) + (r - Len(weighted))
        <5> HIDE DEF filled, q
        <5> QED BY <1>10, <1>11, <3>2
      <4>2. filled[r] = <<g, m + 1>>
        BY <1>11, <4>1
      <4> HIDE DEF filled
      <4> QED BY <1>4, <1>6, <4>2
    <3> QED BY <3>1, <3>2
  <2>4. TableInv'
    <3>1. gram' = g /\ Len(made') = m + 1
      BY <1>1, <1>4, <1>6
    <3> HIDE DEF filled
    <3> QED BY <1>1, <1>14, <2>1, <3>1, TableAt
  <2> QED BY <2>2, <2>3, <2>4
<1>19. OpeningInv'
  BY <1>8, <1>18 DEF OpeningInv
<1> QED BY <1>15, <1>16, <1>17, <1>19 DEF LibInv

\* A call that has been through every n returns a library that is ready.
LEMMA InitDoneLib ==
    ASSUME ScanInv, LibInv, InitDone
    PROVE  LibInv'
<1>1. /\ phase = "trees" /\ phase' = "idle" /\ broken = Fine /\ gram \notin Grams
      /\ initialized' = TRUE
      /\ UNCHANGED <<items, archive, current, zeros, bindings, scan, conf>>
      /\ UNCHANGED <<tar, wordhash, unigrams, grams, rctxs, weighted, quitted>>
  BY DEF InitDone, Loading, Running, tarVars, context, pointers, history
<1>2. /\ GramsInv /\ MadeInv /\ WeightedInv /\ ~initialized /\ ~quitted
      /\ scan = "done" /\ tar = "live" /\ wordhash = "live" /\ unigrams = "live"
  BY <1>1 DEF LibInv, OpeningInv, PhaseInv, Later
<1>3. gram = MaxGram + 1
  BY <1>1, <1>2, GramsAre DEF MadeInv
<1>4. \A n \in Grams : n < gram
  BY <1>3, GramsAre
<1>5. gram \notin DOMAIN conf.grams /\ made = <<>>
  <2>1. gram \notin DOMAIN conf.grams
    BY <1>1, <1>2, FoundIs
  <2> QED BY <1>2, <2>1 DEF MadeInv
<1>6. \A n : TreesOf(n)' = TreesOf(n)
  BY <1>1, TreesOfStay
<1>7. PhaseInv'
  BY <1>1, <1>2 DEF LibInv, PhaseInv, Early, Later
<1>8. ASSUME NEW r \in 1..Len(weighted)
      PROVE  /\ weighted[r][1] \in Grams /\ grams[weighted[r][1]] = "live"
             /\ weighted[r][2] \in 1..Len(rctxs[weighted[r][1]])
  <2>1. 1..Len(made) = {}
    BY <1>5
  <2>2. LET n == weighted[r][1] IN
        \/ n \in Grams /\ n < gram /\ grams[n] = "live" /\ weighted[r][2] \in 1..Len(rctxs[n])
        \/ n = gram /\ weighted[r][2] \in 1..Len(made)
    BY <1>2 DEF WeightedInv
  <2> QED BY <2>1, <2>2
<1>9. ReadyInv'
  BY <1>1, <1>2, <1>4, <1>6, <1>8 DEF ReadyInv, GramsInv
<1> QED BY <1>1, <1>7, <1>9 DEF LibInv, OpeningInv

\* lib1tquery_quit leaves the sizes and bindings of the trees as they are.
LEMMA QuitLib ==
    ASSUME LibInv, lib1tquery_quit
    PROVE  LibInv'
<1>1. /\ phase = "idle" /\ phase' = "idle" /\ initialized /\ initialized' = initialized
      /\ quitted' = TRUE
      /\ grams' = [n \in Grams |-> IF grams[n] = "null" THEN "null" ELSE "freed"]
      /\ UNCHANGED <<items, archive, current, zeros, bindings, scan, conf>>
      /\ UNCHANGED <<gram, made, rctxs, weighted>>
  BY DEF lib1tquery_quit, Idle, Unchanged, loading, tarVars
<1>2. PhaseInv'
  BY <1>1 DEF LibInv, PhaseInv, Early, Later
<1>3. ReadyInv'
  BY <1>1 DEF LibInv, ReadyInv
<1> QED BY <1>1, <1>2, <1>3 DEF LibInv, OpeningInv

\* The calls of a program, but for the one that opens and the one that frees.
Queries ==
    \/ lib1tquery_dictionary
    \/ \E key \in Asked : lib1tquery_lookup_ngram(Len(key), key)
    \/ \E a \in Ids : lib1tquery_lookup_1gram(a)
    \/ lib1tquery_suspend_tar \/ lib1tquery_reopen_tar
    \/ lib1tquery_test_random_read
    \/ \E n \in Grams : lib1tquery_debug_leafdump(n)

\* They change neither the archive nor the trees.
LEMMA QueriesKeep ==
    ASSUME Queries
    PROVE  /\ UNCHANGED <<tarVars, loading, initialized, pointers, rctxs, weighted, do_mmap, data,
                          quitted>>
           /\ phase = "idle" /\ broken = Fine
<1>1. CASE \E key \in Asked : lib1tquery_lookup_ngram(Len(key), key)
  BY <1>1 DEF lib1tquery_lookup_ngram, Idle, Running, Unchanged, Breaks, Abort, Answer, SearchMap,
              SearchArchive, context, history
<1>2. CASE lib1tquery_suspend_tar \/ lib1tquery_reopen_tar
  BY <1>2 DEF lib1tquery_suspend_tar, lib1tquery_reopen_tar, Idle, Running, Unchanged, Follow,
              Breaks, Abort, context, history, mapping
<1>3. CASE \/ lib1tquery_dictionary \/ (\E a \in Ids : lib1tquery_lookup_1gram(a))
           \/ lib1tquery_test_random_read
           \/ \E n \in Grams : lib1tquery_debug_leafdump(n)
  BY <1>3 DEF lib1tquery_dictionary, lib1tquery_lookup_1gram, lib1tquery_test_random_read,
              lib1tquery_debug_leafdump, Idle, Running, Unchanged, Follow, Breaks, Abort, context
<1> QED BY <1>1, <1>2, <1>3 DEF Queries

\* A step that goes beyond a name or the array of trees ends the call.
LEMMA OpenBeyondLib ==
    ASSUME LibInv, OpenBeyond
    PROVE  LibInv' /\ broken' # Fine
<1>1. broken' # Fine
  BY DEF OpenBeyond, Misuse, Fine
<1>2. UNCHANGED <<tarVars, loading, initialized, pointers, rctxs, weighted, quitted>>
  BY DEF OpenBeyond, context
<1> QED BY <1>1, <1>2, LibStays

\* Every step keeps what is known of the library.
LEMMA NextLib ==
    ASSUME ScanInv, LibInv, [Next]_vars
    PROVE  LibInv'
<1>1. CASE UNCHANGED vars
  BY <1>1, LibStays DEF vars, context, history
<1>2. CASE Queries
  BY <1>2, QueriesKeep, LibStays
<1>3. CASE LoadStops
  BY <1>3, LibStays DEF LoadStops, context
<1>4. CASE Call
  BY <1>2, <1>4, InitCallLib, QuitLib DEF Call, Queries
<1>5. CASE InitStep
  BY <1>5, ScanLib, FailLib, MapLib, InitUnigramsLib, GramStepsLib, OpenTreeLib, OpenBeyondLib,
     InitDoneLib
     DEF InitStep
<1>6. CASE NoArchive \/ LoadFails \/ NoRctxs
  BY <1>6, FailLib, GramStepsLib
<1> QED BY <1>1, <1>3, <1>4, <1>5, <1>6 DEF Next

\* It holds at first, and always.
LEMMA LibInvHolds == Spec => [](ScanInv /\ LibInv)
<1>1. Init => LibInv
  BY DEF Init, TarInit, LibInv, PhaseInv, OpeningInv, ReadyInv, Later, Early, Fresh
<1> QED BY <1>1, ScanInvHolds, NextLib, PTL DEF Spec

-----------------------------------------------------------------------------
\* The words of a key that is asked for have a tree of their n, or could have.
LEMMA AskedIs ==
    ASSUME NEW key \in Asked
    PROVE  Len(key) \in Grams /\ (~Unknown(key) => key \in Keys /\ key \in Seq(Nat))
<1>1. CASE key \in Keys
  BY <1>1, ConfigsAssumption
<1>2. CASE \E k \in Keys : key = [k EXCEPT ![1] = -1]
  <2>1. PICK k \in Keys : key = [k EXCEPT ![1] = -1]
    BY <1>2
  <2>2. k \in Seq(Nat) /\ Len(k) \in Grams /\ Len(k) \in Nat /\ Len(k) >= 2
    BY ConfigsAssumption, GramsAre
  <2>3. Len(key) = Len(k) /\ key[1] = -1
    BY <2>1, <2>2
  <2>4. Unknown(key)
    <3>1. 1 \in 1..Len(key) /\ key[1] < 0
      BY <2>2, <2>3
    <3> QED BY <3>1 DEF Unknown
  <2> QED BY <2>2, <2>3, <2>4
<1> QED BY <1>1, <1>2 DEF Asked

\* What is on record after a step that breaks, aborts or answers.
LEMMA OnRecord ==
    /\ \A what, by : Breaks(what, by) => broken'.what = what /\ broken'.by = by
    /\ Abort => broken' = broken
    /\ \A key, count, warning : Answer(key, count, warning) => broken' = broken
  BY DEF Breaks, Misuse, Abort, Answer, history

\* Among as many trees as there are bins, a key has the one of its bin.
LEMMA IndexIs ==
    ASSUME ScanInv, scan = "done", NEW n \in DOMAIN conf.grams, TreesOf(n),
           Bins(n) \in Nat \ {0}, Countable(Bins(n), n),
           NEW key, LibraryIndex(Bins(n), key) \in 0..(Bins(n)^n - 1)
    PROVE  /\ Len(rctxs[n]) = Bins(n)^n /\ Bins(n)^n \in Int
           /\ IndexOf(n, key) = LibraryIndex(Bins(n), key)
<1>1. Bins(n)^n \in Int
  BY FoundIs
<1>2. MaxIndex(n) = Bins(n)^n /\ MaxIndex(n) \in 0..(IntBound - 1)
  BY <1>1, CountedAre
<1>3. Len(rctxs[n]) = Bins(n)^n
  BY <1>2, LibraryAssumption DEF TreesOf
<1>4. LibraryIndex(Bins(n), key) \in 0..(IntBound - 1)
  BY <1>1, <1>2, LibraryAssumption
<1> QED BY <1>1, <1>3, <1>4, IntIs DEF IndexOf

\* A lookup stays inside such an array.
LEMMA IndexFits ==
    ASSUME ScanInv, LibInv, KeysHaveBins, NEW key \in Asked, NEW n \in Grams, n = Len(key),
           initialized, grams[n] = "live", ~Divides(n, key), ~Unknown(key),
           Countable(Bins(n), n)
    PROVE  ~(IndexOf(n, key) >= Len(rctxs[n]))
<1>1. scan = "done" /\ TreesOf(n) /\ n \in DOMAIN conf.grams
  BY DEF LibInv, ReadyInv, TreesOf
<1>2. key \in Keys /\ key[1] >= 0
  <2>1. key \in Keys /\ key \in Seq(Nat) /\ Len(key) \in Nat /\ Len(key) >= 2
    BY AskedIs, GramsAre
  <2>2. key[1] \in Nat
    BY <2>1
  <2> QED BY <2>1, <2>2
<1>3. Bins(n) \in 1..(HashRange - 1)
  <2>1. Bins(n) # 0
    BY <1>2 DEF Divides
  <2>2. Bins(n) \in 0..(HashRange - 1)
    BY <1>1, FoundIs
  <2> QED BY <2>1, <2>2, HashAssumption
<1>4. LibraryIndex(Bins(n), key) \in 0..(Bins(n)^n - 1)
  BY <1>2, <1>3 DEF KeysHaveBins
<1>5. Bins(n) \in Nat \ {0}
  BY <1>3, HashAssumption
<1>6. /\ Len(rctxs[n]) = Bins(n)^n /\ Bins(n)^n \in Int
      /\ IndexOf(n, key) = LibraryIndex(Bins(n), key)
  BY <1>1, <1>4, <1>5, IndexIs
<1> QED BY <1>4, <1>6

\* The misuses that a query can run into.
LEMMA QueryMisuse ==
    ASSUME ScanInv, LibInv, KeysHaveBins, Queries, broken' # Fine
    PROVE  OnlyKnownMisuse'
<1>1. /\ phase = "idle" /\ broken = Fine
      /\ UNCHANGED <<quitted, initialized, conf, do_mmap, data, weighted, grams>>
  BY QueriesKeep DEF pointers, loading
<1>2. initialized /\ ~quitted =>
        /\ tar = "live" /\ wordhash = "live" /\ unigrams = "live"
        /\ \A n \in Grams : /\ grams[n] \in {"null", "live", "hollow"}
                            /\ grams[n] = "null" => n \notin DOMAIN conf.grams
        /\ \A r \in 1..Len(weighted) : grams[weighted[r][1]] = "live"
  BY DEF LibInv, ReadyInv
<1>3. SUFFICES
        \/ quitted
        \/ ~initialized
           /\ broken'.by \in {"unigram", "suspend", "reopen", "random_read", "leafdump"}
        \/ broken'.what = "hollow" /\ broken'.by \in {"lookup", "leafdump"}
        \/ broken'.what = "null" /\ broken'.by = "leafdump" /\ DOMAIN conf.grams # Grams
        \/ broken'.what = "null" /\ broken'.by = "mapped_lookup" /\ do_mmap /\ ~data
        \/ broken'.what = "layout" /\ \E n \in DOMAIN conf.grams : n # NgramSize
        \/ broken'.what = "index" /\ \E id \in Ids : id >= conf.words
        \/ broken'.what = "array" /\ \E n \in DOMAIN conf.grams : ~Countable(Bins(n), n)
        \/ /\ broken'.what = "division" /\ broken'.by = "lookup"
           /\ \E n \in DOMAIN conf.grams : Bins(n) = 0
        \/ broken'.what = "division" /\ broken'.by = "random_read" /\ weighted = <<>>
  BY <1>1 DEF OnlyKnownMisuse, Bins
<1>4. CASE lib1tquery_dictionary
  <2>1. initialized /\ wordhash # "live"
    BY <1>1, <1>4, OnRecord DEF lib1tquery_dictionary, Follow
  <2> QED BY <1>2, <2>1
<1>5. CASE \E a \in Ids : lib1tquery_lookup_1gram(a)
  <2>1. PICK a \in Ids : lib1tquery_lookup_1gram(a)
    BY <1>5
  <2>2. \/ unigrams # "live" /\ broken'.by = "unigram"
        \/ broken'.what = "index" /\ a >= conf.words
    BY <2>1, OnRecord DEF lib1tquery_lookup_1gram, Follow
  <2> QED BY <1>2, <2>2
<1>6. CASE lib1tquery_suspend_tar \/ lib1tquery_reopen_tar
  <2>1. tar # "live" /\ broken'.by \in {"suspend", "reopen"}
    BY <1>1, <1>6, OnRecord DEF lib1tquery_suspend_tar, lib1tquery_reopen_tar, Follow, history
  <2> QED BY <1>2, <2>1
<1>7. CASE lib1tquery_test_random_read
  <2>1. CASE weighted = <<>> /\ Breaks("division", "random_read")
    BY <2>1, OnRecord
  <2>2. CASE \E r \in 1..Len(weighted) :
               grams[weighted[r][1]] # "live" /\ Breaks("freed", "random_read")
    <3>1. broken'.by = "random_read" /\ \E r \in 1..Len(weighted) : grams[weighted[r][1]] # "live"
      BY <2>2, OnRecord
    <3> QED BY <1>2, <3>1
  <2> QED BY <1>7, <2>1, <2>2 DEF lib1tquery_test_random_read
<1>8. CASE \E n \in Grams : lib1tquery_debug_leafdump(n)
  <2>1. PICK n \in Grams : \E p : /\ p = (IF grams[n] = "live" THEN tar ELSE grams[n])
                                  /\ p # "live" /\ Breaks(p, "leafdump")
    BY <1>8 DEF lib1tquery_debug_leafdump, Follow
  <2>2. PICK p : /\ p = (IF grams[n] = "live" THEN tar ELSE grams[n])
                 /\ p # "live" /\ Breaks(p, "leafdump")
    BY <2>1
  <2>3. broken'.what = p /\ broken'.by = "leafdump"
    BY <2>2, OnRecord
  <2>4. CASE initialized /\ ~quitted
    <3>1. p \in {"null", "hollow"} /\ (p = "null" => n \notin DOMAIN conf.grams)
      BY <1>2, <2>2, <2>4
    <3> QED BY <2>3, <3>1
  <2> QED BY <2>3, <2>4
<1>9. CASE \E key \in Asked : lib1tquery_lookup_ngram(Len(key), key)
  <2>1. PICK key \in Asked : lib1tquery_lookup_ngram(Len(key), key)
    BY <1>9
  <2>2. PICK n \in Grams : n = Len(key) /\ n \in Nat
    BY AskedIs, GramsAre
  <2>3. ASSUME initialized, grams[n] = "live", SearchMap(n, key, Rctx(n, key))
        PROVE  \/ broken'.what = "null" /\ broken'.by = "mapped_lookup" /\ ~data
               \/ broken'.what = "layout" /\ \E k \in DOMAIN conf.grams : k # NgramSize
    <3>1. ~SameLayout(n) => n # NgramSize
      BY <2>2, MappedLayout
    <3>2. n \in DOMAIN conf.grams
      BY <2>3 DEF LibInv, ReadyInv
    <3>4. \/ ~data /\ Breaks("null", "mapped_lookup")
          \/ ~SameLayout(n) /\ Breaks("layout", "mapped_lookup")
      BY <1>1, <2>3, OnRecord DEF SearchMap
    <3> QED BY <3>1, <3>2, <3>4, OnRecord
  <2>4. ~SearchArchive(n, key, Rctx(n, key))
    BY <1>1, OnRecord DEF SearchArchive
  <2>5. /\ Idle
        /\ \/ ~initialized /\ Abort
           \/ initialized /\ grams[n] = "null" /\ Abort
           \/ initialized /\ grams[n] = "freed" /\ Breaks("freed", "lookup")
           \/ /\ initialized /\ grams[n] \in {"live", "hollow"}
              /\ \/ Divides(n, key) /\ Breaks("division", "lookup")
                 \/ ~Divides(n, key) /\ Unknown(key) /\ Answer(key, 0, FALSE)
                 \/ /\ ~Divides(n, key) /\ ~Unknown(key)
                    /\ grams[n] = "hollow" /\ Breaks("hollow", "lookup")
                 \/ /\ ~Divides(n, key) /\ ~Unknown(key) /\ grams[n] = "live"
                    /\ IF IndexOf(n, key) >= Len(rctxs[n]) THEN Breaks("array", "lookup")
                       ELSE IF do_mmap
                       THEN SearchMap(n, key, Rctx(n, key))
                       ELSE SearchArchive(n, key, Rctx(n, key))
    BY <2>1, <2>2 DEF lib1tquery_lookup_ngram
  <2>6. \/ initialized /\ grams[n] = "freed"
        \/ broken'.what = "hollow" /\ broken'.by = "lookup"
        \/ initialized /\ grams[n] = "live" /\ do_mmap /\ SearchMap(n, key, Rctx(n, key))
        \/ /\ initialized /\ grams[n] \in {"live", "hollow"} /\ Divides(n, key)
           /\ broken'.what = "division" /\ broken'.by = "lookup"
        \/ /\ initialized /\ grams[n] = "live" /\ ~Divides(n, key) /\ ~Unknown(key)
           /\ IndexOf(n, key) >= Len(rctxs[n]) /\ broken'.what = "array"
    BY <1>1, <2>4, <2>5, OnRecord
  <2>7. initialized /\ grams[n] \in {"live", "hollow"} => n \in DOMAIN conf.grams
    BY DEF LibInv, ReadyInv
  <2>8. Divides(n, key) => Bins(n) = 0
    BY DEF Divides
  <2>9. ASSUME initialized, grams[n] = "live", ~Divides(n, key), ~Unknown(key),
               Countable(Bins(n), n)
        PROVE  ~(IndexOf(n, key) >= Len(rctxs[n]))
    BY <2>2, <2>7, <2>9, IndexFits
  <2> QED BY <1>2, <2>3, <2>6, <2>7, <2>8, <2>9
<1> QED BY <1>4, <1>5, <1>6, <1>7, <1>8, <1>9 DEF Queries

\* The ones that lib1tquery_init can run into: a digit or a place that is not there.
LEMMA BeyondMisuse ==
    ASSUME ScanInv, LibInv, OpenBeyond
    PROVE  OnlyKnownMisuse'
<1>1. /\ phase = "trees" /\ broken = Fine /\ gram \in DOMAIN conf.grams /\ conf' = conf
      /\ Len(made) < MaxIndex(gram)
  BY DEF OpenBeyond, OpenNext, Loading, Running, Configured, loading
<1>2. scan = "done" /\ MadeInv
  BY <1>1 DEF LibInv, OpeningInv, PhaseInv, Later
<1>3. SUFFICES \/ /\ broken'.what = "array"
                  /\ \E n \in DOMAIN conf.grams : ~Countable(Bins(n), n)
               \/ /\ broken'.what = "digits"
                  /\ \E n \in DOMAIN conf.grams : conf.grams[n].prefix > n
  BY <1>1 DEF OnlyKnownMisuse, Bins
<1>4. CASE conf.grams[gram].prefix > gram
  BY <1>1, <1>4 DEF OpenBeyond, Misuse
<1>5. CASE ~(conf.grams[gram].prefix > gram)
  <2>1. broken'.what = "array" /\ Len(made) >= Room(gram)
    BY <1>5 DEF OpenBeyond, Misuse
  <2>2. Len(made) \in Nat /\ MaxIndex(gram) \in Int
    BY <1>1, <1>2, FoundIs DEF MadeInv
  <2>3. Bins(gram) # 0
    BY <1>1, <2>2 DEF MaxIndex
  <2>4. Bins(gram) \in Nat \ {0} /\ Bins(gram)^gram \in Int
    BY <1>1, <1>2, <2>3, FoundIs, HashAssumption
  <2>5. ~Countable(Bins(gram), gram)
    BY <1>1, <2>1, <2>2, <2>4, CountedAre
  <2> QED BY <1>1, <2>1, <2>5
<1> QED BY <1>4, <1>5

\* A misuse ends the behaviour, and none but the known ones come up.
LEMMA MisuseStep ==
    ASSUME ScanInv, LibInv, KeysHaveBins, OnlyKnownMisuse, [Next]_vars
    PROVE  OnlyKnownMisuse'
<1> SUFFICES ASSUME broken' # Fine PROVE OnlyKnownMisuse'
  BY DEF OnlyKnownMisuse
<1>1. CASE UNCHANGED vars
  <2>1. /\ UNCHANGED <<items, archive, bindings, conf, broken>>
        /\ UNCHANGED <<quitted, initialized, do_mmap, data, weighted>>
    BY <1>1 DEF vars, tarVars, loading, context, history
  <2>2. LeavesFound' = LeavesFound
    BY <2>1, TreesStay DEF LeavesFound
  <2>3. /\ Ids' = Ids /\ \A n : Bins(n)' = Bins(n)
        /\ (\E n \in DOMAIN conf.grams : ~Countable(Bins(n), n))' =
             (\E n \in DOMAIN conf.grams : ~Countable(Bins(n), n))
    BY <2>1 DEF Bins, Ids, Countable
  <2> QED BY <2>1, <2>2, <2>3 DEF OnlyKnownMisuse
<1>2. CASE Queries
  BY <1>2, QueryMisuse
<1>3. CASE lib1tquery_quit
  BY <1>3 DEF lib1tquery_quit, OnlyKnownMisuse
<1>4. CASE OpenTree
  <2>1. /\ UNCHANGED <<items, archive, bindings, conf>>
        /\ broken' = [what |-> "table", by |-> "init"] /\ AssumedLeaves < LeavesIn(TreesFound)
    BY <1>4, OpenTreeLib DEF OpenTree, tarVars
  <2>2. LeavesFound' = LeavesFound
    BY <2>1, TreesStay DEF LeavesFound
  <2> QED BY <2>1, <2>2 DEF OnlyKnownMisuse, LeavesFound, LeavesIn
<1>5. CASE NoArchive \/ LoadFails
  BY <1>5, FailLib
<1>6. CASE \/ InitCall \/ Scan \/ Map \/ ReadWords \/ InitUnigrams \/ SkipGram \/ TreesOpened
           \/ InitDone \/ LoadStops \/ NoRctxs
  BY <1>6 DEF InitCall, Scan, Map, ReadWords, InitUnigrams, SkipGram, TreesOpened, InitDone,
              LoadStops, NoRctxs, OpenNext, Loading, Idle, Running, outside, history
<1>7. CASE OpenBeyond
  BY <1>7, BeyondMisuse
<1> QED BY <1>1, <1>2, <1>3, <1>4, <1>5, <1>6, <1>7 DEF Next, Call, InitStep, Queries

\* Whatever the archives, the calls and the settings that lib1tquery_init takes -- no bins,
\* more than there are letters or than an int can count, any prefix and any
\* unigrams:size -- a bad pointer is followed, and a table left, in the known ways only.
\* That the indices of the keys are below the number of bins is the arithmetic of powers,
\* which the provers have no facts about.
THEOREM MisusesKnown == Spec /\ KeysHaveBins => []OnlyKnownMisuse
<1>1. Init => OnlyKnownMisuse
  BY DEF Init, OnlyKnownMisuse
<1>2. KeysHaveBins /\ [Next]_vars => KeysHaveBins'
  BY DEF KeysHaveBins
<1> QED BY <1>1, <1>2, LibInvHolds, MisuseStep, PTL DEF Spec

-----------------------------------------------------------------------------
(* A ready library and its answers                                          *)

\* What the names and the hashes have to do with the settings of a configuration: every
\* bin's file is looked for under the name it was packed under, every key has a bin.
SettingsMeet ==
    \A c \in Configs : \A n \in DOMAIN c.grams : Regular(c.grams[n], n) =>
      LET g == c.grams[n] IN
      /\ \A j \in 0..(g.bins^n - 1) :
           MemberName(BuilderName(g.dir, Digits(g.bins, n, j), g.prefix)) =
             LibraryName(g.dir, Digits(g.bins, n, j), g.prefix)
      /\ \A key \in Keys : Len(key) = n => LibraryIndex(g.bins, key) \in 0..(g.bins^n - 1)

\* It is part of what is asked of the names before the first call.
LEMMA MeetInSettings == Init /\ NamesMeet => SettingsMeet
<1> SUFFICES ASSUME conf = NoConfig, NamesMeet,
                    NEW c \in Configs, NEW n \in DOMAIN c.grams, NEW g, g = c.grams[n],
                    Regular(g, n)
             PROVE  /\ \A j \in 0..(g.bins^n - 1) :
                         MemberName(BuilderName(g.dir, Digits(g.bins, n, j), g.prefix)) =
                           LibraryName(g.dir, Digits(g.bins, n, j), g.prefix)
                    /\ \A key \in Keys :
                         Len(key) = n => LibraryIndex(g.bins, key) \in 0..(g.bins^n - 1)
  BY DEF Init, SettingsMeet
<1>1. /\ n \in Grams /\ g.bins \in 1..LettersEnd /\ g.prefix \in 0..n
      /\ g.bins \in 1..(HashRange - 1)
  <2>1. n \in Grams /\ g.bins \in 0..(HashRange - 1) /\ g.prefix \in Nat
    BY ConfigsAssumption
  <2>2. n \in Nat
    BY <2>1, GramsAre
  <2>3. LettersEnd \in Int /\ HashRange \in Nat
    BY HashAssumption DEF LettersEnd
  <2> QED BY <2>1, <2>2, <2>3 DEF Regular
<1>2. g.dir \in UNION {{k.grams[m].dir : m \in DOMAIN k.grams} : k \in Configs}
  <2>1. g.dir \in {c.grams[m].dir : m \in DOMAIN c.grams}
    OBVIOUS
  <2> QED BY <2>1
<1>3. NamedApart(g.dir, g.bins, n, g.prefix)
  BY <1>1, <1>2 DEF NamesMeet
<1>4. \A key \in Keys : LibraryIndex(g.bins, key) \in 0..(g.bins^Len(key) - 1)
  BY <1>1 DEF NamesMeet, KeysHaveBins
<1> QED BY <1>3, <1>4 DEF NamedApart

\* The tree that a lookup goes to is the one the builder put the key in, and that bin's.
LEMMA LookupFinds ==
    ASSUME ScanInv, LibInv, SettingsMeet, initialized, NEW n \in DOMAIN conf.grams,
           Sound(n), grams[n] = "live", NEW key \in Keys, Len(key) = n
    PROVE  /\ TreeAt(Rctx(n, key)) = BuiltTree(n, key)
           /\ TreeAt(Rctx(n, key)).bin = BuilderIndex(Bins(n), key)
<1>1. scan = "done" /\ n \in Grams /\ TreesOf(n)
  <2>1. scan = "done"
    BY DEF LibInv, ReadyInv
  <2>2. n \in Grams
    BY <2>1, FoundIs
  <2> QED BY <2>1, <2>2 DEF LibInv, ReadyInv
<1>2. conf \in Configs /\ items = conf.items
  BY <1>1 DEF ScanInv
<1>3. PICK g : g = conf.grams[n] /\ Regular(g, n)
  BY DEF Sound
<1>4. PICK j \in 0..(g.bins^n - 1) : j = LibraryIndex(g.bins, key) /\ j = BuilderIndex(g.bins, key)
  <2>1. LibraryIndex(g.bins, key) = BuilderIndex(g.bins, key)
    BY DEF LibraryIndex, BuilderIndex
  <2>2. LibraryIndex(g.bins, key) \in 0..(g.bins^n - 1)
    BY <1>2, <1>3 DEF SettingsMeet
  <2> QED BY <2>1, <2>2
<1>5. PICK name : name = TreeName(n, j)
  OBVIOUS
<1>6. name = MemberName(BuilderName(g.dir, Digits(g.bins, n, j), g.prefix))
  BY <1>2, <1>3, <1>4, <1>5 DEF TreeName, Bins, SettingsMeet
<1>7. PICK b : b = Rctx(n, key) /\ BoundTree(n, j, b)
  <2>0. g.bins \in Nat \ {0} /\ Countable(g.bins, n)
    BY <1>3, HashAssumption DEF Regular, LettersEnd
  <2>1. /\ g.bins^n \in Int /\ Len(rctxs[n]) = g.bins^n
        /\ IndexOf(n, key) = LibraryIndex(g.bins, key)
    BY <1>1, <1>3, <1>4, <2>0, IndexIs DEF Bins
  <2>2. j + 1 \in 1..Len(rctxs[n]) /\ (j + 1) - 1 = j
    BY <1>4, <2>1
  <2>3. BoundTree(n, (j + 1) - 1, rctxs[n][j + 1])
    BY <1>1, <2>2 DEF TreesOf
  <2>4. Rctx(n, key) = rctxs[n][j + 1]
    BY <1>4, <2>1 DEF Rctx
  <2> QED BY <2>2, <2>3, <2>4
<1>8. name \in DOMAIN bindings /\ b = bindings[name] /\ DataAt(bindings[name]) # <<>>
  BY <1>5, <1>7 DEF BoundTree
<1>9. PICK i \in 1..Len(items) :
        /\ i = Latest(name) /\ items[i].kind = "member" /\ items[i].name = name
        /\ TreeAt(b) = items[i].holds
  BY <1>1, <1>8, TreeAtIs
<1>10. BuiltTree(n, key) = items[i].holds
  BY <1>3, <1>4, <1>6, <1>9 DEF BuiltTree
<1>11. items[i].holds.bin = j
  BY <1>2, <1>3, <1>4, <1>6, <1>9, PackedAssumption
<1> QED BY <1>3, <1>4, <1>7, <1>9, <1>10, <1>11 DEF Bins

\* What is known of the library, from what is known of the call.
LEMMA CompleteIs == ScanInv /\ LibInv /\ SettingsMeet => ReadyMeansComplete
<1> SUFFICES ASSUME ScanInv, LibInv, SettingsMeet, initialized
             PROVE  /\ \A n \in Grams : grams[n] = "null" <=> n \notin DOMAIN conf.grams
                    /\ \A n \in DOMAIN conf.grams : Sound(n) /\ grams[n] = "live" =>
                         /\ Len(rctxs[n]) = Bins(n)^n
                         /\ \A key \in Keys :
                              Len(key) = n => TreeAt(Rctx(n, key)) = BuiltTree(n, key)
                    /\ \A r \in 1..Len(weighted) :
                         weighted[r][2] \in 1..Len(rctxs[weighted[r][1]])
  BY DEF ReadyMeansComplete
<1>1. /\ scan = "done"
      /\ \A n \in Grams : (grams[n] = "null" <=> n \notin DOMAIN conf.grams)
                          /\ (grams[n] = "live" => TreesOf(n))
      /\ \A r \in 1..Len(weighted) : weighted[r][2] \in 1..Len(rctxs[weighted[r][1]])
  BY DEF LibInv, ReadyInv
<1>2. ASSUME NEW n \in DOMAIN conf.grams, Sound(n), grams[n] = "live"
      PROVE  /\ Len(rctxs[n]) = Bins(n)^n
             /\ \A key \in Keys : Len(key) = n => TreeAt(Rctx(n, key)) = BuiltTree(n, key)
  <2>1. TreesOf(n)
    BY <1>1, <1>2, FoundIs
  <2>2. Bins(n) \in Nat \ {0} /\ Countable(Bins(n), n)
    BY <1>2, HashAssumption DEF Sound, Regular, Bins, LettersEnd
  <2>3. Bins(n)^n \in Int
    BY <1>1, <2>2, FoundIs
  <2>4. MaxIndex(n) = Bins(n)^n /\ MaxIndex(n) \in 0..(IntBound - 1)
    BY <2>2, <2>3, CountedAre
  <2>5. Len(rctxs[n]) = Bins(n)^n
    BY <2>1, <2>4, LibraryAssumption DEF TreesOf
  <2> QED BY <1>2, <2>5, LookupFinds
<1> QED BY <1>1, <1>2

\* If the builder and the library name the files alike, a library that says it is ready
\* has every tree of every n that is configured soundly, each the one of its bin,
\* whatever the archive has.
THEOREM ReadyComplete == Spec /\ NamesMeet => []ReadyMeansComplete
<1>1. SettingsMeet /\ [Next]_vars => SettingsMeet'
  BY DEF SettingsMeet
<1> QED BY <1>1, MeetInSettings, LibInvHolds, CompleteIs, PTL DEF Spec

-----------------------------------------------------------------------------
\* Lookups answer a ready library only, and right.
AnswerInv == asked # <<>> => initialized /\ AnswersRight

\* An answer of a lookup.
LEMMA LookupAnswers ==
    ASSUME ScanInv, LibInv, SettingsMeet, NEW key \in Asked,
           lib1tquery_lookup_ngram(Len(key), key), ~UNCHANGED answers
    PROVE  /\ initialized /\ asked' = key
           /\ Sound(Len(key)) /\ (do_mmap => Len(key) = NgramSize) =>
                reply' = IF Unknown(key) \/ warned' THEN 0
                         ELSE Counts[BuiltTree(Len(key), key).build][key]
<1>1. PICK n \in Grams : n = Len(key) /\ n \in Nat
  BY AskedIs, GramsAre
<1>2. /\ ~Abort /\ \A what, by : ~Breaks(what, by)
  BY DEF Abort, Breaks
<1>3. /\ initialized
      /\ \/ Unknown(key) /\ Answer(key, 0, FALSE)
         \/ /\ ~Unknown(key) /\ grams[n] = "live"
            /\ IF do_mmap
               THEN SearchMap(n, key, Rctx(n, key))
               ELSE SearchArchive(n, key, Rctx(n, key))
  BY <1>1, <1>2 DEF lib1tquery_lookup_ngram
<1>4. CASE Unknown(key) /\ Answer(key, 0, FALSE)
  BY <1>3, <1>4 DEF Answer
<1>5. CASE ~Unknown(key) /\ grams[n] = "live"
           /\ IF do_mmap THEN SearchMap(n, key, Rctx(n, key))
              ELSE SearchArchive(n, key, Rctx(n, key))
  <2>1. key \in Keys /\ n \in DOMAIN conf.grams
    BY <1>3, <1>5, AskedIs DEF LibInv, ReadyInv
  <2>2. PICK c : c = CountIn(TreeAt(Rctx(n, key)), Bins(n), key)
    OBVIOUS
  <2>3. Sound(n) => c = Counts[BuiltTree(n, key).build][key]
    BY <1>1, <1>3, <1>5, <2>1, <2>2, LookupFinds DEF CountIn
  <2>4. \/ Answer(key, c, FALSE)
        \/ Answer(key, 0, TRUE)
        \/ /\ do_mmap /\ ~SameLayout(n)
           /\ \E garbage \in AllCounts \union {0} : Answer(key, garbage, FALSE)
    BY <1>2, <1>5, <2>2 DEF SearchMap, SearchArchive
  <2>5. ~SameLayout(n) => n # NgramSize
    BY <1>1, MappedLayout
  <2> QED BY <1>1, <1>3, <1>5, <2>3, <2>4, <2>5 DEF Answer
<1> QED BY <1>3, <1>4, <1>5

\* While the library is ready its archive and its settings stay.
LEMMA ReadyStays ==
    ASSUME LibInv, initialized, [Next]_vars
    PROVE  UNCHANGED <<tarVars, conf, do_mmap, initialized>>
<1>1. phase = "idle"
  BY DEF LibInv, PhaseInv
<1>2. CASE UNCHANGED vars
  BY <1>2 DEF vars, loading, context
<1>3. CASE Queries
  BY <1>3, QueriesKeep DEF loading
<1>4. CASE lib1tquery_quit
  BY <1>4 DEF lib1tquery_quit, Unchanged, loading
<1>5. ~InitCall
  BY DEF InitCall
<1>6. ~(InitStep \/ NoArchive \/ LoadFails \/ LoadStops \/ NoRctxs)
  BY <1>1 DEF InitStep, Scan, NoArchive, Map, ReadWords, InitUnigrams, SkipGram, OpenTree,
              OpenBeyond, NextFits, LoadFails, LoadStops, NoRctxs, TreesOpened, InitDone,
              OpenNext, Loading
<1> QED BY <1>2, <1>3, <1>4, <1>5, <1>6 DEF Next, Call, Queries

\* Only a lookup changes the answer.
LEMMA OthersKeepAnswers ==
    ASSUME [Next]_vars, ~UNCHANGED answers
    PROVE  \E key \in Asked : lib1tquery_lookup_ngram(Len(key), key)
<1>1. ~UNCHANGED vars
  BY DEF vars
<1>2. CASE lib1tquery_suspend_tar \/ lib1tquery_reopen_tar
  BY <1>2 DEF lib1tquery_suspend_tar, lib1tquery_reopen_tar, Follow, Breaks, Abort
<1>3. CASE \/ lib1tquery_dictionary \/ (\E a \in Ids : lib1tquery_lookup_1gram(a))
           \/ lib1tquery_test_random_read
           \/ (\E n \in Grams : lib1tquery_debug_leafdump(n)) \/ lib1tquery_quit
  BY <1>3 DEF lib1tquery_dictionary, lib1tquery_lookup_1gram, lib1tquery_test_random_read,
              lib1tquery_debug_leafdump, lib1tquery_quit, Follow, Breaks, Abort
<1>4. ~(InitCall \/ InitStep \/ NoArchive \/ LoadFails \/ LoadStops \/ NoRctxs)
  BY DEF InitCall, InitStep, Scan, NoArchive, Map, ReadWords, InitUnigrams, SkipGram, OpenTree,
         OpenBeyond, LoadFails, LoadStops, NoRctxs, TreesOpened, InitDone, Fail, outside
<1> QED BY <1>1, <1>2, <1>3, <1>4 DEF Next, Call

\* Every step keeps the answer right.
LEMMA AnswerStep ==
    ASSUME ScanInv, LibInv, SettingsMeet, AnswerInv, [Next]_vars
    PROVE  AnswerInv'
<1>1. ASSUME initialized
      PROVE  /\ UNCHANGED <<items, archive, bindings, conf, do_mmap, initialized>>
             /\ \A n, key : BuiltTree(n, key)' = BuiltTree(n, key)
             /\ \A n : Sound(n)' = Sound(n)
  <2>1. UNCHANGED <<items, archive, bindings, conf, do_mmap, initialized>>
    BY <1>1, ReadyStays DEF tarVars
  <2> QED BY <2>1, TreesStay DEF BuiltTree, Sound
<1>2. CASE UNCHANGED answers
  <2> SUFFICES ASSUME asked # <<>> PROVE initialized' /\ AnswersRight'
    BY <1>2 DEF AnswerInv, answers
  <2>1. initialized /\ AnswersRight
    BY DEF AnswerInv
  <2>2. UNCHANGED <<asked, reply, warned>> /\ UNCHANGED <<do_mmap, initialized>>
    BY <1>1, <1>2, <2>1 DEF answers
  <2>3. BuiltTree(Len(asked), asked)' = BuiltTree(Len(asked), asked)
    <3>1. PICK key, n : key = asked /\ n = Len(asked)
      OBVIOUS
    <3>2. BuiltTree(n, key)' = BuiltTree(n, key)
      BY <1>1, <2>1
    <3> QED BY <2>2, <3>1, <3>2 DEF BuiltTree
  <2>4. Unknown(asked)' = Unknown(asked)
    BY <2>2 DEF Unknown
  <2>5. Sound(Len(asked))' = Sound(Len(asked))
    BY <1>1, <2>1, <2>2 DEF Sound
  <2> QED BY <2>1, <2>2, <2>3, <2>4, <2>5 DEF AnswersRight
<1>3. CASE ~UNCHANGED answers
  <2>1. PICK key \in Asked : lib1tquery_lookup_ngram(Len(key), key)
    BY <1>3, OthersKeepAnswers
  <2>2. /\ initialized /\ asked' = key
        /\ Sound(Len(key)) /\ (do_mmap => Len(key) = NgramSize) =>
             reply' = IF Unknown(key) \/ warned' THEN 0
                      ELSE Counts[BuiltTree(Len(key), key).build][key]
    BY <1>3, <2>1, LookupAnswers
  <2>3. BuiltTree(Len(asked), asked)' = BuiltTree(Len(key), key)
    <3>1. BuiltTree(Len(key), key)' = BuiltTree(Len(key), key)
      BY <1>1, <2>2
    <3> QED BY <2>2, <3>1 DEF BuiltTree
  <2>4. Unknown(asked)' = Unknown(key)
    BY <2>2 DEF Unknown
  <2>5. do_mmap' = do_mmap /\ initialized'
    BY <1>1, <2>2
  <2>6. Sound(Len(asked))' = Sound(Len(key))
    BY <1>1, <2>2 DEF Sound
  <2> QED BY <2>2, <2>3, <2>4, <2>5, <2>6 DEF AnswerInv, AnswersRight
<1> QED BY <1>2, <1>3

\* If the builder and the library name the files alike, a lookup of an n that is configured
\* soundly gives the count that was built, or says that it could not read; the mapping
\* gives it for n-grams of NGRAM_SIZE.
THEOREM AnswersAreRight == Spec /\ NamesMeet => []AnswersRight
<1>1. Init => AnswerInv
  BY DEF Init, AnswerInv
<1>2. SettingsMeet /\ [Next]_vars => SettingsMeet'
  BY DEF SettingsMeet
<1>3. AnswerInv => AnswersRight
  BY DEF AnswerInv, AnswersRight
<1> QED BY <1>1, <1>2, <1>3, MeetInSettings, LibInvHolds, AnswerStep, PTL DEF Spec

=============================================================================
