---------------------------- MODULE SemifileProofs ----------------------------
(***************************************************************************)
(* A semifile is a plain stream: its buffer is tight (BufferTight), and    *)
(* every step of Semifile maps to a step of StreamFile, for every buffer   *)
(* size, every block and every outcome of the openings.                    *)
(***************************************************************************)
EXTENDS Semifile, SequenceTheorems, TLAPS

-----------------------------------------------------------------------------
(* Blocks written over a file                                              *)

\* What a file is once a block is written over it: its length and every cell.
LEMMA OverCells ==
    ASSUME NEW f \in Seq(Nat), NEW p \in Nat, NEW d \in Seq(Nat), d # <<>>
    PROVE  /\ Over(f, p, d) \in Seq(Nat)
           /\ Len(Over(f, p, d)) = IF Len(f) > p + Len(d) THEN Len(f) ELSE p + Len(d)
           /\ \A x \in 1..Len(Over(f, p, d)) : Over(f, p, d)[x] =
                IF x > p /\ x <= p + Len(d) THEN d[x - p]
                ELSE IF x <= Len(f) THEN f[x] ELSE 0
<1> DEFINE m == IF Len(f) > p + Len(d) THEN Len(f) ELSE p + Len(d)
           e(x) == IF x > p /\ x <= p + Len(d) THEN d[x - p]
                   ELSE IF x <= Len(f) THEN f[x] ELSE 0
<1>1. m \in Nat /\ Len(f) \in Nat /\ Len(d) \in Nat
  OBVIOUS
<1>2. ASSUME NEW x \in 1..m PROVE e(x) \in Nat
  <2>1. CASE x > p /\ x <= p + Len(d)
    <3>1. x - p \in 1..Len(d)
      BY <1>1, <2>1
    <3>2. d[x - p] \in Nat
      BY <3>1, ElementOfSeq
    <3> QED BY <2>1, <3>2
  <2>2. CASE ~(x > p /\ x <= p + Len(d))
    BY <1>1, <2>2, ElementOfSeq
  <2> QED BY <2>1, <2>2
<1>3. Over(f, p, d) = [x \in 1..m |-> e(x)]
  BY DEF Over
<1> HIDE DEF m, e
<1>4. [x \in 1..m |-> e(x)] \in Seq(Nat)
  BY <1>1, <1>2, IsASeq
<1>5. Len([x \in 1..m |-> e(x)]) = m
  BY <1>1
<1>6. \A x \in 1..m : [y \in 1..m |-> e(y)][x] = e(x)
  OBVIOUS
<1> QED BY <1>3, <1>4, <1>5, <1>6 DEF m, e

\* Writing nothing changes nothing.
LEMMA OverNothing ==
    ASSUME NEW f, NEW p
    PROVE  Over(f, p, <<>>) = f
  BY DEF Over

\* A file with something written over it is a file.
LEMMA OverType ==
    ASSUME NEW f \in Seq(Nat), NEW p \in Nat, NEW d \in Seq(Nat)
    PROVE  Over(f, p, d) \in Seq(Nat)
  BY OverCells, OverNothing

\* g is f with the block d over it, from p to q.
IsOver(g, f, p, q, d) ==
    /\ g \in Seq(Nat) /\ Len(g) \in Nat
    /\ Len(g) = IF d # <<>> /\ q > Len(f) THEN q ELSE Len(f)
    /\ \A x \in 1..Len(g) : g[x] =
          IF x > p /\ x <= q THEN d[x - p] ELSE IF x <= Len(f) THEN f[x] ELSE 0

\* The same for every block, empty or not, with the place where it ends named.
LEMMA OverAt ==
    ASSUME NEW f \in Seq(Nat), NEW p \in Nat, NEW d \in Seq(Nat), NEW q \in Nat,
           q = p + Len(d)
    PROVE  IsOver(Over(f, p, d), f, p, q, d)
<1>1. Len(f) \in Nat /\ Len(d) \in Nat
  OBVIOUS
<1>2. CASE d = <<>>
  <2>1. Len(d) = 0 /\ Over(f, p, d) = f
    BY <1>2, OverNothing
  <2> QED BY <2>1, <1>1, <1>2 DEF IsOver
<1>3. CASE d # <<>>
  <2> DEFINE g == Over(f, p, d)
  <2>1. /\ g \in Seq(Nat)
        /\ Len(g) = IF Len(f) > p + Len(d) THEN Len(f) ELSE p + Len(d)
        /\ \A x \in 1..Len(g) : g[x] =
              IF x > p /\ x <= p + Len(d) THEN d[x - p]
              ELSE IF x <= Len(f) THEN f[x] ELSE 0
    BY <1>3, OverCells
  <2> HIDE DEF g
  <2>2. IsOver(g, f, p, q, d)
    BY <2>1, <1>1, <1>3 DEF IsOver
  <2> QED BY <2>2 DEF g
<1> QED BY <1>2, <1>3

\* The beginning of a block.
LEMMA Beginning ==
    ASSUME NEW d \in Seq(Nat), NEW n \in 0..Len(d)
    PROVE  /\ SubSeq(d, 1, n) \in Seq(Nat)
           /\ Len(SubSeq(d, 1, n)) = n
           /\ \A x \in 1..n : SubSeq(d, 1, n)[x] = d[x]
           /\ n = 0 => SubSeq(d, 1, n) = <<>>
           /\ n > 0 => SubSeq(d, 1, n) # <<>>
           /\ n = Len(d) => SubSeq(d, 1, n) = d
<1>1. \A x \in 1..n : d[x] \in Nat
  BY ElementOfSeq
<1>2. /\ SubSeq(d, 1, n) \in Seq(Nat)
      /\ Len(SubSeq(d, 1, n)) = n
      /\ \A x \in 1..n : SubSeq(d, 1, n)[x] = d[x]
  BY <1>1, SubSeqProperties
<1>3. n = 0 => SubSeq(d, 1, n) = <<>>
  BY <1>2, EmptySeq
<1>4. n > 0 => SubSeq(d, 1, n) # <<>>
  BY <1>2
<1>5. n = Len(d) => SubSeq(d, 1, n) = d
  BY <1>2, SeqEqual
<1> QED BY <1>2, <1>3, <1>4, <1>5

\* Two blocks written one behind the other are one block.
LEMMA OverBehind ==
    ASSUME NEW f \in Seq(Nat), NEW p \in Nat, NEW b \in Seq(Nat), NEW d \in Seq(Nat),
           d # <<>>
    PROVE  Over(f, p, Over(b, Len(b), d)) = Over(Over(f, p, b), p + Len(b), d)
<1> DEFINE bd == Over(b, Len(b), d)
           g == Over(f, p, b)
<1>1. /\ bd \in Seq(Nat) /\ Len(bd) = Len(b) + Len(d)
      /\ \A x \in 1..Len(bd) : bd[x] = IF x > Len(b) THEN d[x - Len(b)] ELSE b[x]
  <2>1. Len(b) \in Nat /\ Len(d) \in Nat \ {0}
    BY EmptySeq
  <2>2. /\ bd \in Seq(Nat) /\ Len(bd) = Len(b) + Len(d)
        /\ \A x \in 1..Len(bd) : bd[x] =
              IF x > Len(b) /\ x <= Len(b) + Len(d) THEN d[x - Len(b)]
              ELSE IF x <= Len(b) THEN b[x] ELSE 0
    BY <2>1, OverCells
  <2> HIDE DEF bd
  <2> QED BY <2>1, <2>2
<1>2. /\ g \in Seq(Nat)
      /\ Len(g) = IF b = <<>> THEN Len(f)
                  ELSE IF Len(f) > p + Len(b) THEN Len(f) ELSE p + Len(b)
      /\ \A x \in 1..Len(g) : g[x] =
            IF x > p /\ x <= p + Len(b) THEN b[x - p]
            ELSE IF x <= Len(f) THEN f[x] ELSE 0
  <2>1. CASE b = <<>>
    BY <2>1, OverNothing
  <2>2. CASE b # <<>>
    BY <2>2, OverCells
  <2> QED BY <2>1, <2>2
<1>3. Len(b) \in Nat /\ Len(d) \in Nat \ {0} /\ Len(f) \in Nat
  BY EmptySeq
<1> HIDE DEF bd, g
<1>4. bd # <<>>
  BY <1>1, <1>3
<1> DEFINE l == Over(f, p, bd)
           r == Over(g, p + Len(b), d)
<1>5. /\ l \in Seq(Nat)
      /\ Len(l) = IF Len(f) > p + Len(bd) THEN Len(f) ELSE p + Len(bd)
      /\ \A x \in 1..Len(l) : l[x] =
            IF x > p /\ x <= p + Len(bd) THEN bd[x - p]
            ELSE IF x <= Len(f) THEN f[x] ELSE 0
  BY <1>1, <1>4, OverCells
<1>6. /\ r \in Seq(Nat)
      /\ Len(r) = IF Len(g) > p + Len(b) + Len(d) THEN Len(g) ELSE p + Len(b) + Len(d)
      /\ \A x \in 1..Len(r) : r[x] =
            IF x > p + Len(b) /\ x <= p + Len(b) + Len(d) THEN d[x - (p + Len(b))]
            ELSE IF x <= Len(g) THEN g[x] ELSE 0
  <2> DEFINE q == p + Len(b)
  <2>1. q \in Nat
    BY <1>3
  <2> HIDE DEF q
  <2>2. Over(g, q, d) \in Seq(Nat) /\ g \in Seq(Nat)
    BY <2>1, <1>2, OverType
  <2>3. Len(Over(g, q, d)) = IF Len(g) > q + Len(d) THEN Len(g) ELSE q + Len(d)
    BY <2>1, <1>2, OverCells
  <2>4. \A x \in 1..Len(Over(g, q, d)) : Over(g, q, d)[x] =
            IF x > q /\ x <= q + Len(d) THEN d[x - q]
            ELSE IF x <= Len(g) THEN g[x] ELSE 0
    BY <2>1, <1>2, OverCells
  <2> QED BY <2>2, <2>3, <2>4 DEF q
<1> HIDE DEF l, r
<1>7. Len(l) = Len(r)
  <2>1. Len(bd) = Len(b) + Len(d) /\ Len(g) \in Nat
    BY <1>1, <1>2
  <2>2. CASE b = <<>>
    <3>1. Len(b) = 0 /\ Len(g) = Len(f)
      BY <2>2, <1>2
    <3> QED BY <3>1, <2>1, <1>3, <1>5, <1>6
  <2>3. CASE b # <<>>
    <3>1. Len(g) = IF Len(f) > p + Len(b) THEN Len(f) ELSE p + Len(b)
      BY <2>3, <1>2
    <3> QED BY <3>1, <2>1, <1>3, <1>5, <1>6
  <2> QED BY <2>2, <2>3
<1>8. ASSUME NEW x \in 1..Len(l) PROVE l[x] = r[x]
  <2>1. x \in Nat /\ Len(bd) = Len(b) + Len(d) /\ Len(g) \in Nat
    BY <1>1, <1>2, <1>5
  <2>2. l[x] = IF x > p /\ x <= p + Len(bd) THEN bd[x - p]
               ELSE IF x <= Len(f) THEN f[x] ELSE 0
    BY <1>5
  <2>3. r[x] = IF x > p + Len(b) /\ x <= p + Len(b) + Len(d) THEN d[x - (p + Len(b))]
               ELSE IF x <= Len(g) THEN g[x] ELSE 0
    BY <1>6, <1>7
  <2>4. x <= Len(g) => g[x] = IF x > p /\ x <= p + Len(b) THEN b[x - p]
                              ELSE IF x <= Len(f) THEN f[x] ELSE 0
    BY <1>2, <2>1
  <2>5. x > p /\ x <= p + Len(bd) =>
            bd[x - p] = IF x - p > Len(b) THEN d[(x - p) - Len(b)] ELSE b[x - p]
    <3>1. x > p /\ x <= p + Len(bd) => x - p \in 1..Len(bd)
      BY <1>1, <2>1
    <3> QED BY <3>1, <1>1
  <2>6. (x - p) - Len(b) = x - (p + Len(b))
    BY <1>3, <2>1
  <2>7. x > p /\ x <= p + Len(b) => x <= Len(g)
    BY <1>2, <1>3, <2>1
  <2>8. x <= Len(f) => x <= Len(g)
    BY <1>2, <1>3, <2>1
  <2>9. CASE x > p + Len(b) /\ x <= p + Len(b) + Len(d)
    <3>1. x > p /\ x <= p + Len(bd) /\ x - p > Len(b)
      BY <2>1, <2>9, <1>3
    <3> QED BY <3>1, <2>2, <2>3, <2>5, <2>6, <2>9
  <2>10. CASE x > p /\ x <= p + Len(b)
    <3>1. x <= p + Len(bd) /\ ~(x - p > Len(b)) /\ ~(x > p + Len(b))
      BY <2>1, <2>10, <1>3
    <3> QED BY <3>1, <2>2, <2>3, <2>4, <2>5, <2>7, <2>10
  <2>11. CASE ~(x > p /\ x <= p + Len(b) + Len(d))
    <3>1. /\ ~(x > p /\ x <= p + Len(bd)) /\ ~(x > p /\ x <= p + Len(b))
          /\ ~(x > p + Len(b) /\ x <= p + Len(b) + Len(d))
      BY <2>1, <2>11, <1>3
    <3>2. x <= Len(g) => x <= Len(f) \/ g[x] = 0
      BY <3>1, <2>4
    <3> QED BY <3>1, <3>2, <2>2, <2>3, <2>4, <2>8
  <2> QED BY <2>1, <2>9, <2>10, <2>11, <1>3
<1>9. l = r
  BY <1>5, <1>6, <1>7, <1>8, SeqEqual
<1> QED BY <1>9 DEF l, r, bd, g

\* What a failed flush and a failed write left of their blocks does not show under
\* the buffer: `part' is the beginning of the buffer b, s what was written behind it.
LEMMA OverRepaired ==
    ASSUME NEW f \in Seq(Nat), NEW p \in Nat, NEW b \in Seq(Nat), b # <<>>,
           NEW m \in 0..Len(b), NEW s \in Seq(Nat)
    PROVE  Over(Over(Over(f, p, SubSeq(b, 1, m)), p + Len(b), s), p, b)
                = Over(Over(f, p, b), p + Len(b), s)
<1> DEFINE q == p + Len(b)
           t == q + Len(s)
           c == SubSeq(b, 1, m)
           h == Over(f, p, c)
           hs == Over(h, q, s)
           g == Over(f, p, b)
           l == Over(hs, p, b)
           r == Over(g, q, s)
<1>1. /\ Len(b) \in Nat \ {0} /\ Len(f) \in Nat /\ Len(s) \in Nat /\ q \in Nat
      /\ m \in Nat /\ m <= Len(b) /\ t \in Nat
      /\ (s # <<>> => Len(s) > 0) /\ (s = <<>> => Len(s) = 0)
  BY EmptySeq
<1>2. c \in Seq(Nat) /\ Len(c) = m /\ (m = 0 <=> c = <<>>)
  BY Beginning
<1> HIDE DEF c
<1>3. IsOver(h, f, p, p + m, c)
  <2>1. p + m \in Nat /\ p + m = p + Len(c)
    BY <1>1, <1>2
  <2> QED BY <1>2, <2>1, OverAt
<1>4. IsOver(g, f, p, q, b)
  BY <1>1, OverAt
<1> HIDE DEF h, g
<1>5. /\ h \in Seq(Nat) /\ Len(h) >= Len(f) /\ Len(h) \in Nat
      /\ (Len(f) >= q => Len(h) = Len(f)) /\ (Len(f) <= q => Len(h) <= q)
      /\ \A x \in 1..Len(h) : x > q => h[x] = f[x]
      /\ \A x \in 1..Len(h) : x <= p => h[x] = IF x <= Len(f) THEN f[x] ELSE 0
  <2>1. Len(h) \in Nat /\ Len(h) = IF c # <<>> /\ p + m > Len(f) THEN p + m ELSE Len(f)
    BY <1>3 DEF IsOver
  <2>2. p + m <= q
    BY <1>1 DEF q
  <2>3. ASSUME NEW x \in 1..Len(h), x > q PROVE h[x] = f[x]
    <3>1. ~(x <= p + m) /\ x <= Len(f)
      BY <1>1, <2>1, <2>2, <2>3
    <3> QED BY <3>1, <1>3 DEF IsOver
  <2>4. ASSUME NEW x \in 1..Len(h), x <= p
        PROVE  h[x] = IF x <= Len(f) THEN f[x] ELSE 0
    <3>1. ~(x > p)
      BY <2>4
    <3> QED BY <3>1, <1>3 DEF IsOver
  <2>5. h \in Seq(Nat)
    BY <1>3 DEF IsOver
  <2>6. Len(f) \in Nat /\ p + m \in Nat /\ q \in Nat
    BY <1>1
  <2>7. /\ Len(h) >= Len(f)
        /\ (Len(f) >= q => Len(h) = Len(f)) /\ (Len(f) <= q => Len(h) <= q)
    BY <2>1, <2>2, <2>6
  <2> QED BY <2>1, <2>3, <2>4, <2>5, <2>7
<1>6. g \in Seq(Nat) /\ Len(g) \in Nat /\ Len(g) = IF q > Len(f) THEN q ELSE Len(f)
  BY <1>4 DEF IsOver
<1>7. IsOver(hs, h, q, t, s)
  BY <1>1, <1>5, OverAt
<1>8. IsOver(r, g, q, t, s)
  BY <1>1, <1>6, OverAt
<1> HIDE DEF hs, r
<1>9. hs \in Seq(Nat) /\ Len(hs) \in Nat
      /\ Len(hs) = IF s # <<>> /\ t > Len(h) THEN t ELSE Len(h)
  BY <1>7 DEF IsOver
<1>10. r \in Seq(Nat) /\ Len(r) \in Nat
      /\ Len(r) = IF s # <<>> /\ t > Len(g) THEN t ELSE Len(g)
  BY <1>8 DEF IsOver
<1>11. IsOver(l, hs, p, q, b)
  BY <1>1, <1>9, OverAt
<1> HIDE DEF l
<1>12. l \in Seq(Nat) /\ Len(l) \in Nat /\ Len(l) = IF q > Len(hs) THEN q ELSE Len(hs)
  BY <1>11 DEF IsOver
<1>13. p \in Nat /\ q \in Nat /\ t \in Nat /\ t >= q /\ p <= q /\ (s # <<>> <=> t > q)
  <2>1. q \in Nat /\ p <= q /\ t \in Nat
    BY <1>1
  <2> HIDE DEF q
  <2>2. t >= q /\ (Len(s) > 0 <=> t > q)
    BY <1>1, <2>1
  <2> QED BY <1>1, <2>1, <2>2
<1> HIDE DEF t, q
<1>14. /\ Len(f) \in Nat /\ Len(h) \in Nat /\ Len(g) \in Nat /\ Len(hs) \in Nat
       /\ Len(l) \in Nat /\ Len(r) \in Nat
       /\ (Len(f) >= q => Len(h) = Len(f)) /\ (Len(f) <= q => Len(h) <= q)
       /\ Len(g) = IF q > Len(f) THEN q ELSE Len(f)
       /\ Len(hs) = IF t > q /\ t > Len(h) THEN t ELSE Len(h)
       /\ Len(r) = IF t > q /\ t > Len(g) THEN t ELSE Len(g)
       /\ Len(l) = IF q > Len(hs) THEN q ELSE Len(hs)
       /\ p \in Nat /\ q \in Nat /\ t \in Nat /\ t >= q /\ p <= q
  BY <1>1, <1>5, <1>6, <1>9, <1>10, <1>12, <1>13
<1>15. Len(l) = Len(r)
  BY <1>14
<1>16. ASSUME NEW x \in 1..Len(l) PROVE l[x] = r[x]
  <2>1. x \in Nat /\ x > 0
    BY <1>12
  <2>2. l[x] = IF x > p /\ x <= q THEN b[x - p] ELSE IF x <= Len(hs) THEN hs[x] ELSE 0
    BY <1>11 DEF IsOver
  <2>3. r[x] = IF x > q /\ x <= t THEN s[x - q] ELSE IF x <= Len(g) THEN g[x] ELSE 0
    BY <1>8, <1>15 DEF IsOver
  <2>4. x <= Len(g) => g[x] = IF x > p /\ x <= q THEN b[x - p]
                              ELSE IF x <= Len(f) THEN f[x] ELSE 0
    BY <1>4, <1>6, <2>1 DEF IsOver
  <2>5. x <= Len(hs) => hs[x] = IF x > q /\ x <= t THEN s[x - q]
                                ELSE IF x <= Len(h) THEN h[x] ELSE 0
    BY <1>7, <1>9, <2>1 DEF IsOver
  <2>6. x <= Len(h) => (x > q => h[x] = f[x])
                       /\ (x <= p => h[x] = IF x <= Len(f) THEN f[x] ELSE 0)
    BY <1>5, <2>1
  <2>7. CASE x <= p
    <3>1. x <= Len(g) /\ ~(x > q) /\ ~(x > p)
      BY <2>1, <2>7, <1>1, <1>6, <1>13
    <3>2. x <= Len(f) => x <= Len(h) /\ x <= Len(hs)
      <4>1. Len(h) \in Nat /\ Len(h) >= Len(f) /\ Len(f) \in Nat
        BY <1>1, <1>5
      <4>2. Len(hs) \in Nat /\ Len(hs) >= Len(h)
        BY <1>9, <1>13, <4>1
      <4> QED BY <2>1, <4>1, <4>2
    <3> QED BY <3>1, <3>2, <2>2, <2>3, <2>4, <2>5, <2>6, <2>7
  <2>8. CASE x > p /\ x <= q
    <3>1. x <= Len(g) /\ ~(x > q)
      BY <2>1, <2>8, <1>1, <1>6
    <3> QED BY <2>2, <2>3, <2>4, <2>8, <3>1
  <2>9. CASE x > q /\ x <= t
    <3>1. x <= Len(hs) /\ ~(x <= q)
      BY <2>1, <2>9, <1>1, <1>9, <1>13
    <3> QED BY <2>2, <2>3, <2>5, <2>9, <3>1
  <2>10. CASE x > q /\ x > t
    <3>1. ~(x <= q) /\ ~(x <= t)
      BY <2>1, <2>10, <1>1
    <3>2. x <= Len(hs) /\ x <= Len(h) /\ x <= Len(f) /\ x <= Len(g)
      BY <2>1, <3>1, <1>14
    <3> QED BY <2>2, <2>3, <2>4, <2>5, <2>6, <2>10, <3>1, <3>2
  <2> QED BY <2>1, <2>7, <2>8, <2>9, <2>10, <1>1
<1>17. l = r
  BY <1>10, <1>12, <1>15, <1>16, SeqEqual
<1> QED BY <1>17 DEF l, r, hs, h, g, q, c

-----------------------------------------------------------------------------
(* The inductive invariant                                                 *)

\* The file and the buffer hold cells, the positions are offsets.
SemiTyped ==
    /\ disk \in Seq(Nat)
    /\ buffer \in Seq(Nat)
    /\ buffer_pos \in Nat
    /\ offset \in Nat
    /\ trusted \in BOOLEAN
    /\ open \in BOOLEAN

SemiInv == SemiTyped /\ BufferTight

\* What a flush may leave is a file, and one of the possible files is the right one.
LEMMA FlushedFiles ==
    ASSUME SemiTyped
    PROVE  /\ Flushed \in Seq(Nat)
           /\ \A file \in MaybeFlushed : file \in Seq(Nat)
<1>1. Flushed \in Seq(Nat)
  BY OverType DEF SemiTyped, Flushed
<1>2. ASSUME NEW n \in 0..Len(buffer)
      PROVE  Over(disk, buffer_pos, SubSeq(buffer, 1, n)) \in Seq(Nat)
  BY Beginning, OverType DEF SemiTyped
<1> QED BY <1>1, <1>2 DEF MaybeFlushed

\* The initial state satisfies the invariant.
LEMMA SemiInit == Init => SemiInv
  BY SemifileAssumption, EmptySeq DEF Init, SemiInv, SemiTyped, BufferTight

\* Every call keeps it, whatever its openings do.
LEMMA SemiStep ==
    ASSUME SemiInv, [Next]_vars
    PROVE  SemiInv'
<1> USE DEF SemiInv
<1>1. /\ Len(disk) \in Nat /\ Len(buffer) \in Nat /\ Tell \in Nat
      /\ Flushed \in Seq(Nat) /\ BufferSize \in Nat \ {0} /\ <<>> \in Seq(Nat) /\ Len(<<>>) = 0
      /\ \A file \in MaybeFlushed : file \in Seq(Nat) /\ Len(file) \in Nat
  BY FlushedFiles, SemifileAssumption, EmptySeq DEF SemiTyped, Tell
<1>2. ASSUME NEW d \in Blocks
      PROVE  d \in Seq(Nat) /\ Len(d) \in Nat \ {0} /\ d # <<>>
  BY SemifileAssumption, EmptySeq
<1>3. ASSUME NEW d \in Blocks, WriteBuffered(d) PROVE SemiInv'
  <2>1. /\ buffer' = Over(buffer, Len(buffer), d) /\ offset' = Len(buffer) + Len(d)
        /\ BufferSize - Len(buffer) >= Len(d)
    BY <1>3 DEF WriteBuffered, BufferTight, Fits
  <2>2. buffer' \in Seq(Nat) /\ Len(buffer') = Len(buffer) + Len(d)
    BY <1>1, <1>2, <2>1, OverCells DEF SemiTyped
  <2> QED BY <1>1, <1>2, <1>3, <2>1, <2>2
          DEF WriteBuffered, CanWrite, Gave, SemiTyped, BufferTight
<1>4. ASSUME NEW d \in Blocks, WriteAfterFlush(d) PROVE SemiInv'
  BY <1>1, <1>2, <1>4
     DEF WriteAfterFlush, CanWrite, Fits, Gave, Believes, SemiTyped, BufferTight
<1>5. ASSUME NEW d \in Blocks, NEW file \in Seq(Nat), NEW n \in 0..Len(d)
      PROVE  Over(file, Tell, SubSeq(d, 1, n)) \in Seq(Nat)
  BY <1>1, <1>2, Beginning, OverType
<1>6. ASSUME NEW d \in Blocks, WriteThrough(d) PROVE SemiInv'
  <2>1. disk' \in Seq(Nat) /\ trusted' \in BOOLEAN
    BY <1>1, <1>5, <1>6 DEF WriteThrough
  <2> QED BY <1>1, <1>2, <1>6, <2>1
          DEF WriteThrough, Direct, CanWrite, Gave, SemiTyped, BufferTight
<1>7. ASSUME NEW d \in Blocks, WriteThroughFails(d) PROVE SemiInv'
  <2>1. trusted' \in BOOLEAN /\ open' \in BOOLEAN /\ open'
    BY <1>7, Zenon DEF WriteThroughFails, Direct, CanWrite, Gave, Misled, SemiTyped
  <2>2. /\ disk' \in Seq(Nat) /\ buffer' = <<>> /\ buffer_pos' \in Nat /\ offset' = 0
    BY <1>1, <1>7 DEF WriteThroughFails, Direct
  <2> QED BY <1>1, <2>1, <2>2 DEF SemiTyped, BufferTight
<1>8. ASSUME NEW d \in Blocks, WriteThroughCut(d) PROVE SemiInv'
  <2>1. disk' \in Seq(Nat) /\ trusted' \in BOOLEAN
    <3>1. PICK file \in MaybeFlushed, n \in 0..(Len(d)-1) :
            disk' = Over(file, Tell, SubSeq(d, 1, n)) /\ Believes(file)
      BY <1>8 DEF WriteThroughCut
    <3>2. n \in 0..Len(d)
      BY <1>2
    <3> QED BY <1>1, <1>5, <3>1, <3>2 DEF Believes
  <2> QED BY <1>1, <1>8, <2>1
          DEF WriteThroughCut, Direct, CanWrite, Gave, SemiTyped, BufferTight
<1>9. ASSUME NEW d \in Blocks, WriteBothFlushesFail(d) PROVE SemiInv'
  <2>1. disk' \in Seq(Nat)
    BY <1>1, <1>5, <1>9 DEF WriteBothFlushesFail
  <2>2. trusted' \in BOOLEAN /\ open' \in BOOLEAN /\ open'
    BY <1>9, Zenon DEF WriteBothFlushesFail, CanWrite, Gave, Misled, SemiTyped
  <2>3. buffer_pos' \in Nat /\ UNCHANGED <<buffer, offset>>
    BY <1>1, <1>2, <1>9 DEF WriteBothFlushesFail, SemiTyped
  <2> QED BY <2>1, <2>2, <2>3 DEF SemiTyped, BufferTight
<1>10. ASSUME NEW n \in Sizes, Read(n) PROVE SemiInv'
  <2>1. Tell + n \in Nat
    BY <1>1, SemifileAssumption
  <2>2. trusted' \in BOOLEAN /\ open' \in BOOLEAN /\ open'
    BY <1>10, Zenon DEF Read, FlushAll, Gave, Believes, SemiTyped
  <2>3. /\ disk' \in Seq(Nat) /\ buffer' = <<>> /\ buffer_pos' \in Nat /\ offset' = 0
    BY <1>1, <1>10, <2>1 DEF Read, FlushAll
  <2> QED BY <1>1, <2>2, <2>3 DEF SemiTyped, BufferTight
<1>11. ASSUME ReadFails PROVE SemiInv'
  <2>1. trusted' \in BOOLEAN /\ open' \in BOOLEAN /\ open'
    BY <1>11, Zenon DEF ReadFails, FlushAll, Gave, Misled, SemiTyped
  <2>2. /\ disk' \in Seq(Nat) /\ buffer_pos' \in Nat
        /\ \/ UNCHANGED <<buffer, offset>>
           \/ buffer' = <<>> /\ offset' = 0
    BY <1>1, <1>11 DEF ReadFails, FlushAll, SemiTyped
  <2>3. CASE UNCHANGED <<buffer, offset>>
    BY <2>1, <2>2, <2>3 DEF SemiTyped, BufferTight
  <2>4. CASE buffer' = <<>> /\ offset' = 0
    BY <1>1, <2>1, <2>2, <2>4 DEF SemiTyped, BufferTight
  <2> QED BY <2>2, <2>3, <2>4
<1>12. ASSUME NEW o \in Offsets, Seek(o) PROVE SemiInv'
  BY <1>1, <1>12, SemifileAssumption
     DEF Seek, FlushAll, Gave, Believes, SemiTyped, BufferTight
<1>13. ASSUME SeekEnd PROVE SemiInv'
  BY <1>1, <1>13 DEF SeekEnd, FlushAll, Gave, Believes, SemiTyped, BufferTight
<1>14. ASSUME FlushRefused PROVE SemiInv'
  BY <1>1, <1>14 DEF FlushRefused, Gave, SemiTyped, BufferTight
<1>15. ASSUME SeekEndFails PROVE SemiInv'
  BY <1>1, <1>15 DEF SeekEndFails, FlushAll, Gave, Believes, SemiTyped, BufferTight
<1>16. ASSUME Close PROVE SemiInv'
  <2>1. trusted' \in BOOLEAN /\ open' \in BOOLEAN
    BY <1>16, Zenon DEF Close, FlushAll, Believes, SemiTyped
  <2>2. /\ disk' \in Seq(Nat) /\ buffer' = <<>> /\ buffer_pos' \in Nat /\ offset' = 0
    BY <1>1, <1>16 DEF Close, FlushAll
  <2> QED BY <1>1, <2>1, <2>2 DEF SemiTyped, BufferTight
<1>17. ASSUME UNCHANGED vars PROVE SemiInv'
  BY <1>17 DEF vars, SemiTyped, BufferTight
<1> QED BY <1>3, <1>4, <1>6, <1>7, <1>8, <1>9, <1>10, <1>11, <1>12, <1>13, <1>14,
           <1>15, <1>16, <1>17 DEF Next

\* The invariant holds in every behaviour.
LEMMA SemiInvariance == Spec => []SemiInv
  BY SemiInit, SemiStep, PTL DEF Spec

\* Without SEEK_CUR the position in the buffer is always at its end, the buffer
\* never overflows and a closed semifile holds nothing back: what `buffer_pos +=
\* offset' in semifile_flush and the memcpy of semifile_fwrite rely on.
THEOREM BufferIsTight == Spec => []BufferTight
  BY SemiInvariance, PTL DEF SemiInv

-----------------------------------------------------------------------------
(* The refinement                                                          *)

\* The content a reader of the stream is promised: the file with the buffer over it.
LEMMA SameOverlay ==
    ASSUME NEW f, NEW p, NEW d
    PROVE  Stream!Overlay(f, p, d) = Over(f, p, d)
  BY DEF Stream!Overlay, Over

\* A semifile starts as an empty stream.
LEMMA StreamInit == Init => Stream!Init
  BY OverNothing DEF Init, Stream!Init, Tell

\* Every step of a semifile is a step of the stream, or one that misleads the caller.
LEMMA StreamStep ==
    ASSUME SemiInv, [Next]_vars
    PROVE  [Stream!Next]_(Stream!streamVars)
<1> DEFINE content == Over(disk, buffer_pos, buffer)
<1> SUFFICES ASSUME trusted' # FALSE, Next
             PROVE  Stream!Next
  <2>1. CASE UNCHANGED vars
    BY <2>1 DEF vars, Stream!streamVars, Tell
  <2> QED BY <2>1 DEF Stream!Next
<1>1. /\ Tell \in Nat /\ Tell = buffer_pos + Len(buffer) /\ Flushed = content
      /\ content \in Seq(Nat) /\ offset = Len(buffer)
      /\ disk \in Seq(Nat) /\ buffer \in Seq(Nat) /\ buffer_pos \in Nat
  BY FlushedFiles DEF SemiInv, SemiTyped, BufferTight, Tell, Flushed
<1>2. ASSUME NEW d \in Blocks PROVE d \in Seq(Nat) /\ d # <<>> /\ Len(d) \in Nat
  BY SemifileAssumption
<1>3. \A file : Believes(file) => trusted /\ trusted' = trusted /\ file = content
  BY <1>1 DEF Believes, SemiInv, SemiTyped
<1>4. ASSUME NEW file, NEW p PROVE Over(file, p, <<>>) = file
  BY OverNothing
<1>5. ASSUME NEW d \in Blocks, WriteBuffered(d) PROVE Stream!Next
  <2>1. Over(disk, buffer_pos, Over(buffer, Len(buffer), d)) = Over(content, Tell, d)
    BY <1>1, <1>2, OverBehind
  <2>2. Tell' = Tell + Len(d)
    BY <1>1, <1>2, <1>5 DEF WriteBuffered, Tell
  <2>3. trusted
    BY <1>5, Zenon DEF WriteBuffered, SemiInv, SemiTyped
  <2>4. Stream!Write(d)
    BY <1>1, <1>5, <2>1, <2>2, SameOverlay DEF WriteBuffered, Gave, Stream!Write, Stream!Gave
  <2> QED BY <2>3, <2>4 DEF Stream!Next
<1>6. ASSUME NEW d \in Blocks, WriteAfterFlush(d) PROVE Stream!Next
  <2>1. trusted /\ UNCHANGED trusted /\ disk' = content
    BY <1>3, <1>6, Zenon DEF WriteAfterFlush
  <2>2. Over(disk', buffer_pos', buffer') = Over(content, Tell, d)
    BY <1>6, <2>1 DEF WriteAfterFlush
  <2>3. Tell' = Tell + Len(d)
    BY <1>1, <1>2, <1>6 DEF WriteAfterFlush, Tell
  <2>4. Stream!Write(d)
    BY <1>6, <2>1, <2>2, <2>3, SameOverlay DEF WriteAfterFlush, Gave, Stream!Write, Stream!Gave
  <2> QED BY <2>1, <2>4 DEF Stream!Next
<1>7. ASSUME NEW d \in Blocks, WriteThrough(d) PROVE Stream!Next
  <2>1. PICK file \in MaybeFlushed, n \in 0..Len(d) :
            /\ disk' = Over(file, Tell, SubSeq(d, 1, n))
            /\ trusted' = (trusted /\ file = Flushed /\ n = Len(d))
    BY <1>7 DEF WriteThrough
  <2>2. trusted /\ UNCHANGED trusted /\ file = content /\ n = Len(d)
    BY <1>1, <2>1 DEF SemiInv, SemiTyped
  <2>3. disk' = Over(content, Tell, d)
    BY <1>2, <2>1, <2>2, Beginning
  <2>4. Over(disk', buffer_pos', buffer') = Over(content, Tell, d)
    BY <1>4, <1>7, <2>3 DEF WriteThrough, Direct
  <2>5. Tell' = Tell + Len(d)
    BY <1>1, <1>2, <1>7 DEF WriteThrough, Direct, Tell
  <2>6. Stream!Write(d)
    BY <1>7, <2>2, <2>4, <2>5, SameOverlay DEF WriteThrough, Gave, Stream!Write, Stream!Gave
  <2> QED BY <2>2, <2>6 DEF Stream!Next
<1>8. ASSUME NEW d \in Blocks, WriteThroughFails(d) PROVE FALSE
  BY <1>8, Zenon DEF WriteThroughFails, Misled
<1>9. ASSUME NEW d \in Blocks, WriteThroughCut(d) PROVE Stream!Next
  <2>1. PICK file \in MaybeFlushed, n \in 0..(Len(d)-1) :
            disk' = Over(file, Tell, SubSeq(d, 1, n)) /\ Believes(file)
    BY <1>9 DEF WriteThroughCut
  <2>2. trusted /\ UNCHANGED trusted /\ file = content /\ n \in 0..Len(d)
    BY <1>2, <1>3, <2>1
  <2>3. Over(disk', buffer_pos', buffer') = Over(content, Tell, SubSeq(d, 1, n))
    BY <1>4, <1>9, <2>1, <2>2 DEF WriteThroughCut, Direct
  <2>4. Tell' = Tell
    BY <1>1, <1>9 DEF WriteThroughCut, Direct, Tell
  <2>5. Stream!WriteFails(d)
    BY <1>9, <2>2, <2>3, <2>4, SameOverlay
       DEF WriteThroughCut, Gave, Stream!WriteFails, Stream!Gave
  <2> QED BY <2>2, <2>5 DEF Stream!Next
<1>10. ASSUME NEW m \in 0..Len(buffer), buffer # <<>>, NEW s \in Seq(Nat)
       PROVE  Over(Over(Over(disk, buffer_pos, SubSeq(buffer, 1, m)), Tell, s),
                   buffer_pos, buffer)
                   = Over(content, Tell, s)
  BY <1>1, <1>10, OverRepaired
<1>11. ASSUME NEW d \in Blocks, WriteBothFlushesFail(d) PROVE Stream!Next
  <2>1. PICK part \in MaybeFlushed, n \in 0..Len(d) :
            /\ disk' = Over(part, Tell, SubSeq(d, 1, n))
            /\ Gave("failed", <<>>) /\ UNCHANGED <<buffer_pos, trusted>>
    BY <1>11 DEF WriteBothFlushesFail, Misled
  <2>2. PICK m \in 0..Len(buffer) : part = Over(disk, buffer_pos, SubSeq(buffer, 1, m))
    BY DEF MaybeFlushed
  <2>3. SubSeq(d, 1, n) \in Seq(Nat)
    BY <1>2, Beginning
  <2>4. buffer # <<>> /\ UNCHANGED <<buffer, offset>>
    BY <1>11 DEF WriteBothFlushesFail
  <2>5. Over(disk', buffer_pos', buffer') = Over(content, Tell, SubSeq(d, 1, n))
    BY <1>10, <2>1, <2>2, <2>3, <2>4
  <2>6. Tell' = Tell
    BY <2>1, <2>4 DEF Tell
  <2>7. trusted
    BY <2>1, Zenon DEF SemiInv, SemiTyped
  <2>8. Stream!WriteFails(d)
    BY <2>1, <2>5, <2>6, SameOverlay DEF Gave, Stream!WriteFails, Stream!Gave
  <2> QED BY <2>7, <2>8 DEF Stream!Next
<1>12. ASSUME FlushAll, Believes(disk')
       PROVE  /\ trusted /\ UNCHANGED trusted /\ disk' = content
              /\ Over(disk', buffer_pos', buffer') = content
              /\ Tell' = buffer_pos' + 0
  BY <1>3, <1>4, <1>12 DEF FlushAll, Tell
<1>13. ASSUME NEW n \in Sizes, Read(n) PROVE Stream!Next
  <2>1. FlushAll /\ Believes(disk')
    BY <1>13 DEF Read
  <2>2. n \in Nat
    BY SemifileAssumption
  <2>3. CASE Tell + n <= Len(disk')
    <3>1. Tell' = Tell + n /\ Gave("read", SubSeq(disk', Tell + 1, Tell + n))
      BY <1>1, <1>12, <1>13, <2>1, <2>2, <2>3 DEF Read
    <3>2. Stream!Read(n)
      BY <1>12, <2>1, <2>3, <3>1 DEF Gave, Stream!Read, Stream!Gave
    <3> QED BY <1>12, <2>1, <3>2 DEF Stream!Next
  <2>4. CASE ~(Tell + n <= Len(disk'))
    <3>1. Tell' = Tell /\ Gave("eof", <<>>)
      BY <1>1, <1>12, <1>13, <2>1, <2>4 DEF Read
    <3>2. Stream!ReadShort(n)
      BY <1>1, <1>12, <2>1, <2>2, <2>4, <3>1 DEF Gave, Stream!ReadShort, Stream!Gave
    <3> QED BY <1>12, <2>1, <3>2 DEF Stream!Next
  <2> QED BY <2>3, <2>4
<1>14. ASSUME ReadFails PROVE FALSE
  BY <1>14, Zenon DEF ReadFails, Misled
<1>15. ASSUME NEW o \in Offsets, Seek(o) PROVE Stream!Next
  <2>1. FlushAll /\ Believes(disk')
    BY <1>15 DEF Seek
  <2>2. Tell' = o
    BY <1>12, <1>15, <2>1, SemifileAssumption DEF Seek
  <2>3. Stream!Seek(o)
    BY <1>12, <1>15, <2>1, <2>2 DEF Seek, Gave, Stream!Seek, Stream!Gave
  <2> QED BY <1>12, <2>1, <2>3 DEF Stream!Next
<1>16. ASSUME SeekEnd PROVE Stream!Next
  <2>1. FlushAll /\ Believes(disk')
    BY <1>16 DEF SeekEnd
  <2>2. Tell' = Len(content)
    BY <1>1, <1>12, <1>16, <2>1 DEF SeekEnd
  <2>3. Stream!SeekEnd
    BY <1>12, <1>16, <2>1, <2>2 DEF SeekEnd, Gave, Stream!SeekEnd, Stream!Gave
  <2> QED BY <1>12, <2>1, <2>3 DEF Stream!Next
<1>17. ASSUME FlushRefused PROVE Stream!Next
  <2>1. /\ buffer # <<>> /\ disk' \in MaybeFlushed /\ Gave("failed", <<>>)
        /\ UNCHANGED <<buffer, buffer_pos, offset, trusted>>
    BY <1>17 DEF FlushRefused
  <2>2. PICK m \in 0..Len(buffer) : disk' = Over(disk, buffer_pos, SubSeq(buffer, 1, m))
    BY <2>1 DEF MaybeFlushed
  <2>3. Over(disk', buffer_pos', buffer') = content
    <3>1. <<>> \in Seq(Nat)
      OBVIOUS
    <3>2. Over(Over(disk', Tell, <<>>), buffer_pos, buffer) = Over(content, Tell, <<>>)
      BY <1>10, <2>1, <2>2, <3>1
    <3>3. Over(disk', Tell, <<>>) = disk' /\ Over(content, Tell, <<>>) = content
      BY <1>4
    <3> QED BY <2>1, <3>2, <3>3
  <2>4. Tell' = Tell
    BY <2>1 DEF Tell
  <2>5. trusted
    BY <2>1, Zenon DEF SemiInv, SemiTyped
  <2>6. Stream!Refuse
    BY <2>1, <2>3, <2>4 DEF Gave, Stream!Refuse, Stream!Gave
  <2> QED BY <2>5, <2>6 DEF Stream!Next
<1>18. ASSUME SeekEndFails PROVE Stream!Next
  <2>1. FlushAll /\ Believes(disk')
    BY <1>18 DEF SeekEndFails
  <2>2. Tell' = Tell
    BY <1>1, <1>12, <1>18, <2>1 DEF SeekEndFails
  <2>3. Stream!Refuse
    BY <1>12, <1>18, <2>1, <2>2 DEF SeekEndFails, Gave, Stream!Refuse, Stream!Gave
  <2> QED BY <1>12, <2>1, <2>3 DEF Stream!Next
<1>19. ASSUME Close PROVE Stream!Next
  <2>1. FlushAll /\ Believes(disk')
    BY <1>19 DEF Close
  <2>2. Tell' = Tell
    BY <1>1, <1>12, <1>19, <2>1 DEF Close
  <2>3. Stream!Close
    BY <1>12, <1>19, <2>1, <2>2 DEF Close, Stream!Close, Stream!Gave
  <2> QED BY <1>12, <2>1, <2>3 DEF Stream!Next
<1> QED BY <1>5, <1>6, <1>7, <1>8, <1>9, <1>11, <1>13, <1>14, <1>15, <1>16, <1>17,
           <1>18, <1>19 DEF Next

\* A semifile is a plain stream as long as no call misled its caller: what was
\* written is read back, whether it is still in the buffer or on disk, and a failed
\* flush that is reported, or made good by the second one of a write, loses nothing.
THEOREM SemifileImplementsStream == Spec => ImplementsStream
<1>1. Init => Stream!Init
  BY StreamInit
<1>2. SemiInv /\ [Next]_vars => [Stream!Next]_(Stream!streamVars)
  BY StreamStep
<1> QED BY <1>1, <1>2, SemiInvariance, PTL DEF Spec, ImplementsStream, Stream!Spec

=============================================================================
