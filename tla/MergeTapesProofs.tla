--------------------------- MODULE MergeTapesProofs ---------------------------
(***************************************************************************)
(* The merge of the tapes for every number of tapes and every content: the *)
(* heap is one, its top is the least record, and what comes out ascends.   *)
(***************************************************************************)
EXTENDS MergeTapes, Sums, SequenceTheorems

-----------------------------------------------------------------------------
(* The inductive invariant                                                 *)

\* Where the index of a sift loop may be.
IndexInHeap ==
    /\ pc = "up" => i \in 1..Len(heap)
    /\ pc # "done" => file \in Files
    /\ pc \in {"down", "popped"} => stage # "fill" /\ pos[file] >= 1
    /\ stage = "first" => pc \in {"down", "popped"}

\* While the heap is filled, it holds tapes that were read already.
Filling ==
    stage = "fill" =>
        /\ out = <<>>
        /\ \A j \in 1..Len(heap) : heap[j] <= file /\ (pc = "read" => heap[j] < file)

\* The record that was taken from the heap is not later than any left in it, and
\* none there is earlier than buf, whose key is that of the tape to read next.
Least ==
    /\ pc \in {"down", "popped"} =>
         /\ \A j \in 1..Len(heap) : Peek(file).key <= KeyAt(j)
         /\ stage = "merge" => buf.key <= Peek(file).key
    /\ stage = "merge" /\ pc \in {"read", "up", "next"} =>
         \A j \in 1..Len(heap) : buf.key <= KeyAt(j)
    /\ stage = "merge" /\ pc = "read" => pos[file] >= 1 /\ Peek(file).key = buf.key
    /\ stage = "first" => out = <<>>

MergeInv ==
    /\ TypeOK
    /\ IndexInHeap
    /\ Filling
    /\ HeapDistinct
    /\ HeapOrdered
    /\ HeapSuffices
    /\ Least
    /\ OutAscending

-----------------------------------------------------------------------------
(* The heap as a tree in a sequence                                        *)

\* The parent of an element is above it and has it as its left or right child.
LEMMA ParentOf ==
    ASSUME NEW j \in Nat, j >= 2
    PROVE  /\ Parent(j) \in Nat /\ 1 <= Parent(j) /\ Parent(j) < j
           /\ j = Left(Parent(j)) \/ j = Right(Parent(j))
  BY DEF Parent, Left, Right

\* The children of a place of the heap lie behind it and have it as their
\* parent.
LEMMA ChildOf ==
    ASSUME NEW j \in Nat, j >= 1
    PROVE  /\ Left(j) \in Nat /\ Left(j) > j /\ Parent(Left(j)) = j
           /\ Right(j) = Left(j) + 1 /\ Parent(Right(j)) = j
  BY DEF Parent, Left, Right

\* The record a tape holds ready.
LEMMA PeekRecord ==
    ASSUME TypeOK, NEW f \in Files, pos[f] >= 1
    PROVE  /\ pos[f] \in 1..Len(tape[f]) /\ Len(tape[f]) \in Nat
           /\ tape[f] \in Seq(Record) /\ Ascending(tape[f])
           /\ Peek(f) \in Record /\ Peek(f).key \in Nat /\ Peek(f).count \in Nat
<1>1. /\ tape[f] \in Tapes /\ pos[f] \in Nat /\ pos[f] <= Len(tape[f])
  BY DEF TypeOK
<1>2. tape[f] \in Seq(Record) /\ Ascending(tape[f])
  BY <1>1, MergeAssumption
<1>3. pos[f] \in 1..Len(tape[f]) /\ Len(tape[f]) \in Nat
  BY <1>1, <1>2
<1>4. Peek(f) \in Record
  BY <1>2, <1>3, ElementOfSeq DEF Peek
<1> QED BY <1>2, <1>3, <1>4 DEF Record

\* Every element of the heap is a tape with a record.
LEMMA HeapPeeks ==
    ASSUME TypeOK
    PROVE  /\ Len(heap) \in Nat
           /\ \A j \in 1..Len(heap) : /\ heap[j] \in Files /\ pos[heap[j]] >= 1
                                     /\ KeyAt(j) \in Nat
<1>1. heap \in Seq(Files)
  BY DEF TypeOK
<1>2. ASSUME NEW j \in 1..Len(heap) PROVE heap[j] \in Files /\ pos[heap[j]] >= 1
  BY <1>1, ElementOfSeq DEF TypeOK
<1> QED BY <1>1, <1>2, PeekRecord DEF KeyAt

\* Two elements of the heap change places.
LEMMA SwapProperties ==
    ASSUME TypeOK, NEW a \in 1..Len(heap), NEW b \in 1..Len(heap)
    PROVE  /\ Swapped(a, b) \in Seq(Files) /\ Len(Swapped(a, b)) = Len(heap)
           /\ \A j \in 1..Len(heap) : Swapped(a, b)[j] =
                IF j = b THEN heap[a] ELSE IF j = a THEN heap[b] ELSE heap[j]
<1>1. heap \in Seq(Files) /\ heap[a] \in Files /\ heap[b] \in Files
  BY HeapPeeks DEF TypeOK
<1> DEFINE h == [heap EXCEPT ![a] = heap[b]]
<1>2. h \in Seq(Files) /\ Len(h) = Len(heap)
      /\ \A j \in 1..Len(heap) : h[j] = IF j = a THEN heap[b] ELSE heap[j]
  BY <1>1, ExceptSeq
<1>3. Swapped(a, b) = [h EXCEPT ![b] = heap[a]]
  BY DEF Swapped
<1> HIDE DEF h
<1>4. /\ Swapped(a, b) \in Seq(Files) /\ Len(Swapped(a, b)) = Len(h)
      /\ \A j \in 1..Len(h) : Swapped(a, b)[j] = IF j = b THEN heap[a] ELSE h[j]
  BY <1>1, <1>2, <1>3, ExceptSeq
<1> QED BY <1>2, <1>4

\* Outside the sift loops the top of the heap is the least record of all that the
\* tapes hold ready.
LEMMA TopLeast ==
    ASSUME TypeOK, HeapOrdered, pc \notin {"up", "down"}, heap # <<>>
    PROVE  /\ 1 \in 1..Len(heap)
           /\ \A j \in 1..Len(heap) : KeyAt(1) <= KeyAt(j)
<1>1. Len(heap) \in Nat /\ 1 \in 1..Len(heap) /\ \A j \in 1..Len(heap) : KeyAt(j) \in Nat
  BY HeapPeeks, EmptySeq DEF TypeOK
<1>2. SUFFICES ASSUME NEW j \in 1..Len(heap), KeyAt(1) > KeyAt(j) PROVE FALSE
  BY <1>1
<1> DEFINE S == {x \in 1..Len(heap) : KeyAt(1) > KeyAt(x)}
<1>3. PICK x \in S : \A y \in S : x <= y
  <2>1. S \in SUBSET Nat /\ S # {}
    BY <1>1, <1>2
  <2> HIDE DEF S
  <2> QED BY <2>1, LeastElement
<1>4. x \in 1..Len(heap) /\ x # 1 /\ x >= 2
  BY <1>1, <1>3
<1>5. Parent(x) \in 1..Len(heap) /\ Parent(x) < x /\ Parent(x) \in Nat
  BY <1>1, <1>4, ParentOf
<1>6. KeyAt(1) <= KeyAt(Parent(x))
  BY <1>1, <1>3, <1>4, <1>5
<1>7. KeyAt(Parent(x)) <= KeyAt(x)
  BY <1>4, <1>1 DEF HeapOrdered
<1> QED BY <1>1, <1>3, <1>4, <1>5, <1>6, <1>7

\* While a tape is being read, the heap has room for it: every other tape is in it
\* at most once.
LEMMA RoomForOne ==
    ASSUME TypeOK, HeapDistinct, pc = "read"
    PROVE  Len(heap) < NoFiles
<1> DEFINE S == 1..Len(heap)
           T == Files \ {file}
           f == [j \in S |-> heap[j]]
<1>1. Len(heap) \in Nat /\ NoFiles \in Nat /\ file \in Files
  BY HeapPeeks, MergeAssumption DEF TypeOK
<1>2. IsFiniteSet(S) /\ Cardinality(S) = Len(heap)
  <2>1. PICK n \in Nat : n = Len(heap)
    BY <1>1
  <2>2. IsFiniteSet(1..n) /\ Cardinality(1..n) = n
    BY FS_Interval
  <2> QED BY <2>1, <2>2
<1>3. IsFiniteSet(Files) /\ Cardinality(Files) = NoFiles
  BY <1>1, FS_Interval DEF Files
<1>4. IsFiniteSet(T) /\ Cardinality(T) = NoFiles - 1
  BY <1>1, <1>3, FS_RemoveElement
<1>5. f \in [S -> T]
  BY HeapPeeks DEF HeapDistinct
<1>6. SUFFICES ASSUME Cardinality(T) < Cardinality(S) PROVE FALSE
  BY <1>1, <1>2, <1>4
<1>7. \A x, y \in S : f[x] = f[y] => x = y
  BY DEF HeapDistinct
<1> HIDE DEF S, T, f
<1> QED BY <1>2, <1>4, <1>5, <1>6, <1>7, FS_PigeonHole

\* The key of an element of the heap that stays where it is, or moves.
LEMMA KeyMoves ==
    ASSUME NEW a, NEW b, heap'[a] = heap[b], tape' = tape,
           pos'[heap[b]] = pos[heap[b]]
    PROVE  KeyAt(a)' = KeyAt(b)
  BY DEF KeyAt, Peek

\* A step that leaves the heap alone and does not begin or end a sift.
LEMMA HeapKept ==
    ASSUME HeapOrdered, UNCHANGED <<tape, pos, heap>>,
           pc \notin {"up", "down"}, pc' \notin {"up", "down"}
    PROVE  HeapOrdered'
<1>1. \A j : KeyAt(j)' = KeyAt(j)
  BY DEF KeyAt, Peek
<1> QED BY <1>1 DEF HeapOrdered

-----------------------------------------------------------------------------
(* Every step keeps the invariant                                          *)

\* At the start nothing was read.
LEMMA MergeInit == Init => MergeInv
<1> SUFFICES ASSUME Init PROVE MergeInv
  OBVIOUS
<1> USE MergeAssumption DEF Init
<1>1. TypeOK
  <2>1. /\ tape \in [Files -> Tapes] /\ pos \in [Files -> Nat] /\ heap \in Seq(Files)
        /\ out \in Seq(Record) /\ buf \in Record
    BY DEF NoRecord, Record
  <2>2. \A f \in Files : pos[f] <= Len(tape[f])
    <3>1. ASSUME NEW f \in Files PROVE tape[f] \in Seq(Record) /\ pos[f] = 0
      BY <2>1
    <3> QED BY <3>1
  <2>3. pc \notin {"done", "next"} => file \in Files
    BY DEF Files
  <2> QED BY <2>1, <2>2, <2>3 DEF TypeOK
<1>2. IndexInHeap
  BY DEF IndexInHeap, Files
<1>3. Filling /\ HeapDistinct /\ HeapOrdered /\ HeapSuffices /\ Least /\ OutAscending
  BY DEF Filling, HeapDistinct, HeapOrdered, HeapSuffices, Least, OutAscending, Ascending
<1> QED BY <1>1, <1>2, <1>3 DEF MergeInv

\* A record is read: the tape goes to the end of the heap, where its key may be
\* smaller than its parent's.  Its key is later than that of the record before it,
\* which is buf.
LEMMA ReadKeeps ==
    ASSUME MergeInv, ReadRecord
    PROVE  MergeInv'
<1> DEFINE n == Len(heap)
<1>1. /\ TypeOK /\ IndexInHeap /\ Filling /\ HeapDistinct /\ HeapOrdered
      /\ HeapSuffices /\ Least /\ OutAscending
  BY DEF MergeInv
<1>2. /\ pc = "read" /\ pos[file] < Len(tape[file])
      /\ pos' = [pos EXCEPT ![file] = @ + 1]
      /\ tape' = tape /\ file' = file /\ stage' = stage /\ buf' = buf /\ out' = out
      /\ dropped' = dropped
  BY DEF ReadRecord
<1>3. \/ n >= MaxFiles /\ pc' = "aborted" /\ heap' = heap /\ i' = i
      \/ pc' = "up" /\ heap' = Append(heap, file) /\ i' = n + 1
  BY DEF ReadRecord
<1>4. /\ n \in Nat /\ heap \in Seq(Files) /\ file \in Files
      /\ \A j \in 1..n : heap[j] \in Files /\ heap[j] # file /\ KeyAt(j) \in Nat
  BY <1>1, <1>2, HeapPeeks DEF TypeOK, HeapDistinct
<1>5. /\ pos \in [Files -> Nat] /\ pos' \in [Files -> Nat] /\ pos'[file] = pos[file] + 1
      /\ \A f \in Files : f # file => pos'[f] = pos[f]
  BY <1>1, <1>2, <1>4 DEF TypeOK
<1>6. /\ heap' \in Seq(Files) /\ Len(heap') \in Nat /\ Len(heap') >= n
      /\ \A j \in 1..n : heap'[j] = heap[j]
      /\ pc' = "up" => Len(heap') = n + 1 /\ heap'[n + 1] = file /\ i' = n + 1
      /\ pc' = "aborted" => Len(heap') = n /\ i' = i
  BY <1>3, <1>4
<1>7. ASSUME NEW j \in 1..n PROVE KeyAt(j)' = KeyAt(j)
  BY <1>2, <1>4, <1>5, <1>6, KeyMoves
<1>8. pc' \in {"up", "aborted"}
  BY <1>3
<1>9. TypeOK'
  <2>1. \A f \in Files : pos'[f] <= Len(tape'[f])
    <3>1. ASSUME NEW f \in Files PROVE Len(tape[f]) \in Nat /\ pos[f] <= Len(tape[f])
      BY <1>1, MergeAssumption DEF TypeOK
    <3> QED BY <1>2, <1>4, <1>5, <3>1
  <2>2. \A j \in 1..Len(heap') : pos'[heap'[j]] >= 1
    <3>1. \A j \in 1..n : pos[heap[j]] >= 1
      BY <1>1, HeapPeeks
    <3>2. \A j \in 1..n : pos'[heap'[j]] >= 1
      BY <1>4, <1>5, <1>6, <3>1
    <3>3. pos[file] \in Nat /\ pos'[file] >= 1
      BY <1>4, <1>5
    <3> QED BY <1>4, <1>6, <1>8, <3>2, <3>3
  <2>3. i' \in Nat \ {0}
    BY <1>1, <1>4, <1>6, <1>8 DEF TypeOK
  <2> QED BY <1>1, <1>2, <1>4, <1>5, <1>6, <1>8, <2>1, <2>2, <2>3 DEF TypeOK
<1>10. IndexInHeap'
  BY <1>1, <1>2, <1>4, <1>6, <1>8 DEF IndexInHeap
<1>11. Filling'
  <2>1. file \in Nat /\ \A j \in 1..n : heap[j] \in Nat
    BY <1>4 DEF Files
  <2> QED BY <1>1, <1>2, <1>4, <1>6, <1>8, <2>1 DEF Filling
<1>12. HeapDistinct'
  <2>1. \A a, b \in 1..n : heap[a] = heap[b] => a = b
    BY <1>1 DEF HeapDistinct
  <2>2. \A a \in 1..n : heap'[a] = heap[a] /\ heap[a] # file
    BY <1>4, <1>6
  <2>3. ASSUME NEW a \in 1..Len(heap'), NEW b \in 1..Len(heap'), heap'[a] = heap'[b]
        PROVE  a = b
    <3>1. CASE pc' = "aborted"
      <4>1. a \in 1..n /\ b \in 1..n
        BY <1>6, <3>1
      <4> QED BY <2>1, <2>2, <2>3, <4>1
    <3>2. CASE pc' = "up"
      <4>1. heap'[n + 1] = file
            /\ (a \in 1..n \/ a = n + 1) /\ (b \in 1..n \/ b = n + 1)
        BY <1>4, <1>6, <3>2
      <4> QED BY <2>1, <2>2, <2>3, <4>1
    <3> QED BY <1>8, <3>1, <3>2
  <2> QED BY <1>8, <2>3 DEF HeapDistinct
<1>13. HeapOrdered'
  <2> SUFFICES ASSUME NEW j \in 2..Len(heap')
               PROVE  /\ ~(pc' = "up" /\ j = i') => KeyAt(Parent(j))' <= KeyAt(j)'
                      /\ ~(pc' = "up" /\ Parent(j) = i')
    BY <1>8 DEF HeapOrdered, Parent
  <2>1. Parent(j) \in Nat /\ 1 <= Parent(j) /\ Parent(j) < j
    BY ParentOf
  <2>2. ~(pc' = "up" /\ Parent(j) = i')
    BY <1>4, <1>6, <2>1
  <2>3. ASSUME ~(pc' = "up" /\ j = i') PROVE KeyAt(Parent(j))' <= KeyAt(j)'
    <3>1. j \in 2..n /\ Parent(j) \in 1..n /\ j \in 1..n
      BY <1>4, <1>6, <1>8, <2>1, <2>3
    <3>2. KeyAt(Parent(j)) <= KeyAt(j)
      BY <1>1, <1>2, <3>1 DEF HeapOrdered
    <3> QED BY <1>7, <3>1, <3>2
  <2> QED BY <2>2, <2>3
<1>14. HeapSuffices'
  <2>1. n < NoFiles
    BY <1>1, <1>2, RoomForOne
  <2> QED BY <1>3, <1>4, <2>1, MergeAssumption DEF HeapSuffices
<1>15. Least'
  <2>1. stage' = "first" => out' = <<>>
    BY <1>1, <1>2 DEF Least
  <2>2. ASSUME stage = "merge", pc' = "up", NEW j \in 1..Len(heap')
        PROVE  buf.key <= KeyAt(j)'
    <3>1. CASE j \in 1..n
      BY <1>1, <1>2, <1>7, <2>2, <3>1 DEF Least
    <3>2. CASE j = n + 1
      <4>1. KeyAt(j)' = tape[file][pos[file] + 1].key
        BY <1>2, <1>5, <1>6, <2>2, <3>2 DEF KeyAt, Peek
      <4>2. pos[file] >= 1 /\ tape[file][pos[file]].key = buf.key
        BY <1>1, <1>2, <2>2 DEF Least, Peek
      <4>3. /\ pos[file] \in 1..Len(tape[file]) /\ Len(tape[file]) \in Nat
            /\ tape[file] \in Seq(Record) /\ Ascending(tape[file])
        BY <1>1, <1>4, <4>2, PeekRecord
      <4>4. pos[file] + 1 \in 1..Len(tape[file]) /\ pos[file] < pos[file] + 1
        BY <1>2, <4>3
      <4>5. tape[file][pos[file]] \in Record /\ tape[file][pos[file] + 1] \in Record
        BY <4>3, <4>4, ElementOfSeq
      <4>6. tape[file][pos[file]].key < tape[file][pos[file] + 1].key
        BY <4>3, <4>4 DEF Ascending
      <4> QED BY <4>1, <4>2, <4>5, <4>6 DEF Record
    <3> QED BY <1>4, <1>6, <2>2, <3>1, <3>2
  <2> QED BY <1>2, <1>8, <2>1, <2>2 DEF Least
<1>16. OutAscending'
  BY <1>1, <1>2, <1>8 DEF OutAscending
<1> QED BY <1>9, <1>10, <1>11, <1>12, <1>13, <1>14, <1>15, <1>16 DEF MergeInv

\* What a swap keeps: the elements, each once, and all keys but the two.
LEMMA SwapKeeps ==
    ASSUME TypeOK, HeapDistinct, UNCHANGED <<tape, pos>>,
           NEW a \in 1..Len(heap), NEW b \in 1..Len(heap), heap' = Swapped(a, b)
    PROVE  /\ heap' \in Seq(Files) /\ Len(heap') = Len(heap)
           /\ KeyAt(a)' = KeyAt(b) /\ KeyAt(b)' = KeyAt(a)
           /\ \A j \in 1..Len(heap) : j # a /\ j # b => KeyAt(j)' = KeyAt(j)
           /\ \A j \in 1..Len(heap) : \E k \in 1..Len(heap) :
                heap'[j] = heap[k] /\ KeyAt(j)' = KeyAt(k)
           /\ \A j \in 1..Len(heap') : pos'[heap'[j]] >= 1
           /\ \A c, d \in 1..Len(heap') : heap'[c] = heap'[d] => c = d
<1>1. /\ heap' \in Seq(Files) /\ Len(heap') = Len(heap)
      /\ \A j \in 1..Len(heap) : heap'[j] =
            IF j = b THEN heap[a] ELSE IF j = a THEN heap[b] ELSE heap[j]
  BY SwapProperties
<1>2. ASSUME NEW c \in 1..Len(heap), NEW d \in 1..Len(heap), heap'[c] = heap[d]
      PROVE  KeyAt(c)' = KeyAt(d)
  BY <1>2, KeyMoves
<1>3. heap'[a] = heap[b] /\ heap'[b] = heap[a]
  BY <1>1
<1>4. ASSUME NEW j \in 1..Len(heap)
      PROVE  \E k \in 1..Len(heap) : heap'[j] = heap[k] /\ KeyAt(j)' = KeyAt(k)
  BY <1>1, <1>2
<1>5. \A c, d \in 1..Len(heap) : heap[c] = heap[d] => c = d
  BY DEF HeapDistinct
<1>6. \A c, d \in 1..Len(heap') : heap'[c] = heap'[d] => c = d
  BY <1>1, <1>5
<1>7. \A j \in 1..Len(heap') : pos'[heap'[j]] >= 1
  BY <1>1, <1>4, HeapPeeks
<1> QED BY <1>1, <1>2, <1>3, <1>4, <1>6, <1>7

\* On the way up: an element that is smaller than its parent changes places with
\* it, and what is below either is not smaller than the parent was.
LEMMA SiftUpKeeps ==
    ASSUME MergeInv, SiftUp
    PROVE  MergeInv'
<1> DEFINE n == Len(heap)
<1>1. /\ TypeOK /\ IndexInHeap /\ Filling /\ HeapDistinct /\ HeapOrdered
      /\ HeapSuffices /\ Least /\ OutAscending
  BY DEF MergeInv
<1>2. /\ pc = "up" /\ tape' = tape /\ pos' = pos /\ file' = file /\ stage' = stage
      /\ buf' = buf /\ out' = out /\ dropped' = dropped
  BY DEF SiftUp
<1>3. /\ n \in Nat /\ i \in 1..n /\ file \in Files /\ stage # "first"
      /\ \A j \in 1..n : heap[j] \in Files /\ KeyAt(j) \in Nat
  BY <1>1, <1>2, HeapPeeks DEF IndexInHeap
<1>4. CASE i > 1 /\ KeyAt(i) < KeyAt(Parent(i))
  <2>0. PICK e \in 1..n, p \in Nat : e = i /\ p = Parent(e)
    BY <1>3, <1>4, ParentOf
  <2>1. heap' = Swapped(e, p) /\ i' = p /\ pc' = "up" /\ KeyAt(e) < KeyAt(p)
    BY <1>2, <1>4, <2>0 DEF SiftUp
  <2>2. p \in 1..n /\ p < e
    BY <1>3, <1>4, <2>0, ParentOf
  <2>3. /\ heap' \in Seq(Files) /\ Len(heap') = n
        /\ KeyAt(e)' = KeyAt(p) /\ KeyAt(p)' = KeyAt(e)
        /\ \A j \in 1..n : j # e /\ j # p => KeyAt(j)' = KeyAt(j)
        /\ \A j \in 1..n : \E k \in 1..n : heap'[j] = heap[k] /\ KeyAt(j)' = KeyAt(k)
        /\ \A j \in 1..Len(heap') : pos'[heap'[j]] >= 1
        /\ \A c, d \in 1..Len(heap') : heap'[c] = heap'[d] => c = d
    BY <1>1, <1>2, <1>3, <2>1, <2>2, SwapKeeps
  <2>4. TypeOK'
    <3>1. i' \in Nat \ {0} /\ file' \in Nat
      BY <1>1, <1>2, <2>1, <2>2 DEF TypeOK
    <3> QED BY <1>1, <1>2, <1>3, <2>1, <2>3, <3>1 DEF TypeOK
  <2>5. IndexInHeap' /\ HeapDistinct' /\ HeapSuffices'
    BY <1>1, <1>2, <1>3, <2>1, <2>2, <2>3 DEF IndexInHeap, HeapDistinct, HeapSuffices
  <2>6. Filling'
    BY <1>1, <1>2, <2>1, <2>3 DEF Filling
  <2>7. HeapOrdered'
    <3> SUFFICES ASSUME NEW j \in 2..n
                 PROVE  /\ j # p => KeyAt(Parent(j))' <= KeyAt(j)'
                        /\ Parent(j) = p /\ p > 1 => KeyAt(Parent(p))' <= KeyAt(j)'
      BY <2>1, <2>3 DEF HeapOrdered
    <3>1. PICK q \in 1..n : q = Parent(j) /\ q < j /\ j \in 1..n
      BY <1>3, ParentOf
    <3>2. /\ j # e => KeyAt(q) <= KeyAt(j)
          /\ q = e => KeyAt(p) <= KeyAt(j)
      BY <1>1, <1>2, <1>4, <2>0, <3>1 DEF HeapOrdered
    <3>3. j = e => q = p
      BY <2>0, <3>1
    <3>0. /\ KeyAt(e)' = KeyAt(p) /\ KeyAt(p)' = KeyAt(e)
          /\ q # e /\ q # p => KeyAt(q)' = KeyAt(q)
          /\ j # e /\ j # p => KeyAt(j)' = KeyAt(j)
          /\ KeyAt(p) \in Nat /\ KeyAt(e) \in Nat /\ KeyAt(q) \in Nat
          /\ KeyAt(j) \in Nat /\ KeyAt(e) < KeyAt(p)
      BY <1>3, <2>1, <2>2, <2>3, <3>1
    <3>4. ASSUME j # p PROVE KeyAt(q)' <= KeyAt(j)'
      <4>1. CASE j = e
        <5>1. KeyAt(q)' = KeyAt(e) /\ KeyAt(j)' = KeyAt(p)
          BY <3>0, <3>3, <4>1, Zenon
        <5> QED BY <3>0, <5>1
      <4>2. CASE j # e
        <5>1. KeyAt(j)' = KeyAt(j) /\ KeyAt(q) <= KeyAt(j)
          BY <3>0, <3>2, <3>4, <4>2, Zenon
        <5>2. CASE q = e
          <6>1. KeyAt(q)' = KeyAt(p) /\ KeyAt(p) <= KeyAt(j)
            BY <3>0, <3>2, <5>2, Zenon
          <6> QED BY <3>0, <5>1, <6>1
        <5>3. CASE q = p
          <6>1. KeyAt(q)' = KeyAt(e) /\ KeyAt(q) = KeyAt(p)
            BY <3>0, <5>3, Zenon
          <6> QED BY <3>0, <5>1, <6>1
        <5>4. CASE q # e /\ q # p
          BY <3>0, <5>1, <5>4
        <5> QED BY <5>2, <5>3, <5>4
      <4> QED BY <4>1, <4>2
    <3>5. ASSUME q = p, p > 1 PROVE KeyAt(Parent(p))' <= KeyAt(j)'
      <4>1. PICK r \in 1..n : r = Parent(p) /\ r < p
        BY <1>3, <2>2, <3>5, ParentOf
      <4>2. p \in 2..n /\ p # i
        BY <1>3, <2>0, <2>2, <3>5
      <4>3. KeyAt(r) <= KeyAt(p)
        BY <1>1, <1>2, <4>1, <4>2 DEF HeapOrdered
      <4>4. KeyAt(r)' = KeyAt(r)
        BY <2>2, <2>3, <4>1
      <4>5. KeyAt(p) <= KeyAt(j)'
        <5>1. CASE j = e
          BY <3>0, <5>1
        <5>2. CASE j # e
          <6>1. j # p /\ KeyAt(q) <= KeyAt(j)
            BY <2>2, <3>1, <3>2, <3>5, <5>2
          <6>2. KeyAt(j)' = KeyAt(j) /\ KeyAt(q) = KeyAt(p)
            BY <3>0, <3>5, <5>2, <6>1, Zenon
          <6> QED BY <3>0, <6>1, <6>2
        <5> QED BY <5>1, <5>2
      <4>6. KeyAt(j)' \in Nat /\ KeyAt(p) \in Nat /\ KeyAt(r) \in Nat
        BY <1>3, <2>2, <2>3, <3>1
      <4> QED BY <4>1, <4>3, <4>4, <4>5, <4>6
    <3> QED BY <3>1, <3>4, <3>5
  <2>8. Least' /\ OutAscending'
    BY <1>1, <1>2, <1>3, <2>1, <2>3 DEF Least, OutAscending
  <2> QED BY <2>4, <2>5, <2>6, <2>7, <2>8 DEF MergeInv
<1>5. CASE ~ (i > 1 /\ KeyAt(i) < KeyAt(Parent(i)))
  <2>1. heap' = heap /\ i' = i /\ pc' = "next"
    BY <1>2, <1>5 DEF SiftUp
  <2>2. \A j : KeyAt(j)' = KeyAt(j)
    BY <1>2, <2>1 DEF KeyAt, Peek
  <2>3. TypeOK'
    BY <1>1, <1>2, <2>1 DEF TypeOK
  <2>4. IndexInHeap' /\ Filling' /\ HeapDistinct' /\ HeapSuffices'
    BY <1>1, <1>2, <1>3, <2>1 DEF IndexInHeap, Filling, HeapDistinct, HeapSuffices
  <2>5. HeapOrdered'
    <3> SUFFICES ASSUME NEW j \in 2..n PROVE KeyAt(Parent(j)) <= KeyAt(j)
      BY <2>1, <2>2 DEF HeapOrdered
    <3>1. Parent(j) \in 1..n /\ j \in 1..n /\ i \in Nat
      BY <1>3, ParentOf
    <3>2. CASE j = i
      BY <1>3, <1>5, <3>1, <3>2
    <3>3. CASE j # i
      BY <1>1, <1>2, <3>3 DEF HeapOrdered
    <3> QED BY <3>2, <3>3
  <2>6. Least' /\ OutAscending'
    BY <1>1, <1>2, <1>3, <2>1, <2>2 DEF Least, OutAscending
  <2> QED BY <2>3, <2>4, <2>5, <2>6 DEF MergeInv
<1> QED BY <1>4, <1>5

\* The top is popped, which is the least record there is; the last tape stands in
\* its place and may be larger than its children.
LEMMA PopKeeps ==
    ASSUME MergeInv, Pop
    PROVE  MergeInv'
<1>1. /\ TypeOK /\ IndexInHeap /\ Filling /\ HeapDistinct /\ HeapOrdered
      /\ HeapSuffices /\ Least /\ OutAscending
  BY DEF MergeInv
<1>2. /\ pc = "next" /\ heap # <<>> /\ pc' = "down" /\ i' = 1
      /\ stage' = (IF stage = "fill" THEN "first" ELSE "merge")
      /\ tape' = tape /\ pos' = pos /\ buf' = buf /\ out' = out /\ dropped' = dropped
  BY DEF Pop
<1>3. PICK n \in Nat, t \in Files :
         /\ n = Len(heap) /\ t = heap[1] /\ 1 \in 1..n /\ pos[t] >= 1
         /\ \A j \in 1..n : heap[j] \in Files /\ pos[heap[j]] >= 1 /\ KeyAt(j) \in Nat
         /\ \A j \in 1..n : KeyAt(1) <= KeyAt(j)
  BY <1>1, <1>2, HeapPeeks, TopLeast
<1>4. heap \in Seq(Files) /\ file' = t
  BY <1>1, <1>3 DEF TypeOK, Pop
<1>5. /\ heap' \in Seq(Files) /\ Len(heap') = n - 1
      /\ \A j \in 1..(n - 1) : heap'[j] = IF j = 1 THEN heap[n] ELSE heap[j]
  <2> DEFINE h == [heap EXCEPT ![1] = heap[n]]
  <2>1. /\ h \in Seq(Files) /\ Len(h) = n
        /\ \A j \in 1..n : h[j] = IF j = 1 THEN heap[n] ELSE heap[j]
    <3>1. heap[n] \in Files
      BY <1>3
    <3> QED BY <1>3, <1>4, <3>1, ExceptSeq
  <2>2. heap' = SubSeq(h, 1, n - 1)
    BY <1>3 DEF Pop
  <2> HIDE DEF h
  <2>3. \A j \in 1..(n - 1) : h[j] \in Files
    BY <1>3, <2>1, ElementOfSeq
  <2>4. /\ heap' \in Seq(Files) /\ Len(heap') = n - 1
        /\ \A j \in 1..(n - 1) : heap'[j] = h[j]
    BY <1>3, <2>1, <2>2, <2>3
  <2> QED BY <1>3, <2>1, <2>4
<1>6. ASSUME NEW j \in 1..(n - 1)
      PROVE  \E k \in 1..n : /\ k # 1 /\ (j # 1 => k = j)
                             /\ heap'[j] = heap[k] /\ KeyAt(j)' = KeyAt(k)
  <2>1. PICK k \in 1..n : k # 1 /\ (j # 1 => k = j) /\ heap'[j] = heap[k]
    BY <1>3, <1>5
  <2>2. KeyAt(j)' = KeyAt(k)
    BY <1>2, <2>1, KeyMoves
  <2> QED BY <2>1, <2>2
<1>7. TypeOK'
  <2>1. \A j \in 1..(n - 1) : pos'[heap'[j]] >= 1
    BY <1>2, <1>3, <1>6
  <2>2. t \in Nat /\ i' \in Nat \ {0}
    BY <1>2 DEF Files
  <2> QED BY <1>1, <1>2, <1>3, <1>4, <1>5, <2>1, <2>2 DEF TypeOK
<1>8. IndexInHeap' /\ Filling' /\ HeapSuffices'
  BY <1>1, <1>2, <1>3, <1>4, <1>5 DEF IndexInHeap, Filling, HeapSuffices
<1>9. HeapDistinct'
  <2>1. \A a, b \in 1..n : heap[a] = heap[b] => a = b
    BY <1>1, <1>3 DEF HeapDistinct
  <2>2. \A a, b \in 1..(n - 1) : heap'[a] = heap'[b] => a = b
    BY <1>3, <1>5, <2>1
  <2>3. \A a \in 1..(n - 1) : heap'[a] # t
    BY <1>3, <1>6, <2>1
  <2> QED BY <1>4, <1>5, <2>2, <2>3 DEF HeapDistinct
<1>10. HeapOrdered'
  <2> SUFFICES ASSUME NEW j \in 2..(n - 1), Parent(j) # 1
               PROVE  KeyAt(Parent(j))' <= KeyAt(j)'
    BY <1>2, <1>5 DEF HeapOrdered, Parent
  <2>1. PICK q \in 1..(n - 1) : q = Parent(j) /\ q # 1 /\ j # 1
    BY <1>3, ParentOf
  <2>2. KeyAt(q)' = KeyAt(q) /\ KeyAt(j)' = KeyAt(j)
    BY <1>6, <2>1
  <2>3. KeyAt(q) <= KeyAt(j)
    BY <1>1, <1>2, <1>3, <2>1 DEF HeapOrdered
  <2> QED BY <2>1, <2>2, <2>3
<1>11. Least'
  <2>1. Peek(t) = Peek(heap[1]) /\ (Peek(file))' = Peek(t)
    BY <1>2, <1>3, <1>4 DEF Peek
  <2>2. \A j \in 1..(n - 1) : Peek(t).key <= KeyAt(j)'
    BY <1>3, <1>6, <2>1 DEF KeyAt
  <2>3. stage' = "merge" => buf.key <= Peek(t).key
    <3>1. stage' = "merge" => stage = "merge"
      BY <1>1, <1>2 DEF IndexInHeap, TypeOK
    <3> QED BY <1>1, <1>2, <1>3, <2>1, <3>1 DEF Least, KeyAt
  <2>4. stage' = "first" => out' = <<>>
    BY <1>1, <1>2 DEF Filling
  <2> QED BY <1>2, <1>5, <2>1, <2>2, <2>3, <2>4 DEF Least
<1>12. OutAscending'
  BY <1>1, <1>2 DEF OutAscending, IndexInHeap, TypeOK
<1> QED BY <1>7, <1>8, <1>9, <1>10, <1>11, <1>12, <1>1 DEF MergeInv

\* On the way down an element changes places with its smaller child c: the only
\* element that is still out of order is the one that came to c.
LEMMA DownOrder ==
    ASSUME TypeOK, HeapDistinct, HeapOrdered, pc = "down", UNCHANGED <<tape, pos>>,
           NEW e \in 1..Len(heap), e = i, NEW c \in 1..Len(heap), Parent(c) = e, e < c,
           heap' = Swapped(e, c), KeyAt(c) <= KeyAt(e),
           \A s \in 2..Len(heap) : Parent(s) = e => KeyAt(c) <= KeyAt(s)
    PROVE  \A j \in 2..Len(heap) :
              /\ Parent(j) # c => KeyAt(Parent(j))' <= KeyAt(j)'
              /\ Parent(j) = c => KeyAt(e)' <= KeyAt(j)'
<1> DEFINE n == Len(heap)
<1>1. n \in Nat /\ \A j \in 1..n : KeyAt(j) \in Nat
  BY HeapPeeks
<1>2. /\ KeyAt(e)' = KeyAt(c) /\ KeyAt(c)' = KeyAt(e)
      /\ \A j \in 1..n : j # e /\ j # c => KeyAt(j)' = KeyAt(j)
  BY SwapKeeps
<1> SUFFICES ASSUME NEW j \in 2..n
             PROVE  /\ Parent(j) # c => KeyAt(Parent(j))' <= KeyAt(j)'
                    /\ Parent(j) = c => KeyAt(e)' <= KeyAt(j)'
  OBVIOUS
<1>3. PICK q \in 1..n : q = Parent(j) /\ q < j /\ j \in 1..n
  BY <1>1, ParentOf
<1>4. /\ q # e => KeyAt(q) <= KeyAt(j)
      /\ q = e => KeyAt(c) <= KeyAt(j)
      /\ q = e /\ e > 1 => KeyAt(Parent(e)) <= KeyAt(j)
  BY <1>3 DEF HeapOrdered
<1>5. /\ KeyAt(q) \in Nat /\ KeyAt(j) \in Nat /\ KeyAt(e) \in Nat /\ KeyAt(c) \in Nat
      /\ KeyAt(c) <= KeyAt(e)
      /\ q # e /\ q # c => KeyAt(q)' = KeyAt(q)
      /\ j # e /\ j # c => KeyAt(j)' = KeyAt(j)
  BY <1>1, <1>2, <1>3
<1>6. ASSUME q # c PROVE KeyAt(q)' <= KeyAt(j)'
  <2>1. CASE j = c
    <3>1. q = e
      BY <1>3, <2>1
    <3>2. KeyAt(q)' = KeyAt(c) /\ KeyAt(j)' = KeyAt(e)
      BY <1>2, <2>1, <3>1, Zenon
    <3> QED BY <1>5, <3>2
  <2>2. CASE j = e
    <3>1. q # e /\ c \in 2..n /\ e > 1
      BY <1>1, <1>3, <2>2
    <3>2. q = Parent(e) /\ KeyAt(q)' = KeyAt(q) /\ KeyAt(j)' = KeyAt(c)
      BY <1>2, <1>3, <1>5, <1>6, <2>2, <3>1, Zenon
    <3>3. KeyAt(q) <= KeyAt(c)
      BY <3>1, <3>2 DEF HeapOrdered
    <3> QED BY <1>5, <3>2, <3>3
  <2>3. CASE j # c /\ j # e /\ q = e
    <3>1. KeyAt(q)' = KeyAt(c) /\ KeyAt(j)' = KeyAt(j)
      BY <1>2, <1>5, <2>3, Zenon
    <3> QED BY <1>4, <1>5, <2>3, <3>1
  <2>4. CASE j # c /\ j # e /\ q # e
    BY <1>4, <1>5, <1>6, <2>4
  <2> QED BY <2>1, <2>2, <2>3, <2>4
<1>7. ASSUME q = c PROVE KeyAt(e)' <= KeyAt(j)'
  <2>1. j # e /\ j # c /\ q # e
    BY <1>3, <1>7
  <2>2. KeyAt(e)' = KeyAt(c) /\ KeyAt(j)' = KeyAt(j) /\ KeyAt(q) = KeyAt(c)
    BY <1>2, <1>5, <1>7, <2>1, Zenon
  <2> QED BY <1>4, <1>5, <2>1, <2>2
<1> QED BY <1>3, <1>6, <1>7

\* What the other parts of the invariant need of a step of the way down.
LEMMA DownKeeps ==
    ASSUME MergeInv, pc = "down", pc' \in {"down", "popped"},
           UNCHANGED <<tape, pos, file, stage, buf, out, dropped>>,
           i' \in Nat \ {0},
           \/ heap' = heap
           \/ \E a, b \in 1..Len(heap) : heap' = Swapped(a, b)
    PROVE  /\ TypeOK' /\ IndexInHeap' /\ Filling' /\ HeapDistinct' /\ HeapSuffices'
           /\ Least' /\ OutAscending'
<1>1. /\ TypeOK /\ IndexInHeap /\ Filling /\ HeapDistinct /\ HeapOrdered
      /\ HeapSuffices /\ Least /\ OutAscending
  BY DEF MergeInv
<1>2. /\ heap' \in Seq(Files) /\ Len(heap') = Len(heap)
      /\ \A j \in 1..Len(heap) : \E k \in 1..Len(heap) :
           heap'[j] = heap[k] /\ KeyAt(j)' = KeyAt(k)
      /\ \A j \in 1..Len(heap') : pos'[heap'[j]] >= 1
      /\ \A c, d \in 1..Len(heap') : heap'[c] = heap'[d] => c = d
  <2>1. CASE heap' = heap
    <3>1. \A j : KeyAt(j)' = KeyAt(j)
      BY <2>1 DEF KeyAt, Peek
    <3> QED BY <1>1, <2>1, <3>1 DEF TypeOK, HeapDistinct
  <2>2. CASE \E a, b \in 1..Len(heap) : heap' = Swapped(a, b)
    <3>1. PICK a \in 1..Len(heap), b \in 1..Len(heap) : heap' = Swapped(a, b)
      BY <2>2
    <3> QED BY <1>1, <3>1, SwapKeeps
  <2> QED BY <2>1, <2>2
<1>3. TypeOK'
  BY <1>1, <1>2 DEF TypeOK
<1>4. IndexInHeap' /\ Filling' /\ HeapSuffices' /\ OutAscending'
  BY <1>1 DEF IndexInHeap, Filling, HeapSuffices, OutAscending
<1>5. HeapDistinct'
  BY <1>1, <1>2 DEF HeapDistinct
<1>6. (Peek(file))' = Peek(file)
  BY DEF Peek
<1>7. Least'
  BY <1>1, <1>2, <1>6 DEF Least
<1> QED BY <1>3, <1>4, <1>5, <1>7

\* On the way down, in the loop.
LEMMA SiftDownKeeps ==
    ASSUME MergeInv, SiftDown
    PROVE  MergeInv'
<1>1. TypeOK /\ HeapDistinct /\ HeapOrdered
  BY DEF MergeInv
<1>2. /\ pc = "down" /\ Right(i) <= Len(heap)
      /\ UNCHANGED <<tape, pos, file, stage, buf, out, dropped>>
  BY DEF SiftDown
<1>3. PICK n, e, l, r \in Nat :
        /\ e \in 1..n /\ l \in 1..n /\ r \in 1..n
        /\ n = Len(heap) /\ e = i /\ l = Left(e) /\ r = Right(e)
        /\ Parent(l) = e /\ Parent(r) = e /\ e < l /\ e < r
        /\ \A j \in 1..n : KeyAt(j) \in Nat
  <2>1. i \in Nat /\ i >= 1
    BY <1>1 DEF TypeOK
  <2>2. /\ Left(i) \in Nat /\ Left(i) > i /\ Parent(Left(i)) = i
        /\ Right(i) = Left(i) + 1 /\ Parent(Right(i)) = i
    BY <2>1, ChildOf
  <2>3. Len(heap) \in Nat /\ \A j \in 1..Len(heap) : KeyAt(j) \in Nat
    BY <1>1, HeapPeeks
  <2> QED BY <1>2, <2>1, <2>2, <2>3
<1>4. ASSUME NEW j \in 2..n, Parent(j) = e PROVE j = l \/ j = r
  BY <1>3, <1>4, ParentOf
<1>5. CASE KeyAt(e) < KeyAt(l) /\ KeyAt(e) < KeyAt(r)
  <2>1. heap' = heap /\ i' = i /\ pc' = "popped"
    BY <1>3, <1>5 DEF SiftDown
  <2>2. \A j : KeyAt(j)' = KeyAt(j)
    BY <1>2, <2>1 DEF KeyAt, Peek
  <2>3. HeapOrdered'
    <3> SUFFICES ASSUME NEW j \in 2..n PROVE KeyAt(Parent(j)) <= KeyAt(j)
      BY <1>3, <2>1, <2>2 DEF HeapOrdered
    <3>1. CASE Parent(j) = e
      BY <1>3, <1>4, <1>5, <3>1
    <3>2. CASE Parent(j) # e
      BY <1>1, <1>2, <1>3, <3>2 DEF HeapOrdered
    <3> QED BY <3>1, <3>2
  <2> QED BY <1>1, <1>2, <2>1, <2>3, DownKeeps DEF MergeInv, TypeOK
<1>6. CASE ~ (KeyAt(e) < KeyAt(l) /\ KeyAt(e) < KeyAt(r))
  <2>1. PICK c \in {l, r} : c = IF KeyAt(l) < KeyAt(r) THEN l ELSE r
    OBVIOUS
  <2>2. heap' = Swapped(e, c) /\ i' = c /\ pc' = "down"
    BY <1>3, <1>6, <2>1 DEF SiftDown
  <2>3. /\ c \in 1..n /\ Parent(c) = e /\ e < c
        /\ KeyAt(c) <= KeyAt(e) /\ KeyAt(c) <= KeyAt(l) /\ KeyAt(c) <= KeyAt(r)
    BY <1>3, <1>6, <2>1
  <2>4. \A s \in 2..n : Parent(s) = e => KeyAt(c) <= KeyAt(s)
    BY <1>4, <2>3
  <2>5. \A j \in 2..n :
              /\ Parent(j) # c => KeyAt(Parent(j))' <= KeyAt(j)'
              /\ Parent(j) = c => KeyAt(e)' <= KeyAt(j)'
    BY <1>1, <1>2, <1>3, <2>2, <2>3, <2>4, DownOrder
  <2>6. Len(heap') = n
    BY <1>1, <1>3, <2>2, <2>3, SwapProperties
  <2>7. HeapOrdered'
    BY <2>2, <2>3, <2>5, <2>6 DEF HeapOrdered
  <2>8. i' \in Nat \ {0}
    BY <2>2, <2>3
  <2> QED BY <1>2, <1>3, <2>2, <2>3, <2>7, <2>8, DownKeeps DEF MergeInv
<1> QED BY <1>5, <1>6

\* On the way down, behind the loop.
LEMMA SiftDownLastKeeps ==
    ASSUME MergeInv, SiftDownLast
    PROVE  MergeInv'
<1>1. TypeOK /\ HeapDistinct /\ HeapOrdered
  BY DEF MergeInv
<1>2. /\ pc = "down" /\ Right(i) > Len(heap) /\ pc' = "popped" /\ i' = i
      /\ UNCHANGED <<tape, pos, file, stage, buf, out, dropped>>
  BY DEF SiftDownLast
<1>3. PICK n \in Nat, e \in Nat \ {0}, l \in Nat :
        /\ n = Len(heap) /\ e = i /\ l = Left(e)
        /\ Parent(l) = e /\ e < l /\ n <= l
        /\ \A j \in 1..n : KeyAt(j) \in Nat
  <2>1. i \in Nat /\ i >= 1
    BY <1>1 DEF TypeOK
  <2>2. /\ Left(i) \in Nat /\ Left(i) > i /\ Parent(Left(i)) = i
        /\ Right(i) = Left(i) + 1 /\ Parent(Right(i)) = i
    BY <2>1, ChildOf
  <2>3. Len(heap) \in Nat /\ \A j \in 1..Len(heap) : KeyAt(j) \in Nat
    BY <1>1, HeapPeeks
  <2> QED BY <1>2, <2>1, <2>2, <2>3
<1>4. ASSUME NEW j \in 2..n, Parent(j) = e PROVE j = l
  BY <1>3, <1>4, ParentOf, ChildOf
<1>5. CASE l <= n /\ KeyAt(e) > KeyAt(l)
  <2>1. heap' = Swapped(e, l)
    BY <1>3, <1>5 DEF SiftDownLast
  <2>2. e \in 1..n /\ l \in 1..n /\ KeyAt(l) <= KeyAt(e)
    BY <1>3, <1>5
  <2>3. \A s \in 2..n : Parent(s) = e => KeyAt(l) <= KeyAt(s)
    BY <1>3, <1>4, <2>2
  <2>4. \A j \in 2..n : Parent(j) # l => KeyAt(Parent(j))' <= KeyAt(j)'
    BY <1>1, <1>2, <1>3, <2>1, <2>2, <2>3, DownOrder
  <2>5. ASSUME NEW j \in 2..n PROVE Parent(j) # l
    BY <1>3, ParentOf
  <2>6. Len(heap') = n
    BY <1>1, <1>3, <2>1, <2>2, SwapProperties
  <2>7. HeapOrdered'
    BY <1>2, <2>4, <2>5, <2>6 DEF HeapOrdered
  <2> QED BY <1>1, <1>2, <1>3, <2>1, <2>2, <2>7, DownKeeps DEF MergeInv, TypeOK
<1>6. CASE ~ (l <= n /\ KeyAt(e) > KeyAt(l))
  <2>1. heap' = heap
    BY <1>3, <1>6 DEF SiftDownLast
  <2>2. \A j : KeyAt(j)' = KeyAt(j)
    BY <1>2, <2>1 DEF KeyAt, Peek
  <2>3. HeapOrdered'
    <3> SUFFICES ASSUME NEW j \in 2..n PROVE KeyAt(Parent(j)) <= KeyAt(j)
      BY <1>2, <1>3, <2>1, <2>2 DEF HeapOrdered
    <3>1. CASE Parent(j) = e
      BY <1>3, <1>4, <1>6, <3>1
    <3>2. CASE Parent(j) # e
      BY <1>1, <1>2, <1>3, <3>2 DEF HeapOrdered
    <3> QED BY <3>1, <3>2
  <2> QED BY <1>1, <1>2, <2>1, <2>3, DownKeeps DEF MergeInv, TypeOK
<1> QED BY <1>5, <1>6

\* The steps that touch neither heap nor buf nor out: the end of a tape, the steps
\* from tape to tape, and the ends of the merge.
LEMMA OtherStepsKeep ==
    ASSUME MergeInv,
           \/ ReadEnd \/ ReadTorn \/ ReadError \/ NextFile \/ AllEmpty \/ OutputFails
    PROVE  MergeInv'
<1>1. /\ TypeOK /\ IndexInHeap /\ Filling /\ HeapDistinct /\ HeapOrdered
      /\ HeapSuffices /\ Least /\ OutAscending
  BY DEF MergeInv
<1>2. /\ UNCHANGED <<tape, pos, heap, i, stage, buf, out>>
      /\ pc \in {"read", "next", "popped"}
  BY DEF ReadEnd, ReadTorn, ReadError, NextFile, AllEmpty, OutputFails
<1>3. \/ UNCHANGED <<file, dropped>> /\ pc = "read" /\ pc' \in {"next", "hung"}
      \/ UNCHANGED file /\ pc = "read" /\ pc' = "next" /\ dropped' = dropped \union {file}
      \/ UNCHANGED dropped /\ pc = "next" /\ pc' = "read" /\ stage = "fill"
         /\ file < NoFiles /\ file' = file + 1
      \/ UNCHANGED <<file, dropped>> /\ pc = "next" /\ pc' = "done"
      \/ UNCHANGED <<file, dropped>> /\ pc' = "failed" /\ stage = "merge"
  BY DEF ReadEnd, ReadTorn, ReadError, NextFile, AllEmpty, OutputFails
<1>4. (\A j : KeyAt(j)' = KeyAt(j)) /\ (file' = file => (Peek(file))' = Peek(file))
  BY <1>2 DEF KeyAt, Peek
<1>5. NoFiles \in Nat /\ file \in Files /\ file \in Nat
  BY <1>1, <1>2, MergeAssumption DEF TypeOK, IndexInHeap, Files
<1>6. \A j \in 1..Len(heap) : heap[j] \in Files /\ heap[j] \in Nat
  BY <1>1, HeapPeeks DEF Files
<1>7. file' \in Files /\ file' \in Nat
  BY <1>3, <1>5 DEF Files
<1>8. TypeOK'
  BY <1>1, <1>2, <1>3, <1>5, <1>7 DEF TypeOK
<1>9. IndexInHeap'
  BY <1>1, <1>2, <1>3, <1>7 DEF IndexInHeap
<1>10. Filling' /\ HeapDistinct'
  BY <1>1, <1>2, <1>3, <1>5, <1>6 DEF Filling, HeapDistinct
<1>11. HeapOrdered'
  BY <1>1, <1>2, <1>3, HeapKept
<1>12. HeapSuffices' /\ Least' /\ OutAscending'
  BY <1>1, <1>2, <1>3, <1>4 DEF HeapSuffices, Least, OutAscending
<1> QED BY <1>8, <1>9, <1>10, <1>11, <1>12 DEF MergeInv

\* A record was popped: it begins buf, is added to it, or takes its place, and then
\* buf goes out with a key below all that are left.
LEMMA TakeKeeps ==
    ASSUME MergeInv, FirstRecord \/ SameKey \/ OtherKey
    PROVE  MergeInv'
<1>1. /\ TypeOK /\ IndexInHeap /\ Filling /\ HeapDistinct /\ HeapOrdered
      /\ HeapSuffices /\ Least /\ OutAscending
  BY DEF MergeInv
<1>2. /\ UNCHANGED <<tape, pos, heap, i, file, dropped>>
      /\ pc = "popped" /\ pc' = "read" /\ stage' = "merge" /\ stage # "fill"
  BY DEF FirstRecord, SameKey, OtherKey
<1>3. /\ file \in Files /\ pos[file] >= 1 /\ buf \in Record
      /\ Peek(file) \in Record /\ Peek(file).key \in Nat /\ Peek(file).count \in Nat
  BY <1>1, <1>2, PeekRecord DEF IndexInHeap, TypeOK
<1>4. /\ buf' \in Record /\ buf'.key = Peek(file).key
      /\ out' \in Seq(Record) /\ Ascending(out')
      /\ \A a \in 1..Len(out') : out'[a].key < buf'.key
  <2>1. CASE FirstRecord
    BY <1>1, <1>2, <1>3, <2>1 DEF FirstRecord, Least, Ascending
  <2>2. CASE SameKey
    <3>1. buf' = [buf EXCEPT !.count = @ + Peek(file).count] /\ out' = out
          /\ stage = "merge" /\ buf.key = Peek(file).key
      BY <2>2 DEF SameKey
    <3>2. buf' \in Record /\ buf'.key = buf.key
      BY <1>3, <3>1 DEF Record
    <3> QED BY <1>1, <1>2, <3>1, <3>2 DEF OutAscending, TypeOK
  <2>3. CASE OtherKey
    <3>1. /\ out' = Append(out, buf) /\ buf' = Peek(file) /\ stage = "merge"
          /\ buf.key # Peek(file).key
      BY <2>3 DEF OtherKey
    <3>2. out \in Seq(Record) /\ Ascending(out) /\ \A a \in 1..Len(out) : out[a].key < buf.key
      BY <1>1, <1>2, <3>1 DEF TypeOK, OutAscending
    <3>3. buf.key \in Nat /\ buf.key < Peek(file).key
      BY <1>1, <1>2, <1>3, <3>1 DEF Least, Record
    <3>4. \A a \in 1..Len(out) : out[a].key \in Nat
      <4>1. ASSUME NEW a \in 1..Len(out) PROVE out[a] \in Record
        BY <3>2, ElementOfSeq
      <4> QED BY <4>1 DEF Record
    <3>5. /\ out' \in Seq(Record) /\ Len(out') = Len(out) + 1 /\ Len(out) \in Nat
          /\ \A a \in 1..Len(out) : out'[a] = out[a]
          /\ out'[Len(out) + 1] = buf
      BY <1>3, <3>1, <3>2, AppendProperties
    <3>6. Ascending(out')
      BY <3>2, <3>5 DEF Ascending
    <3>7. ASSUME NEW a \in 1..Len(out') PROVE out'[a].key < buf'.key
      <4>1. out'[a].key \in Nat /\ out'[a].key <= buf.key
        BY <3>2, <3>3, <3>4, <3>5
      <4> QED BY <1>3, <3>1, <3>3, <4>1
    <3> QED BY <1>3, <3>1, <3>5, <3>6, <3>7
  <2> QED BY <2>1, <2>2, <2>3
<1>5. (\A j : KeyAt(j)' = KeyAt(j)) /\ (Peek(file))' = Peek(file)
  BY <1>2 DEF KeyAt, Peek
<1>6. TypeOK'
  BY <1>1, <1>2, <1>4 DEF TypeOK
<1>7. IndexInHeap' /\ Filling' /\ HeapDistinct' /\ HeapSuffices'
  BY <1>1, <1>2 DEF IndexInHeap, Filling, HeapDistinct, HeapSuffices
<1>8. HeapOrdered'
  BY <1>1, <1>2, HeapKept
<1>9. Least'
  BY <1>1, <1>2, <1>3, <1>4, <1>5 DEF Least
<1>10. OutAscending'
  BY <1>4 DEF OutAscending
<1> QED BY <1>6, <1>7, <1>8, <1>9, <1>10 DEF MergeInv

\* The heap is empty, and the last record goes out.
LEMMA LastKeeps ==
    ASSUME MergeInv, LastRecord
    PROVE  MergeInv'
<1>1. /\ TypeOK /\ IndexInHeap /\ Filling /\ HeapDistinct /\ HeapOrdered
      /\ HeapSuffices /\ Least /\ OutAscending
  BY DEF MergeInv
<1>2. /\ UNCHANGED <<tape, pos, heap, i, file, stage, buf, dropped>>
      /\ pc = "next" /\ pc' = "done" /\ stage = "merge" /\ out' = Append(out, buf)
  BY DEF LastRecord
<1>3. out \in Seq(Record) /\ Ascending(out) /\ \A a \in 1..Len(out) : out[a].key < buf.key
  BY <1>1, <1>2 DEF TypeOK, OutAscending
<1>4. /\ out' \in Seq(Record) /\ Len(out') = Len(out) + 1 /\ Len(out) \in Nat
      /\ \A a \in 1..Len(out) : out'[a] = out[a]
      /\ out'[Len(out) + 1] = buf
  BY <1>1, <1>2, <1>3, AppendProperties DEF TypeOK
<1>5. OutAscending'
  <2>1. SUFFICES ASSUME NEW a \in 1..(Len(out) + 1), NEW b \in 1..(Len(out) + 1), a < b
                 PROVE  out'[a].key < out'[b].key
    BY <1>2, <1>4 DEF OutAscending, Ascending
  <2>2. a \in 1..Len(out) /\ (b \in 1..Len(out) \/ b = Len(out) + 1)
    BY <1>4, <2>1
  <2>3. CASE b \in 1..Len(out)
    BY <1>3, <1>4, <2>1, <2>2, <2>3 DEF Ascending
  <2>4. CASE b = Len(out) + 1
    BY <1>3, <1>4, <2>2, <2>4
  <2> QED BY <2>2, <2>3, <2>4
<1>6. TypeOK'
  BY <1>1, <1>2, <1>4 DEF TypeOK
<1>7. IndexInHeap' /\ Filling' /\ HeapDistinct' /\ HeapSuffices' /\ Least'
  BY <1>1, <1>2 DEF IndexInHeap, Filling, HeapDistinct, HeapSuffices, Least
<1>8. HeapOrdered'
  BY <1>1, <1>2, HeapKept
<1> QED BY <1>5, <1>6, <1>7, <1>8 DEF MergeInv

\* Every step keeps the invariant.
LEMMA MergeStep == MergeInv /\ [Next]_vars => MergeInv'
<1> SUFFICES ASSUME MergeInv, [Next]_vars PROVE MergeInv'
  OBVIOUS
<1>1. CASE Next
  BY <1>1, ReadKeeps, SiftUpKeeps, PopKeeps, SiftDownKeeps, SiftDownLastKeeps,
     OtherStepsKeep, TakeKeeps, LastKeeps DEF Next
<1>2. CASE UNCHANGED vars
  <2>1. (\A j : KeyAt(j)' = KeyAt(j)) /\ (Peek(file))' = Peek(file)
        /\ Parent(i)' = Parent(i)
    BY <1>2 DEF vars, KeyAt, Peek
  <2>2. TypeOK' /\ IndexInHeap' /\ Filling' /\ HeapDistinct' /\ HeapSuffices'
    BY <1>2 DEF MergeInv, vars, TypeOK, IndexInHeap, Filling, HeapDistinct, HeapSuffices
  <2>3. HeapOrdered' /\ Least' /\ OutAscending'
    BY <1>2, <2>1 DEF MergeInv, vars, HeapOrdered, Least, OutAscending
  <2> QED BY <2>2, <2>3 DEF MergeInv
<1> QED BY <1>1, <1>2

\* The invariant holds in every behaviour.
LEMMA MergeInvariance == Spec => []MergeInv
  BY MergeInit, MergeStep, PTL DEF Spec

-----------------------------------------------------------------------------
(* What follows                                                            *)

\* Every variable of the merge has its type: no read passes the end of its tape,
\* and what the heap holds has a record ready (mertap_file_read_peek).
THEOREM MergeTyped == Spec => []TypeOK
<1>1. MergeInv => TypeOK
  BY DEF MergeInv
<1> QED BY <1>1, MergeInvariance, PTL

\* Through every step of mertap_heap_push and mertap_heap_pop the heap is one but
\* for the element that is being moved, no tape is in it twice, and the assertion
\* on its size holds for up to MAX_HEAP_FILES tapes.
THEOREM HeapIsSound == Spec => []HeapSound
<1>1. MergeInv => HeapSound
  BY DEF MergeInv, HeapSound
<1> QED BY <1>1, MergeInvariance, PTL

\* mertap_loop hands every key to f once, in ascending order, whatever the tapes
\* hold and however many there are.
THEOREM MergeAscends == Spec => []OutAscending
<1>1. MergeInv => OutAscending
  BY DEF MergeInv
<1> QED BY <1>1, MergeInvariance, PTL

-----------------------------------------------------------------------------
(* No count is lost or doubled                                             *)

\* What was handed out for a key or waits in buf.
Given(k) == SumOf(out, Len(out), k) + (IF BufHolds(k) THEN buf.count ELSE 0)

InHeap(f) == \E a \in 1..Len(heap) : heap[a] = f

\* What was given is what was taken.
CountsMatch == pc \notin {"failed", "aborted"} => \A k \in Nat : Given(k) = Taken(k)

\* Every tape that is not at its end is in the heap, or at hand, or has its turn
\* yet, or was given up; and at the end there is none of the first three.
Accounted ==
    pc \notin {"failed", "aborted"} =>
        \A f \in Files :
            \/ f \in dropped
            \/ pos[f] = Len(tape[f])
            \/ pc # "done" /\ InHeap(f)
            \/ pc \in {"read", "down", "popped"} /\ f = file
            \/ pc # "done" /\ stage = "fill" /\ f > file

CountInv == MergeInv /\ CountsMatch /\ Accounted

\* What a record adds to the count of a key.
Adds(r, k) == IF r.key = k THEN r.count ELSE 0

\* The sum over the first records of a tape or of the output, record by record.
LEMMA SumOfProperties ==
    ASSUME NEW s \in Seq(Record), NEW k \in Nat
    PROVE  /\ \A n \in 0..Len(s) : SumOf(s, n, k) \in Int
           /\ \A n \in 0..(Len(s) - 1) :
                s[n + 1] \in Record /\ SumOf(s, n + 1, k) = SumOf(s, n, k) + Adds(s[n + 1], k)
           /\ \A r \in Record : SumOf(Append(s, r), Len(s) + 1, k) =
                                SumOf(s, Len(s), k) + Adds(r, k)
           /\ SumOf(<<>>, 0, k) = 0
<1> DEFINE f == CountAt(s, k)
<1>1. Len(s) \in Nat /\ \A e \in 1..Len(s) : s[e] \in Record
  BY ElementOfSeq
<1>2. \A e \in 1..Len(s) : f[e] \in Int /\ f[e] = Adds(s[e], k)
  BY <1>1 DEF CountAt, Adds, Record
<1> HIDE DEF f
<1>3. ASSUME NEW n \in 0..Len(s) PROVE SumOf(s, n, k) \in Int
  <2>1. IsFiniteSet(1..n) /\ \A y \in 1..n : f[y] \in Int
    BY <1>1, <1>2, FS_Interval
  <2>2. SumFunctionOnSet(f, 1..n) \in Int
    BY <2>1, SumSplits
  <2> QED BY <2>2 DEF SumOf, f
<1>4. ASSUME NEW n \in 0..(Len(s) - 1)
      PROVE  s[n + 1] \in Record /\ SumOf(s, n + 1, k) = SumOf(s, n, k) + Adds(s[n + 1], k)
  <2>1. n \in Nat /\ n + 1 \in 1..Len(s) /\ \A y \in 1..n : f[y] \in Int /\ f[y] = f[y]
    BY <1>1, <1>2
  <2>2. SumFunctionOnSet(f, 1..(n + 1)) = SumFunctionOnSet(f, 1..n) + f[n + 1]
    BY <1>2, <2>1, SumExtends
  <2> QED BY <1>1, <1>2, <2>1, <2>2 DEF SumOf, f
<1>5. ASSUME NEW r \in Record
      PROVE  SumOf(Append(s, r), Len(s) + 1, k) = SumOf(s, Len(s), k) + Adds(r, k)
  <2> DEFINE g == CountAt(Append(s, r), k)
             n == Len(s)
  <2>1. /\ Len(Append(s, r)) = n + 1 /\ \A e \in 1..n : Append(s, r)[e] = s[e]
        /\ Append(s, r)[n + 1] = r
    BY AppendProperties
  <2>2. /\ \A e \in 1..n : g[e] = f[e]
        /\ g[n + 1] = Adds(r, k) /\ g[n + 1] \in Int
    BY <1>1, <2>1 DEF CountAt, Adds, Record, f
  <2> HIDE DEF g
  <2>3. SumFunctionOnSet(g, 1..(n + 1)) = SumFunctionOnSet(f, 1..n) + g[n + 1]
    BY <1>1, <1>2, <2>2, SumExtends
  <2> QED BY <2>2, <2>3 DEF SumOf, f, g
<1>6. SumOf(<<>>, 0, k) = 0
  <2>1. 1..0 = {}
    OBVIOUS
  <2> QED BY <2>1, SumEmpty DEF SumOf
<1> QED BY <1>3, <1>4, <1>5, <1>6

\* As long as the merge goes on, what is settled of a tape are records of it.
LEMMA SettledInTape ==
    ASSUME MergeInv, pc # "failed", NEW f \in Files
    PROVE  /\ Settled(f) \in 0..Len(tape[f]) /\ tape[f] \in Seq(Record)
           /\ Len(tape[f]) \in Nat
<1>1. TypeOK /\ IndexInHeap
  BY DEF MergeInv
<1>2. tape[f] \in Seq(Record) /\ Len(tape[f]) \in Nat /\ pos[f] \in Nat /\ pos[f] <= Len(tape[f])
  BY <1>1, MergeAssumption DEF TypeOK
<1>3. ASSUME Settled(f) # pos[f] PROVE Settled(f) = pos[f] - 1 /\ pos[f] >= 1
  BY <1>1, <1>3, HeapPeeks DEF Settled, IndexInHeap
<1> QED BY <1>2, <1>3

\* A step that settles nothing takes nothing.
LEMMA TakenStays ==
    ASSUME tape' = tape, \A f \in Files : Settled(f)' = Settled(f), NEW k
    PROVE  Taken(k)' = Taken(k)
<1> DEFINE F == [f \in Files |-> SumOf(tape[f], Settled(f), k)]
           G == [f \in Files |-> SumOf(tape'[f], Settled(f)', k)]
<1>1. F = G
  OBVIOUS
<1>2. Taken(k) = SumFunction(F) /\ Taken(k)' = SumFunction(G)
  BY DEF Taken, SumOf
<1> HIDE DEF F, G
<1> QED BY <1>1, <1>2

\* A step that settles one record of the tape e takes its count.
LEMMA TakenGrows ==
    ASSUME MergeInv, pc # "failed", tape' = tape, NEW e \in Files, NEW k \in Nat,
           Settled(e) < Len(tape[e]), Settled(e)' = Settled(e) + 1,
           \A f \in Files : f # e => Settled(f)' = Settled(f)
    PROVE  Taken(k)' = Taken(k) + Adds(tape[e][Settled(e) + 1], k) /\ Taken(k) \in Int
<1> DEFINE F == [f \in Files |-> SumOf(tape[f], Settled(f), k)]
           G == [f \in Files |-> SumOf(tape'[f], Settled(f)', k)]
           d == Adds(tape[e][Settled(e) + 1], k)
<1>1. Taken(k) = SumFunctionOnSet(F, Files) /\ Taken(k)' = SumFunctionOnSet(G, Files)
  BY DEF Taken, SumFunction, SumOf
<1>2. ASSUME NEW f \in Files PROVE F[f] \in Int
  BY SettledInTape, SumOfProperties
<1>3. d \in Int /\ G[e] = F[e] + d
  <2>1. /\ Settled(e) \in 0..(Len(tape[e]) - 1) /\ tape[e] \in Seq(Record)
    BY SettledInTape
  <2>2. /\ tape[e][Settled(e) + 1] \in Record
        /\ SumOf(tape[e], Settled(e) + 1, k) = SumOf(tape[e], Settled(e), k) + d
    BY <2>1, SumOfProperties
  <2> QED BY <2>2 DEF Adds, Record
<1>4. \A f \in Files : f # e => G[f] = F[f]
  OBVIOUS
<1>5. IsFiniteSet(Files)
  BY FS_Interval, MergeAssumption DEF Files
<1> HIDE DEF F, G, d
<1>6. SumFunctionOnSet(G, Files) = SumFunctionOnSet(F, Files) + d
  BY <1>2, <1>3, <1>4, <1>5, SumGrows
<1>7. SumFunctionOnSet(F, Files) \in Int
  BY <1>2, <1>5, SumSplits
<1> QED BY <1>1, <1>6, <1>7 DEF d

\* At the start nothing was taken and nothing given.
LEMMA CountInit == Init => CountInv
<1> SUFFICES ASSUME Init PROVE CountInv
  OBVIOUS
<1>1. MergeInv
  BY MergeInit
<1>2. CountsMatch
  <2> SUFFICES ASSUME NEW k \in Nat PROVE Given(k) = Taken(k)
    BY DEF CountsMatch
  <2> DEFINE F == [f \in Files |-> SumOf(tape[f], Settled(f), k)]
  <2>1. ASSUME NEW f \in Files PROVE F[f] = 0
    <3>1. Settled(f) = 0
      BY DEF Init, Settled
    <3>2. 1..0 = {}
      OBVIOUS
    <3> QED BY <3>1, <3>2, SumEmpty DEF SumOf
  <2>2. IsFiniteSet(Files)
    BY FS_Interval, MergeAssumption DEF Files
  <2>3. Taken(k) = SumFunctionOnSet(F, Files)
    BY DEF Taken, SumFunction
  <2>4. SumFunctionOnSet(F, Files) = 0
    <3> HIDE DEF F
    <3> QED BY <2>1, <2>2, SumZero
  <2>5. Given(k) = 0
    <3>1. <<>> \in Seq(Record)
      OBVIOUS
    <3>2. SumOf(<<>>, 0, k) = 0
      BY <3>1, SumOfProperties
    <3> QED BY <3>2 DEF Init, Given, BufHolds
  <2> QED BY <2>3, <2>4, <2>5
<1>3. Accounted
  <2>1. ASSUME NEW f \in Files PROVE f = 1 \/ f > 1
    BY MergeAssumption DEF Files
  <2>2. Files # {} => NoFiles # 0
    BY MergeAssumption DEF Files
  <2> QED BY <2>1, <2>2 DEF Accounted, Init
<1> QED BY <1>1, <1>2, <1>3 DEF CountInv

\* A step that settles nothing, takes no tape out of the account and leaves buf and
\* out alone.
LEMMA NothingTaken ==
    ASSUME CountsMatch, pc \notin {"failed", "aborted"}, tape' = tape,
           \A f \in Files : Settled(f)' = Settled(f),
           UNCHANGED <<buf, out>>,
           (stage = "merge" /\ pc # "done") <=> (stage' = "merge" /\ pc' # "done")
    PROVE  CountsMatch'
<1>1. \A k \in Nat : Taken(k)' = Taken(k)
  BY TakenStays
<1>2. \A k \in Nat : Given(k)' = Given(k)
  BY DEF Given, SumOf, BufHolds
<1> QED BY <1>1, <1>2 DEF CountsMatch

\* The record that is read is not settled, and its tape is in the heap.
LEMMA ReadCounts ==
    ASSUME CountInv, ReadRecord
    PROVE  CountsMatch' /\ Accounted'
<1>1. /\ TypeOK /\ HeapDistinct /\ CountsMatch /\ Accounted
  BY DEF CountInv, MergeInv
<1>2. /\ pc = "read" /\ pos' = [pos EXCEPT ![file] = @ + 1]
      /\ tape' = tape /\ file' = file /\ stage' = stage /\ buf' = buf /\ out' = out
      /\ dropped' = dropped
  BY DEF ReadRecord
<1>3. CASE pc' = "aborted"
  BY <1>3 DEF CountsMatch, Accounted
<1>4. CASE pc' = "up" /\ heap' = Append(heap, file)
  <2>1. /\ heap \in Seq(Files) /\ Len(heap) \in Nat /\ file \in Files /\ pos \in [Files -> Nat]
        /\ \A a \in 1..Len(heap) : heap[a] # file
    BY <1>1, <1>2 DEF TypeOK, HeapDistinct
  <2>2. /\ pos'[file] = pos[file] + 1
        /\ \A f \in Files : f # file => pos'[f] = pos[f]
    BY <1>2, <2>1
  <2>3. /\ Len(heap') = Len(heap) + 1 /\ heap'[Len(heap) + 1] = file
        /\ \A a \in 1..Len(heap) : heap'[a] = heap[a]
    <3>1. heap \in Seq(Files) /\ file \in Files
      BY <2>1
    <3>2. PICK h : h = Append(heap, file)
      OBVIOUS
    <3>3. /\ Len(h) = Len(heap) + 1 /\ h[Len(heap) + 1] = file
          /\ \A a \in 1..Len(heap) : h[a] = heap[a]
      BY <3>1, <3>2, AppendProperties
    <3> QED BY <1>4, <3>2, <3>3
  <2>4. ASSUME NEW f \in Files PROVE InHeap(f)' <=> (InHeap(f) \/ f = file)
    <3>1. CASE f = file
      BY <2>1, <2>3, <3>1 DEF InHeap
    <3>2. CASE f # file
      <4>1. ASSUME NEW a \in 1..Len(heap'), heap'[a] = f PROVE InHeap(f)
        <5>1. a \in 1..Len(heap) \/ a = Len(heap) + 1
          BY <2>1, <2>3
        <5> QED BY <2>3, <3>2, <4>1, <5>1 DEF InHeap
      <4>2. ASSUME NEW a \in 1..Len(heap), heap[a] = f PROVE InHeap(f)'
        <5>1. a \in 1..Len(heap')
          BY <2>1, <2>3
        <5> QED BY <2>3, <4>2, <5>1 DEF InHeap
      <4> QED BY <3>2, <4>1, <4>2 DEF InHeap
    <3> QED BY <3>1, <3>2
  <2>5. ~InHeap(file)
    BY <2>1 DEF InHeap
  <2>6. ASSUME NEW f \in Files PROVE Settled(f)' = Settled(f)
    <3>1. /\ Settled(f) = (IF InHeap(f) THEN pos[f] - 1 ELSE pos[f])
          /\ Settled(f)' = (IF InHeap(f)' THEN pos'[f] - 1 ELSE pos'[f])
      <4>1. Settled(f) = IF InHeap(f) \/ (pc \in {"down", "popped", "failed"} /\ f = file)
                         THEN pos[f] - 1 ELSE pos[f]
        BY DEF Settled, InHeap
      <4>2. Settled(f)' = IF InHeap(f)' \/ (pc' \in {"down", "popped", "failed"} /\ f = file')
                          THEN pos'[f] - 1 ELSE pos'[f]
        BY DEF Settled, InHeap
      <4>3. pc = "read" /\ pc' = "up"
        BY <1>2, <1>4
      <4> QED BY <4>1, <4>2, <4>3
    <3>2. pos[f] \in Nat
      BY <2>1
    <3>3. CASE f = file
      <4>1. InHeap(f)' /\ ~InHeap(f) /\ pos'[f] = pos[f] + 1
        BY <2>2, <2>4, <2>5, <3>3
      <4> QED BY <3>1, <3>2, <4>1
    <3>4. CASE f # file
      <4>1. (InHeap(f)' <=> InHeap(f)) /\ pos'[f] = pos[f]
        BY <2>2, <2>4, <3>4
      <4> QED BY <3>1, <4>1
    <3> QED BY <3>3, <3>4
  <2>7. CountsMatch'
    BY <1>1, <1>2, <1>4, <2>6, NothingTaken
  <2>8. Accounted'
    BY <1>1, <1>2, <1>4, <2>1, <2>2, <2>4 DEF Accounted
  <2> QED BY <2>7, <2>8
<1> QED BY <1>3, <1>4 DEF ReadRecord

\* The sifts move tapes within the heap.
LEMMA SiftCounts ==
    ASSUME CountInv, SiftUp \/ SiftDown \/ SiftDownLast
    PROVE  CountsMatch' /\ Accounted'
<1>1. /\ TypeOK /\ IndexInHeap /\ CountsMatch /\ Accounted
  BY DEF CountInv, MergeInv
<1>2. /\ UNCHANGED <<tape, pos, file, stage, buf, out, dropped>>
      /\ \/ pc = "up" /\ pc' \in {"up", "next"}
         \/ pc = "down" /\ pc' \in {"down", "popped"}
  BY DEF SiftUp, SiftDown, SiftDownLast
<1>3. heap' = heap \/ \E a, b \in 1..Len(heap) : heap' = Swapped(a, b)
  <2>1. Len(heap) \in Nat /\ i \in Nat \ {0}
    BY <1>1, HeapPeeks DEF TypeOK
  <2>2. CASE SiftUp
    <3>1. i \in 1..Len(heap)
      BY <1>1, <2>2 DEF IndexInHeap, SiftUp
    <3>2. i > 1 => Parent(i) \in 1..Len(heap)
      BY <2>1, <3>1, ParentOf
    <3> QED BY <2>2, <3>1, <3>2 DEF SiftUp
  <2>3. CASE SiftDown
    <3>1. /\ Right(i) <= Len(heap) /\ Left(i) \in Nat /\ Left(i) > i /\ Right(i) = Left(i) + 1
      BY <2>1, <2>3, ChildOf DEF SiftDown
    <3>2. i \in 1..Len(heap) /\ Left(i) \in 1..Len(heap) /\ Right(i) \in 1..Len(heap)
      BY <2>1, <3>1
    <3> QED BY <2>3, <3>2 DEF SiftDown
  <2>4. CASE SiftDownLast
    <3>1. Left(i) \in Nat /\ Left(i) > i
      BY <2>1, ChildOf
    <3>2. Left(i) <= Len(heap) => i \in 1..Len(heap) /\ Left(i) \in 1..Len(heap)
      BY <2>1, <3>1
    <3> QED BY <2>4, <3>2 DEF SiftDownLast
  <2> QED BY <2>2, <2>3, <2>4
<1>4. ASSUME NEW f PROVE InHeap(f)' <=> InHeap(f)
  <2>1. CASE heap' = heap
    BY <2>1 DEF InHeap
  <2>2. CASE \E a, b \in 1..Len(heap) : heap' = Swapped(a, b)
    <3>1. PICK a \in 1..Len(heap), b \in 1..Len(heap) : heap' = Swapped(a, b)
      BY <2>2
    <3>2. /\ Len(heap') = Len(heap)
          /\ \A j \in 1..Len(heap) : heap'[j] =
                IF j = b THEN heap[a] ELSE IF j = a THEN heap[b] ELSE heap[j]
      BY <1>1, <3>1, SwapProperties
    <3>3. InHeap(f)' => InHeap(f)
      BY <3>2 DEF InHeap
    <3>4. ASSUME NEW j \in 1..Len(heap) PROVE \E k \in 1..Len(heap) : heap'[k] = heap[j]
      BY <3>2
    <3>5. InHeap(f) => InHeap(f)'
      BY <3>2, <3>4 DEF InHeap
    <3> QED BY <3>3, <3>5
  <2> QED BY <1>3, <2>1, <2>2
<1>5. ASSUME NEW f \in Files PROVE Settled(f)' = Settled(f)
  <2>1. Settled(f) = IF InHeap(f) \/ (pc \in {"down", "popped", "failed"} /\ f = file)
                     THEN pos[f] - 1 ELSE pos[f]
    BY DEF Settled, InHeap
  <2>2. Settled(f)' = IF InHeap(f)' \/ (pc' \in {"down", "popped", "failed"} /\ f = file')
                      THEN pos'[f] - 1 ELSE pos'[f]
    BY DEF Settled, InHeap
  <2> QED BY <1>2, <1>4, <2>1, <2>2
<1>6. CountsMatch'
  BY <1>1, <1>2, <1>5, NothingTaken
<1>7. Accounted'
  BY <1>1, <1>2, <1>4 DEF Accounted
<1> QED BY <1>6, <1>7

\* The top leaves the heap and is at hand, its record not settled yet.
LEMMA PopCounts ==
    ASSUME CountInv, Pop
    PROVE  CountsMatch' /\ Accounted'
<1>1. /\ TypeOK /\ IndexInHeap /\ HeapDistinct /\ CountsMatch /\ Accounted
  BY DEF CountInv, MergeInv
<1>2. /\ pc = "next" /\ heap # <<>> /\ pc' = "down" /\ file' = heap[1]
      /\ stage' = (IF stage = "fill" THEN "first" ELSE "merge")
      /\ (stage = "fill" => file = NoFiles)
      /\ tape' = tape /\ pos' = pos /\ buf' = buf /\ out' = out /\ dropped' = dropped
  BY DEF Pop
<1>3. /\ heap \in Seq(Files) /\ Len(heap) \in Nat /\ Len(heap) >= 1
      /\ \A j \in 1..Len(heap) : heap[j] \in Files
  BY <1>1, <1>2, HeapPeeks, EmptySeq DEF TypeOK
<1>4. /\ Len(heap') = Len(heap) - 1
      /\ \A j \in 1..(Len(heap) - 1) : heap'[j] = IF j = 1 THEN heap[Len(heap)] ELSE heap[j]
  <2> DEFINE h == [heap EXCEPT ![1] = heap[Len(heap)]]
  <2>1. /\ h \in Seq(Files) /\ Len(h) = Len(heap)
        /\ \A j \in 1..Len(heap) : h[j] = IF j = 1 THEN heap[Len(heap)] ELSE heap[j]
    <3>1. 1 \in 1..Len(heap) /\ heap[Len(heap)] \in Files
      BY <1>3
    <3> QED BY <1>3, <3>1, ExceptSeq
  <2>2. heap' = SubSeq(h, 1, Len(heap) - 1)
    BY DEF Pop
  <2> HIDE DEF h
  <2>3. \A j \in 1..(Len(heap) - 1) : h[j] \in Files
    BY <1>3, <2>1, ElementOfSeq
  <2>4. /\ Len(heap') = Len(heap) - 1
        /\ \A j \in 1..(Len(heap) - 1) : heap'[j] = h[j]
    BY <1>3, <2>1, <2>2, <2>3
  <2> QED BY <1>3, <2>1, <2>4
<1>5. ASSUME NEW f \in Files PROVE InHeap(f) <=> (InHeap(f)' \/ f = file')
  <2>1. ASSUME InHeap(f), f # file' PROVE InHeap(f)'
    <3>1. PICK a \in 1..Len(heap) : heap[a] = f /\ a # 1
      BY <1>2, <2>1 DEF InHeap
    <3>2. CASE a = Len(heap)
      <4>1. 1 \in 1..(Len(heap) - 1) /\ heap'[1] = f
        BY <1>3, <1>4, <3>1, <3>2
      <4> QED BY <1>4, <4>1 DEF InHeap
    <3>3. CASE a # Len(heap)
      <4>1. a \in 1..(Len(heap) - 1) /\ heap'[a] = f
        BY <1>3, <1>4, <3>1, <3>3
      <4> QED BY <1>4, <4>1 DEF InHeap
    <3> QED BY <3>2, <3>3
  <2>2. f = file' => InHeap(f)
    BY <1>2, <1>3 DEF InHeap
  <2>3. ASSUME InHeap(f)' PROVE InHeap(f)
    <3>1. PICK a \in 1..(Len(heap) - 1) : heap'[a] = f
      BY <1>4, <2>3 DEF InHeap
    <3>2. a \in 1..Len(heap) /\ Len(heap) \in 1..Len(heap)
      BY <1>3
    <3> QED BY <1>4, <3>1, <3>2 DEF InHeap
  <2> QED BY <2>1, <2>2, <2>3
<1>6. ASSUME NEW f \in Files PROVE Settled(f)' = Settled(f)
  <2>1. Settled(f) = IF InHeap(f) THEN pos[f] - 1 ELSE pos[f]
    BY <1>2 DEF Settled, InHeap
  <2>2. Settled(f)' = IF InHeap(f)' \/ f = file' THEN pos[f] - 1 ELSE pos[f]
    BY <1>2 DEF Settled, InHeap
  <2> QED BY <1>5, <2>1, <2>2
<1>7. stage \in {"fill", "merge"}
  BY <1>1, <1>2 DEF TypeOK, IndexInHeap
<1>8. CountsMatch'
  BY <1>1, <1>2, <1>6, <1>7, NothingTaken
<1>9. Accounted'
  <2>1. ASSUME NEW f \in Files, stage = "fill" PROVE ~(f > file)
    BY <1>2, <2>1, MergeAssumption DEF Files
  <2> QED BY <1>1, <1>2, <1>5, <2>1 DEF Accounted
<1> QED BY <1>8, <1>9

\* The steps that neither move a tape nor settle a record.
LEMMA OtherCounts ==
    ASSUME CountInv,
           \/ ReadEnd \/ ReadTorn \/ ReadError \/ NextFile \/ AllEmpty \/ OutputFails
    PROVE  CountsMatch' /\ Accounted'
<1>1. /\ TypeOK /\ IndexInHeap /\ CountsMatch /\ Accounted
  BY DEF CountInv, MergeInv
<1>2. CASE OutputFails
  BY <1>2 DEF OutputFails, CountsMatch, Accounted
<1>3. CASE ReadEnd \/ ReadTorn \/ ReadError \/ NextFile \/ AllEmpty
  <2>1. /\ UNCHANGED <<tape, pos, heap, stage, buf, out>> /\ pc \in {"read", "next"}
        /\ pc' \in {"next", "hung", "read", "done"} /\ (pc' = "done" => stage = "fill")
        /\ pc # "done" /\ pc # "failed" /\ pc # "aborted"
    BY <1>3 DEF ReadEnd, ReadTorn, ReadError, NextFile, AllEmpty
  <2>2. ASSUME NEW f \in Files PROVE Settled(f)' = Settled(f)
    BY <2>1 DEF Settled
  <2>3. CountsMatch'
    BY <1>1, <2>1, <2>2, NothingTaken
  <2>4. \A f : InHeap(f)' <=> InHeap(f)
    BY <2>1 DEF InHeap
  <2>5. CASE ReadEnd \/ ReadTorn \/ ReadError
    BY <1>1, <2>1, <2>3, <2>4, <2>5 DEF Accounted, ReadEnd, ReadTorn, ReadError
  <2>6. CASE NextFile
    <3>1. file \in Files
      BY <1>1, <2>6 DEF IndexInHeap, NextFile
    <3>2. \A f \in Files : f > file => f = file + 1 \/ f > file + 1
      BY <3>1, MergeAssumption DEF Files
    <3> QED BY <1>1, <2>1, <2>3, <2>4, <2>6, <3>2 DEF Accounted, NextFile
  <2>7. CASE AllEmpty
    <3>1. \A f \in Files : ~(f > NoFiles)
      BY MergeAssumption DEF Files
    <3>2. \A f : ~InHeap(f)
      BY <2>7 DEF AllEmpty, InHeap
    <3> QED BY <1>1, <2>1, <2>3, <2>4, <2>7, <3>1, <3>2 DEF Accounted, AllEmpty
  <2> QED BY <1>3, <2>3, <2>5, <2>6, <2>7
<1> QED BY <1>2, <1>3

\* The record at hand is settled: its count is in buf, or begins a new buf while
\* the old one goes out.
LEMMA TakeCounts ==
    ASSUME CountInv, FirstRecord \/ SameKey \/ OtherKey
    PROVE  CountsMatch' /\ Accounted'
<1>1. /\ TypeOK /\ IndexInHeap /\ HeapDistinct /\ Least /\ CountsMatch /\ Accounted
      /\ MergeInv
  BY DEF CountInv, MergeInv
<1>2. /\ UNCHANGED <<tape, pos, heap, i, file, dropped>>
      /\ pc = "popped" /\ pc' = "read" /\ stage' = "merge" /\ stage \in {"first", "merge"}
  BY <1>1 DEF FirstRecord, SameKey, OtherKey, IndexInHeap, TypeOK
<1>3. /\ file \in Files /\ pos[file] \in 1..Len(tape[file])
      /\ Peek(file) \in Record /\ buf \in Record /\ out \in Seq(Record)
  BY <1>1, <1>2, PeekRecord DEF IndexInHeap, TypeOK
<1>4. \A f : InHeap(f)' <=> InHeap(f)
  BY <1>2 DEF InHeap
<1>5. ~InHeap(file)
  BY <1>1, <1>2 DEF HeapDistinct, InHeap
<1>6. /\ Settled(file) = pos[file] - 1 /\ Settled(file)' = pos[file]
      /\ \A f \in Files : f # file => Settled(f)' = Settled(f)
  BY <1>2, <1>4, <1>5 DEF Settled, InHeap
<1>7. ASSUME NEW k \in Nat
      PROVE  Taken(k)' = Taken(k) + Adds(Peek(file), k) /\ Taken(k) \in Int
  <2>1. PICK e \in Files : e = file
    BY <1>3
  <2>2. pos[e] \in Nat /\ pos[e] = (pos[e] - 1) + 1
    BY <1>3, <2>1
  <2>3. /\ Settled(e) = pos[e] - 1 /\ Settled(e)' = pos[e] /\ Settled(e) < Len(tape[e])
        /\ Settled(e)' = Settled(e) + 1
    <3>1. Settled(e)' = pos[e]
      BY <1>2, <1>4, <1>5, <2>1 DEF Settled, InHeap
    <3> QED BY <1>3, <1>6, <2>1, <2>2, <3>1
  <2>4. Taken(k)' = Taken(k) + Adds(tape[e][Settled(e) + 1], k) /\ Taken(k) \in Int
    BY <1>1, <1>2, <1>6, <2>1, <2>3, TakenGrows
  <2> QED BY <2>1, <2>2, <2>3, <2>4 DEF Peek
<1>8. ASSUME NEW k \in Nat PROVE Given(k)' = Given(k) + Adds(Peek(file), k)
  <2>1. Len(out) \in Nat /\ SumOf(out, Len(out), k) \in Int
    BY <1>3, SumOfProperties
  <2>2. Adds(Peek(file), k) \in Int /\ Adds(buf, k) \in Int
    BY <1>3 DEF Adds, Record
  <2>3. /\ Given(k) = SumOf(out, Len(out), k) + (IF stage = "merge" THEN Adds(buf, k) ELSE 0)
        /\ Given(k)' = SumOf(out', Len(out'), k) + Adds(buf', k)
    BY <1>2 DEF Given, BufHolds, Adds, SumOf, CountAt
  <2>4. CASE FirstRecord
    <3>1. buf' = Peek(file) /\ out' = out /\ stage = "first"
      BY <2>4 DEF FirstRecord
    <3> QED BY <2>1, <2>2, <2>3, <3>1
  <2>5. CASE SameKey
    <3>1. /\ buf' = [buf EXCEPT !.count = @ + Peek(file).count] /\ out' = out
          /\ stage = "merge" /\ buf.key = Peek(file).key
      BY <2>5 DEF SameKey
    <3>2. Adds(buf', k) = Adds(buf, k) + Adds(Peek(file), k)
      BY <1>3, <3>1 DEF Adds, Record
    <3> QED BY <2>1, <2>2, <2>3, <3>1, <3>2
  <2>6. CASE OtherKey
    <3>1. out' = Append(out, buf) /\ buf' = Peek(file) /\ stage = "merge"
      BY <2>6 DEF OtherKey
    <3>2. Len(out') = Len(out) + 1
      BY <1>3, <3>1
    <3>3. SumOf(out', Len(out'), k) = SumOf(out, Len(out), k) + Adds(buf, k)
      BY <1>3, <3>1, <3>2, SumOfProperties
    <3> QED BY <2>1, <2>2, <2>3, <3>1, <3>3
  <2> QED BY <2>4, <2>5, <2>6
<1>9. CountsMatch'
  BY <1>1, <1>2, <1>7, <1>8 DEF CountsMatch
<1>10. Accounted'
  BY <1>1, <1>2, <1>4 DEF Accounted
<1> QED BY <1>9, <1>10

\* The last record goes out of buf, when every tape is at its end or given up.
LEMMA LastCounts ==
    ASSUME CountInv, LastRecord
    PROVE  CountsMatch' /\ Accounted'
<1>1. /\ TypeOK /\ CountsMatch /\ Accounted
  BY DEF CountInv, MergeInv
<1>2. /\ UNCHANGED <<tape, pos, heap, i, file, stage, buf, dropped>>
      /\ pc = "next" /\ pc' = "done" /\ stage = "merge" /\ out' = Append(out, buf)
  BY DEF LastRecord
<1>3. \A f \in Files : Settled(f)' = Settled(f)
  BY <1>2 DEF Settled
<1>4. ASSUME NEW k \in Nat PROVE Given(k)' = Given(k)
  <2>1. buf \in Record /\ out \in Seq(Record) /\ Len(out') = Len(out) + 1
    BY <1>1, <1>2 DEF TypeOK
  <2>2. SumOf(out', Len(out'), k) = SumOf(out, Len(out), k) + Adds(buf, k)
        /\ SumOf(out, Len(out), k) \in Int /\ Adds(buf, k) \in Int
    BY <1>2, <2>1, SumOfProperties DEF Adds, Record
  <2>3. /\ Given(k) = SumOf(out, Len(out), k) + Adds(buf, k)
        /\ Given(k)' = SumOf(out', Len(out'), k) + 0
    BY <1>2 DEF Given, BufHolds, Adds, SumOf, CountAt
  <2> QED BY <2>2, <2>3
<1>5. CountsMatch'
  BY <1>1, <1>2, <1>3, <1>4, TakenStays DEF CountsMatch
<1>6. Accounted'
  <2>1. \A f : ~InHeap(f)
    BY DEF LastRecord, InHeap
  <2> QED BY <1>1, <1>2, <2>1 DEF Accounted
<1> QED BY <1>5, <1>6

\* Every step keeps the account.
LEMMA CountStep == CountInv /\ [Next]_vars => CountInv'
<1> SUFFICES ASSUME CountInv, [Next]_vars PROVE CountInv'
  OBVIOUS
<1>1. MergeInv'
  BY MergeStep DEF CountInv
<1>2. CASE Next
  <2>1. CountsMatch' /\ Accounted'
    BY <1>2, ReadCounts, SiftCounts, PopCounts, OtherCounts, TakeCounts, LastCounts DEF Next
  <2> QED BY <1>1, <2>1 DEF CountInv
<1>3. CASE UNCHANGED vars
  <2>1. (\A f : Settled(f)' = Settled(f)) /\ (\A f : InHeap(f)' <=> InHeap(f))
    BY <1>3 DEF vars, Settled, InHeap
  <2>2. CountsMatch'
    <3>1. CASE pc \in {"failed", "aborted"}
      BY <1>3, <3>1 DEF vars, CountsMatch
    <3>2. CASE pc \notin {"failed", "aborted"}
      BY <1>3, <2>1, <3>2, NothingTaken DEF vars, CountInv
    <3> QED BY <3>1, <3>2
  <2>3. Accounted'
    BY <1>3, <2>1 DEF vars, CountInv, Accounted
  <2> QED BY <1>1, <2>2, <2>3 DEF CountInv
<1> QED BY <1>2, <1>3

\* No count is lost or doubled by the merge: what went to f and waits in buf is, for
\* every key, the sum of what was taken from the tapes, and a merge that returns 0
\* took every tape to its end, but those a read error cut short.
THEOREM MergeKeepsCounts == Spec => []CountsKept
<1>1. CountInv => CountsKept
  <2> SUFFICES ASSUME CountInv PROVE CountsKept
    OBVIOUS
  <2>1. ASSUME pc \notin {"failed", "aborted"},
               NEW k \in UNION {{r.key : r \in {tape[f][e] : e \in 1..Len(tape[f])}} : f \in Files}
        PROVE  SumOf(out, Len(out), k) + (IF BufHolds(k) THEN buf.count ELSE 0) = Taken(k)
    <3>1. PICK f \in Files : \E e \in 1..Len(tape[f]) : k = tape[f][e].key
      OBVIOUS
    <3>0. PICK e \in 1..Len(tape[f]) : k = tape[f][e].key
      BY <3>1
    <3>2. tape[f] \in Seq(Record)
      BY MergeAssumption DEF CountInv, MergeInv, TypeOK
    <3>3. tape[f][e] \in Record
      BY <3>1, <3>2, ElementOfSeq
    <3>4. k \in Nat
      BY <3>0, <3>3 DEF Record
    <3> QED BY <2>1, <3>4 DEF CountInv, CountsMatch, Given
  <2>2. ASSUME pc = "done", NEW f \in Files PROVE f \in dropped \/ pos[f] = Len(tape[f])
    BY <2>2 DEF CountInv, Accounted
  <2> QED BY <2>1, <2>2 DEF CountsKept
<1> QED BY <1>1, CountInit, CountStep, PTL DEF Spec

=============================================================================
