----------------------------- MODULE SfbtiProofs -----------------------------
(***************************************************************************)
(* Theorems about a tree file, for every record size K >= 2, key set and   *)
(* node size: first about its writer, whatever the width of its offsets,   *)
(* then about its reader, where no offset wraps, and last that the two     *)
(* together implement the store of CountStore.                             *)
(*                                                                         *)
(* The writer's inductive invariant, IInv, ties the position variables of  *)
(* sfbti_finalize to the chain of parents: between any two of its steps    *)
(* the next batch to collect starts where the last parent's batch ended.   *)
(* OrderInv adds the order of the keys, and FileInv the size of the file   *)
(* and where every generation starts.  ReaderInv says of the reader that   *)
(* the children whose turn has come are the cached nodes and the counted   *)
(* leaves, and that a search is where the key it asks for belongs.         *)
(***************************************************************************)
EXTENDS SfbtiTree, Sums

-----------------------------------------------------------------------------
(***************************************************************************)
(* The writer.  Nothing up to the size of the file rests on                *)
(* TreeAssumption, which is the reader's: the theorems about SfbtiWrite    *)
(* cite WriteAssumption alone, and hold whether or not offsets wrap.       *)
(***************************************************************************)

\* The offset of the first node that has no parent yet.
NextChild == IF Len(nodes) = leaves + 1 THEN 1 ELSE BatchEnd(Len(nodes))

\* While entries are added the file holds full leaves only.
AddingInv ==
    phase \in {"adding", "broken"} =>
        /\ Len(nodes) = leaves + 1
        /\ gen = 1
        /\ current.leaf
        /\ Len(current.ent) <= K
        /\ nodes[1] = Blank
        /\ Len(added) = leaves * K + Len(current.ent)
        /\ \A s \in 1..Len(current.ent) : current.ent[s] = added[leaves * K + s]

\* Between two generations the last one starts at the first node without parent,
\* and it is all leaves or none.
GenInv ==
    phase \in {"check", "parents_begin", "root"} =>
        /\ current = Blank
        /\ nodes[1] = Blank
        /\ gen >= 1 /\ gen < Len(nodes)
        /\ NextChild = gen
        /\ IF gen = 1 THEN Len(nodes) = leaves + 1 ELSE gen >= leaves + 1

\* Inside sfbti_write_parents the collected batch is the one at the first node
\* without parent, and it never reaches past the generation.
ParentsInv ==
    phase = "parents" =>
        /\ current = Blank
        /\ nodes[1] = Blank
        /\ gen >= 1 /\ gen < next_gen /\ next_gen <= Len(nodes)
        /\ IF gen = 1 THEN next_gen = leaves + 1 ELSE gen >= leaves + 1
        /\ gen <= last_gen_cur /\ last_gen_cur <= next_gen
        /\ Len(collected) <= K
        /\ NextChild = last_gen_cur - Len(collected)
        /\ NextChild >= gen
        /\ collected = Collect(nodes, NextChild, last_gen_cur)
        /\ collected = <<>> => last_gen_cur = next_gen
        /\ Len(nodes) = next_gen => NextChild = gen

\* The root fits.
RootInv == phase = "root" => Len(nodes) - gen <= K

\* Between the last flush and the end nothing is pending.
PendingInv ==
    phase \notin {"adding", "broken", "failed", "crashed"} => current = Blank

IInv ==
    /\ TypeOK
    /\ LeafLayout
    /\ EntriesInOrder
    /\ ParentsChain
    /\ RootCommits
    /\ AddingInv
    /\ GenInv
    /\ ParentsInv
    /\ RootInv
    /\ PendingInv

-----------------------------------------------------------------------------
(***************************************************************************)
(* The helpers.                                                            *)
(***************************************************************************)

\* What most steps need of the constants.
LEMMA ConstantTypes ==
    K \in Nat /\ K >= 2 /\ NodeSize \in Nat \ {0} /\ OffsetModulus \in Nat \ {0}
  BY WriteAssumption

\* A stored offset is a natural, cut to its width or not.
LEMMA ByteOffsetNat ==
    ASSUME NEW o \in Nat
    PROVE  ByteOffset(o) \in Nat
<1>1. o * NodeSize \in Nat
  BY ConstantTypes
<1>2. \A a \in Nat, m \in Nat \ {0} : a % m \in Nat
  OBVIOUS
<1>3. QED
  BY <1>1, <1>2, ConstantTypes DEF ByteOffset

\* The first key of a node is a natural, that of a node without entries too.
LEMMA FirstKeyNat ==
    ASSUME NEW nd \in Node
    PROVE  FirstKey(nd) \in Nat
<1>1. nd.ent \in Seq(Entry)
  BY DEF Node
<1>2. CASE nd.ent # <<>>
  <2>1. nd.ent[1] \in Entry
    BY <1>1, <1>2
  <2>2. QED
    BY <2>1, <1>2 DEF FirstKey, Entry
<1>3. QED
  BY <1>2 DEF FirstKey

\* A batch has at most K children, one for each node of the range otherwise.
LEMMA CollectType ==
    ASSUME NEW file \in Seq(Node), NEW from \in Nat, NEW stop \in Nat,
           from <= stop, stop <= Len(file)
    PROVE  /\ Collect(file, from, stop) \in Seq(Entry)
           /\ Len(Collect(file, from, stop)) = Lesser(K, stop - from)
           /\ Lesser(K, stop - from) \in 0..K
           /\ Lesser(K, stop - from) <= stop - from
<1> DEFINE n == Lesser(K, stop - from)
           entry(s) == [key |-> FirstKey(file[from + s]), val |-> ByteOffset(from + s - 1)]
<1>1. n \in 0..K /\ n <= stop - from
  BY ConstantTypes DEF Lesser
<1>2. ASSUME NEW s \in 1..n PROVE entry(s) \in Entry
  <2>1. from + s \in 1..Len(file) /\ from + s - 1 \in Nat
    BY <1>1
  <2>2. file[from + s] \in Node
    BY <2>1
  <2>3. FirstKey(file[from + s]) \in Nat /\ ByteOffset(from + s - 1) \in Nat
    BY <2>1, <2>2, FirstKeyNat, ByteOffsetNat
  <2>4. QED
    BY <2>3 DEF Entry
<1>3. Collect(file, from, stop) = [s \in 1..n |-> entry(s)]
  BY DEF Collect
<1> HIDE DEF n, entry
<1>4. [s \in 1..n |-> entry(s)] \in Seq(Entry) /\ Len([s \in 1..n |-> entry(s)]) = n
  BY <1>1, <1>2
<1>5. QED
  BY <1>1, <1>3, <1>4 DEF n

\* A batch depends on the nodes of its range only.
LEMMA CollectSame ==
    ASSUME NEW f, NEW g, NEW from \in Nat, NEW stop \in Nat,
           from <= stop, \A p \in (from+1)..stop : f[p] = g[p]
    PROVE  Collect(f, from, stop) = Collect(g, from, stop)
<1>1. \A s \in 1..Lesser(K, stop - from) : f[from + s] = g[from + s]
  BY ConstantTypes DEF Lesser
<1>2. QED
  BY <1>1 DEF Collect

\* Cutting the range down to the batch itself changes nothing.
LEMMA CollectExact ==
    ASSUME NEW f, NEW from \in Nat, NEW stop \in Nat, from <= stop
    PROVE  Collect(f, from, stop) = Collect(f, from, from + Lesser(K, stop - from))
<1> DEFINE n == Lesser(K, stop - from)
<1>1. Lesser(K, (from + n) - from) = n
  BY ConstantTypes DEF Lesser
<1>2. QED
  BY <1>1 DEF Collect

-----------------------------------------------------------------------------

\* A file that was just created satisfies the invariant.
LEMMA InitIInv == Init => IInv
<1> SUFFICES ASSUME Init PROVE IInv
  OBVIOUS
<1> USE ConstantTypes DEF Init
<1>1. Blank \in Node /\ EmptyLeaf \in Node
  BY DEF Blank, EmptyLeaf, Node
<1>2. TypeOK
  BY <1>1 DEF TypeOK, Phases
<1>3. LeafLayout /\ ParentsChain /\ RootCommits
  BY DEF LeafLayout, ParentsChain, RootCommits, Blank
<1>4. EntriesInOrder
  BY DEF EntriesInOrder
<1>5. AddingInv /\ GenInv /\ ParentsInv /\ RootInv /\ PendingInv
  BY DEF AddingInv, GenInv, ParentsInv, RootInv, PendingInv, EmptyLeaf
<1>6. QED
  BY <1>2, <1>3, <1>4, <1>5 DEF IInv

-----------------------------------------------------------------------------
(***************************************************************************)
(* Adding entries.                                                         *)
(***************************************************************************)

\* What appending to a sequence does, element by element.
LEMMA AppendFacts ==
    ASSUME NEW S, NEW seq \in Seq(S), NEW x \in S
    PROVE  /\ Append(seq, x) \in Seq(S)
           /\ Len(Append(seq, x)) = Len(seq) + 1
           /\ \A p \in 1..Len(seq) : Append(seq, x)[p] = seq[p]
           /\ Append(seq, x)[Len(seq) + 1] = x
  OBVIOUS

\* Writing the pending leaf: what both flushes of sfbti_flush_record share.
LEMMA FlushLeaf ==
    ASSUME IInv, phase = "adding", Flush(current, 0), leaves' = leaves + 1
    PROVE  /\ nodes' \in Seq(Node) /\ Len(nodes') = leaves + 2
           /\ first' \in Seq(Nat) /\ Len(first') = Len(nodes')
           /\ nodes'[1] = Blank
           /\ LeafLayout'
           /\ \A p \in 2..(leaves+1) : nodes'[p] = nodes[p]
           /\ nodes'[leaves + 2] = current
<1> USE ConstantTypes
<1>1. /\ nodes \in Seq(Node) /\ current \in Node /\ leaves \in Nat
      /\ first \in Seq(Nat) /\ Len(first) = Len(nodes)
      /\ Len(nodes) = leaves + 1 /\ nodes[1] = Blank /\ current.leaf
  BY DEF IInv, TypeOK, AddingInv
<1>2. nodes' = Append(nodes, current) /\ first' = Append(first, 0)
  BY DEF Flush
<1>3. /\ nodes' \in Seq(Node) /\ Len(nodes') = leaves + 2
      /\ \A p \in 1..(leaves+1) : nodes'[p] = nodes[p]
      /\ nodes'[leaves + 2] = current
  BY <1>1, <1>2, AppendFacts
<1>4. first' \in Seq(Nat) /\ Len(first') = leaves + 2
  BY <1>1, <1>2, AppendFacts
<1>5. LeafLayout'
  <2>1. ~nodes'[1].leaf
    BY <1>1, <1>3 DEF Blank
  <2>2. \A p \in 2..(leaves+1) : nodes[p].leaf
    BY <1>1 DEF IInv, LeafLayout
  <2>3. \A p \in 2..(leaves+2) : nodes'[p].leaf
    BY <2>2, <1>1, <1>3
  <2>4. QED
    BY <2>1, <2>3, <1>1, <1>3 DEF LeafLayout
<1>6. QED
  BY <1>1, <1>3, <1>4, <1>5

\* The entries of the flushed leaf are found in the file where they were pending.
LEMMA FlushLeafEntries ==
    ASSUME IInv, phase = "adding", Flush(current, 0), leaves' = leaves + 1
    PROVE  /\ \A e \in 1..Len(added) :
                \E p \in 2..(leaves+2) : \E s \in 1..Len(nodes'[p].ent) :
                   e = (p - 2) * K + s /\ nodes'[p].ent[s] = added[e]
           /\ \A p \in 2..(leaves+2) : \A s \in 1..Len(nodes'[p].ent) :
                /\ (p - 2) * K + s \in 1..Len(added)
                /\ nodes'[p].ent[s] = added[(p - 2) * K + s]
<1> USE ConstantTypes
<1>1. /\ leaves \in Nat /\ K \in Nat /\ current.ent \in Seq(Entry) /\ added \in Seq(Entry)
      /\ Len(added) = leaves * K + Len(current.ent)
      /\ \A s \in 1..Len(current.ent) : current.ent[s] = added[leaves * K + s]
  BY DEF IInv, TypeOK, AddingInv, Node
<1>2. /\ \A p \in 2..(leaves+1) : nodes'[p] = nodes[p]
      /\ nodes'[leaves + 2] = current
  BY FlushLeaf
<1>3. leaves * K \in Nat /\ ((leaves + 2) - 2) * K = leaves * K
  BY <1>1
<1>4. ASSUME NEW e \in 1..Len(added)
      PROVE  \E p \in 2..(leaves+2) : \E s \in 1..Len(nodes'[p].ent) :
                e = (p - 2) * K + s /\ nodes'[p].ent[s] = added[e]
  <2>1. CASE \E p \in 2..(leaves+1) : \E s \in 1..Len(nodes[p].ent) :
                e = (p - 2) * K + s /\ nodes[p].ent[s] = added[e]
    <3>1. PICK p \in 2..(leaves+1) : \E s \in 1..Len(nodes[p].ent) :
                e = (p - 2) * K + s /\ nodes[p].ent[s] = added[e]
      BY <2>1
    <3>2. p \in 2..(leaves+2) /\ nodes'[p] = nodes[p]
      BY <1>1, <1>2
    <3>3. QED
      BY <3>1, <3>2
  <2>2. CASE \E s \in 1..Len(current.ent) : e = leaves * K + s /\ current.ent[s] = added[e]
    <3>1. PICK s \in 1..Len(current.ent) : e = leaves * K + s /\ current.ent[s] = added[e]
      BY <2>2
    <3>2. leaves + 2 \in 2..(leaves+2)
      BY <1>1
    <3>3. e = ((leaves + 2) - 2) * K + s
      BY <3>1, <1>3
    <3>4. QED
      BY <3>1, <3>2, <3>3, <1>2
  <2>3. QED
    BY <2>1, <2>2 DEF IInv, EntriesInOrder
<1>5. ASSUME NEW p \in 2..(leaves+2), NEW s \in 1..Len(nodes'[p].ent)
      PROVE  /\ (p - 2) * K + s \in 1..Len(added)
             /\ nodes'[p].ent[s] = added[(p - 2) * K + s]
  <2>1. CASE p \in 2..(leaves+1)
    BY <2>1, <1>2 DEF IInv, EntriesInOrder
  <2>2. CASE p = leaves + 2
    <3>1. (p - 2) * K = leaves * K /\ nodes'[p] = current
      BY <2>2, <1>2, <1>3
    <3>2. leaves * K + s \in 1..Len(added)
      <4>1. Len(current.ent) \in Nat /\ s \in 1..Len(current.ent)
        BY <3>1, <1>1
      <4>2. \A a, b \in Nat : \A x \in 1..b : a + x \in 1..(a + b)
        OBVIOUS
      <4>3. QED
        BY <4>1, <4>2, <1>1, <1>3
    <3>3. QED
      BY <3>1, <3>2, <1>1
  <2>3. p \in 2..(leaves+1) \/ p = leaves + 2
    BY <1>1
  <2>4. QED
    BY <2>1, <2>2, <2>3
<1>6. QED
  BY <1>4, <1>5

\* Adding an entry keeps the invariant, whether it flushes a full leaf or not.
LEMMA AddEntryIInv ==
    ASSUME IInv, NEW k \in Nat, NEW c \in Nat, AddEntry(k, c)
    PROVE  IInv'
<1> DEFINE entry == [key |-> k, val |-> c]
<1> USE ConstantTypes
<1>1. /\ phase = "adding" /\ phase' = "adding" /\ gen' = gen /\ next_gen' = next_gen
      /\ last_gen_cur' = last_gen_cur /\ collected' = collected
      /\ added' = Append(added, entry)
  BY DEF AddEntry
<1>2. /\ leaves \in Nat /\ K \in Nat /\ current \in Node /\ current.ent \in Seq(Entry)
      /\ added \in Seq(Entry) /\ entry \in Entry /\ nodes \in Seq(Node)
      /\ Len(nodes) = leaves + 1 /\ gen = 1 /\ current.leaf /\ Len(current.ent) <= K
      /\ nodes[1] = Blank
      /\ Len(added) = leaves * K + Len(current.ent)
      /\ \A s \in 1..Len(current.ent) : current.ent[s] = added[leaves * K + s]
      /\ leaves * K \in Nat
  BY <1>1 DEF IInv, TypeOK, AddingInv, Node, Entry
<1> HIDE DEF entry
<1>3. /\ added' \in Seq(Entry) /\ Len(added') = Len(added) + 1
      /\ \A e \in 1..Len(added) : added'[e] = added[e]
      /\ added'[Len(added) + 1] = entry
  <2>1. added \in Seq(Entry) /\ entry \in Entry /\ added' = Append(added, entry)
    BY <1>1, <1>2
  <2>2. QED
    BY <2>1, AppendFacts
<1> DEFINE a == Len(added)
           l == Len(current.ent)
           base == leaves * K
<1>num. /\ a \in Nat /\ l \in Nat /\ base \in Nat /\ leaves \in Nat
        /\ a = base + l /\ Len(added') = a + 1 /\ l <= K
  <2>1. \A seq \in Seq(Entry) : Len(seq) \in Nat
    OBVIOUS
  <2>2. a \in Nat /\ l \in Nat
    BY <1>2, <2>1
  <2>3. base \in Nat /\ leaves \in Nat /\ l <= K /\ a = base + l
    BY <1>2
  <2>4. Len(added') = a + 1
    BY <1>3
  <2>5. QED
    BY <2>2, <2>3, <2>4
<1>sub. 1..a \subseteq 1..Len(added')
  <2>1. \A n \in Nat : 1..n \subseteq 1..(n+1)
    OBVIOUS
  <2>2. QED
    BY <1>num, <2>1
<1>cur. \A s \in 1..l : base + s \in 1..a /\ current.ent[s] = added[base + s]
  <2>1. \A s \in 1..l : base + s \in 1..a
    BY <1>num
  <2>2. QED
    BY <2>1, <1>2
<1>add. (\A e \in 1..a : added'[e] = added[e]) /\ added'[a + 1] = entry
  BY <1>3
<1> HIDE DEF a, l, base
<1>4. CASE Len(current.ent) = K
  <2>1. /\ Flush(current, 0) /\ leaves' = leaves + 1
        /\ current' = [leaf |-> TRUE, ent |-> <<entry>>]
    BY <1>4 DEF AddEntry, EmptyLeaf, entry
  <2>2. /\ nodes' \in Seq(Node) /\ Len(nodes') = leaves' + 1
        /\ first' \in Seq(Nat) /\ Len(first') = Len(nodes')
        /\ nodes'[1] = Blank
        /\ LeafLayout'
    BY <2>1, <1>1, <1>2, FlushLeaf
  <2>3. /\ \A e \in 1..Len(added) :
            \E p \in 2..(leaves'+1) : \E s \in 1..Len(nodes'[p].ent) :
               e = (p - 2) * K + s /\ nodes'[p].ent[s] = added[e]
        /\ \A p \in 2..(leaves'+1) : \A s \in 1..Len(nodes'[p].ent) :
            /\ (p - 2) * K + s \in 1..Len(added)
            /\ nodes'[p].ent[s] = added[(p - 2) * K + s]
    <3>1. leaves' + 1 = leaves + 2
      BY <2>1, <1>2
    <3>2. QED
      BY <3>1, <2>1, <1>1, FlushLeafEntries
  <2>4. /\ current' \in Node /\ current'.leaf /\ Len(current'.ent) = 1
        /\ current'.ent[1] = entry
    BY <2>1, <1>2 DEF Node
  <2>5. a = leaves' * K
    <3>1. \A x, y \in Nat : (x + 1) * y = x * y + y
      OBVIOUS
    <3>2. (leaves + 1) * K = base + K
      BY <3>1, <1>num DEF base
    <3>3. l = K
      BY <1>4 DEF l
    <3>4. QED
      BY <3>2, <3>3, <1>num, <2>1
  <2>6. TypeOK'
    BY <2>1, <2>2, <2>4, <1>1, <1>2, <1>3 DEF IInv, TypeOK
  <2>7. EntriesInOrder'
    <3>1. ASSUME NEW e \in 1..Len(added')
          PROVE  \/ \E p \in 2..(leaves'+1) : \E s \in 1..Len(nodes'[p].ent) :
                      e = (p - 2) * K + s /\ nodes'[p].ent[s] = added'[e]
                 \/ \E s \in 1..Len(current'.ent) :
                      e = leaves' * K + s /\ current'.ent[s] = added'[e]
      <4>1. CASE e \in 1..a
        <5>1. added'[e] = added[e]
          BY <4>1, <1>add
        <5>2. \E p \in 2..(leaves'+1) : \E s \in 1..Len(nodes'[p].ent) :
                 e = (p - 2) * K + s /\ nodes'[p].ent[s] = added[e]
          BY <4>1, <2>3 DEF a
        <5>3. QED
          BY <5>1, <5>2
      <4>2. CASE e = a + 1
        <5>1. 1 \in 1..Len(current'.ent) /\ e = leaves' * K + 1
                /\ current'.ent[1] = added'[e]
          BY <4>2, <2>4, <2>5, <1>add
        <5>2. QED
          BY <5>1
      <4>3. e \in 1..a \/ e = a + 1
        BY <1>num
      <4>4. QED
        BY <4>1, <4>2, <4>3
    <3>2. ASSUME NEW p \in 2..(leaves'+1), NEW s \in 1..Len(nodes'[p].ent)
          PROVE  /\ (p - 2) * K + s \in 1..Len(added')
                 /\ nodes'[p].ent[s] = added'[(p - 2) * K + s]
      <4>1. /\ (p - 2) * K + s \in 1..Len(added)
            /\ nodes'[p].ent[s] = added[(p - 2) * K + s]
        BY <2>3
      <4>2. QED
        BY <4>1, <1>sub, <1>add DEF a
    <3>3. QED
      BY <3>1, <3>2 DEF EntriesInOrder
  <2>8. AddingInv'
    <3>1. Len(added') = leaves' * K + Len(current'.ent)
      BY <2>4, <2>5, <1>num
    <3>2. \A s \in 1..Len(current'.ent) : current'.ent[s] = added'[leaves' * K + s]
      <4>1. \A s \in 1..Len(current'.ent) : s = 1
        BY <2>4
      <4>2. current'.ent[1] = added'[leaves' * K + 1]
        BY <2>4, <2>5, <1>add
      <4>3. QED
        BY <4>1, <4>2
    <3>3. gen' = 1 /\ Len(current'.ent) <= K
      BY <1>1, <1>2, <2>4
    <3>4. QED
      BY <3>1, <3>2, <3>3, <2>2, <2>4 DEF AddingInv
  <2>9. ParentsChain' /\ RootCommits'
    <3>1. (leaves'+2)..Len(nodes') = {}
      <4>1. leaves' \in Nat /\ Len(nodes') = leaves' + 1
        BY <1>num, <2>1, <2>2
      <4>2. \A n \in Nat : (n+2)..(n+1) = {}
        OBVIOUS
      <4>3. QED
        BY <4>1, <4>2
    <3>2. QED
      BY <2>2, <3>1 DEF ParentsChain, RootCommits
  <2>10. GenInv' /\ ParentsInv' /\ RootInv' /\ PendingInv'
    BY <1>1 DEF GenInv, ParentsInv, RootInv, PendingInv
  <2>11. QED
    BY <2>2, <2>6, <2>7, <2>8, <2>9, <2>10 DEF IInv
<1>5. CASE Len(current.ent) # K
  <2>1. /\ current' = [current EXCEPT !.ent = Append(@, entry)]
        /\ nodes' = nodes /\ first' = first /\ leaves' = leaves
    BY <1>5 DEF AddEntry, entry
  <2>2. /\ current' \in Node /\ current'.leaf
        /\ current'.ent = Append(current.ent, entry)
    <3>1. Append(current.ent, entry) \in Seq(Entry)
      BY <1>2, AppendFacts
    <3>2. current = [leaf |-> TRUE, ent |-> current.ent]
      BY <1>2 DEF Node
    <3>3. current' = [leaf |-> TRUE, ent |-> Append(current.ent, entry)]
      <4>1. current' = [current EXCEPT !.ent = Append(current.ent, entry)]
        BY <2>1
      <4>2. \A r \in Node : \A x : [r EXCEPT !.ent = x] = [leaf |-> r.leaf, ent |-> x]
        BY DEF Node
      <4>3. current.leaf = TRUE
        BY <1>2 DEF Node
      <4>4. QED
        BY <4>1, <4>2, <4>3, <1>2
    <3>4. QED
      BY <3>1, <3>3 DEF Node
  <2>3. /\ Len(current'.ent) = Len(current.ent) + 1
        /\ \A s \in 1..Len(current.ent) : current'.ent[s] = current.ent[s]
        /\ current'.ent[Len(current.ent) + 1] = entry
    BY <2>2, <1>2, AppendFacts
  <2>4. TypeOK'
    BY <2>1, <2>2, <1>1, <1>3 DEF IInv, TypeOK
  <2>5. EntriesInOrder'
    <3>1. ASSUME NEW e \in 1..Len(added')
          PROVE  \/ \E p \in 2..(leaves+1) : \E s \in 1..Len(nodes[p].ent) :
                      e = (p - 2) * K + s /\ nodes[p].ent[s] = added'[e]
                 \/ \E s \in 1..Len(current'.ent) :
                      e = leaves * K + s /\ current'.ent[s] = added'[e]
      <4>1. CASE e \in 1..a
        <5>1. added'[e] = added[e]
          BY <4>1, <1>add
        <5>2. CASE \E p \in 2..(leaves+1) : \E s \in 1..Len(nodes[p].ent) :
                      e = (p - 2) * K + s /\ nodes[p].ent[s] = added[e]
          BY <5>1, <5>2
        <5>3. CASE \E s \in 1..Len(current.ent) :
                      e = leaves * K + s /\ current.ent[s] = added[e]
          <6>1. PICK s \in 1..Len(current.ent) :
                      e = leaves * K + s /\ current.ent[s] = added[e]
            BY <5>3
          <6>2. s \in 1..Len(current'.ent) /\ current'.ent[s] = added'[e]
            BY <6>1, <5>1, <2>3, <1>num DEF l
          <6>3. QED
            BY <6>1, <6>2
        <5>4. QED
          BY <4>1, <5>2, <5>3 DEF IInv, EntriesInOrder, a
      <4>2. CASE e = a + 1
        <5>1. l + 1 \in 1..Len(current'.ent) /\ e = base + (l + 1)
          BY <4>2, <2>3, <1>num DEF l
        <5>2. current'.ent[l + 1] = added'[e]
          BY <4>2, <2>3, <1>add DEF l
        <5>3. QED
          BY <5>1, <5>2 DEF base
      <4>3. e \in 1..a \/ e = a + 1
        BY <1>num
      <4>4. QED
        BY <4>1, <4>2, <4>3
    <3>2. ASSUME NEW p \in 2..(leaves+1), NEW s \in 1..Len(nodes[p].ent)
          PROVE  /\ (p - 2) * K + s \in 1..Len(added')
                 /\ nodes[p].ent[s] = added'[(p - 2) * K + s]
      <4>1. /\ (p - 2) * K + s \in 1..Len(added)
            /\ nodes[p].ent[s] = added[(p - 2) * K + s]
        BY DEF IInv, EntriesInOrder
      <4>2. QED
        BY <4>1, <1>sub, <1>add DEF a
    <3>3. QED
      BY <3>1, <3>2, <2>1 DEF EntriesInOrder
  <2>6. AddingInv'
    <3>1. Len(added') = leaves * K + Len(current'.ent) /\ Len(current'.ent) <= K
      <4>1. Len(added') = base + (l + 1) /\ l + 1 <= K
        BY <1>num, <1>5 DEF l
      <4>2. QED
        BY <4>1, <2>3 DEF l, base
    <3>2. ASSUME NEW s \in 1..Len(current'.ent)
          PROVE  current'.ent[s] = added'[leaves * K + s]
      <4>1. CASE s \in 1..l
        BY <4>1, <2>3, <1>cur, <1>add DEF l, base
      <4>2. CASE s = l + 1
        <5>1. base + (l + 1) = a + 1
          BY <1>num
        <5>2. QED
          BY <4>2, <5>1, <2>3, <1>add DEF l, base
      <4>3. s \in 1..l \/ s = l + 1
        BY <2>3, <1>num DEF l
      <4>4. QED
        BY <4>1, <4>2, <4>3
    <3>3. QED
      BY <3>1, <3>2, <2>1, <2>2, <1>1, <1>2 DEF AddingInv
  <2>7. LeafLayout' /\ ParentsChain' /\ RootCommits'
    BY <2>1, <1>1, <1>2 DEF IInv, LeafLayout, ParentsChain, RootCommits
  <2>8. GenInv' /\ ParentsInv' /\ RootInv' /\ PendingInv'
    BY <1>1 DEF GenInv, ParentsInv, RootInv, PendingInv
  <2>9. QED
    BY <2>4, <2>5, <2>6, <2>7, <2>8 DEF IInv
<1>6. QED
  BY <1>4, <1>5

\* Flushing the last leaf and starting on the parents keeps the invariant.
LEMMA FinalizeBeginIInv ==
    ASSUME IInv, FinalizeBegin
    PROVE  IInv'
<1> USE ConstantTypes
<1>1. /\ phase = "adding" /\ phase' = "check" /\ gen' = gen /\ next_gen' = next_gen
      /\ last_gen_cur' = last_gen_cur /\ collected' = collected
      /\ added' = added /\ leaves' = leaves + 1 /\ current' = Blank /\ Flush(current, 0)
  BY DEF FinalizeBegin
<1>2. leaves \in Nat /\ gen = 1
  BY <1>1 DEF IInv, TypeOK, AddingInv
<1>3. /\ nodes' \in Seq(Node) /\ Len(nodes') = leaves' + 1
      /\ first' \in Seq(Nat) /\ Len(first') = Len(nodes')
      /\ nodes'[1] = Blank
      /\ LeafLayout'
  BY <1>1, <1>2, FlushLeaf
<1>4. Blank \in Node
  BY DEF Blank, Node
<1>5. TypeOK'
  BY <1>1, <1>2, <1>3, <1>4 DEF IInv, TypeOK, Phases
<1>6. EntriesInOrder'
  <2>1. leaves' + 1 = leaves + 2
    BY <1>1, <1>2
  <2>2. QED
    BY <2>1, <1>1, FlushLeafEntries DEF EntriesInOrder
<1>7. ParentsChain' /\ RootCommits'
  BY <1>1, <1>2, <1>3 DEF ParentsChain, RootCommits
<1>8. GenInv'
  BY <1>1, <1>2, <1>3 DEF GenInv, NextChild
<1>9. AddingInv' /\ ParentsInv' /\ RootInv' /\ PendingInv'
  BY <1>1 DEF AddingInv, ParentsInv, RootInv, PendingInv
<1>10. QED
  BY <1>3, <1>5, <1>6, <1>7, <1>8, <1>9 DEF IInv

-----------------------------------------------------------------------------
(***************************************************************************)
(* Closing: what stays true of the nodes that are already written.         *)
(***************************************************************************)

\* A step that keeps the nodes behind the first keeps the parents among them.
LEMMA ParentsKept ==
    ASSUME IInv, nodes' \in Seq(Node), Len(nodes') >= Len(nodes), leaves' = leaves,
           \A p \in 2..Len(nodes) : nodes'[p] = nodes[p] /\ first'[p] = first[p]
    PROVE  \A p \in (leaves+2)..Len(nodes) :
               /\ ParentOfBatch(p)'
               /\ first'[p] = IF p = leaves + 2 THEN 1 ELSE BatchEnd(p - 1)'
               /\ BatchEnd(p)' = BatchEnd(p)
               /\ BatchEnd(p)' <= p - 1
<1> SUFFICES ASSUME NEW p \in (leaves+2)..Len(nodes)
             PROVE  /\ ParentOfBatch(p)'
                    /\ first'[p] = IF p = leaves + 2 THEN 1 ELSE BatchEnd(p - 1)'
                    /\ BatchEnd(p)' = BatchEnd(p)
                    /\ BatchEnd(p)' <= p - 1
  OBVIOUS
<1> USE ConstantTypes
<1>1. leaves \in Nat /\ Len(nodes) \in Nat /\ Len(nodes') \in Nat /\ first \in Seq(Nat)
        /\ Len(first) = Len(nodes)
  BY DEF IInv, TypeOK
<1>2. p \in 2..Len(nodes) /\ p \in Nat
  BY <1>1
<1>3. /\ ParentOfBatch(p)
      /\ first[p] = IF p = leaves + 2 THEN 1 ELSE BatchEnd(p - 1)
      /\ BatchEnd(p) <= p - 1
  BY DEF IInv, ParentsChain
<1>4. nodes'[p] = nodes[p] /\ first'[p] = first[p] /\ first[p] \in Nat
  BY <1>1, <1>2
<1> DEFINE n == Len(nodes[p].ent)
<1>5. /\ n \in 1..K /\ first[p] >= 1 /\ first[p] + n <= Len(nodes)
      /\ nodes[p].ent = Collect(nodes, first[p], first[p] + n)
      /\ first[p] <= leaves => first[p] + n <= leaves + 1
  BY <1>3 DEF ParentOfBatch
<1>6. Collect(nodes', first[p], first[p] + n) = Collect(nodes, first[p], first[p] + n)
  <2>1. ASSUME NEW q \in (first[p]+1)..(first[p]+n) PROVE nodes'[q] = nodes[q]
    <3>1. PICK a, b, m : a = first[p] /\ b = first[p] + n /\ m = Len(nodes)
      OBVIOUS
    <3>2. a \in Nat /\ a >= 1 /\ b \in Nat /\ b <= m /\ m \in Nat
      <4>1. a \in Nat /\ a >= 1 /\ n \in Nat /\ a + n <= m
        BY <1>4, <1>5, <3>1
      <4>2. b = a + n /\ m \in Nat
        BY <1>1, <3>1
      <4> QED BY <4>1, <4>2
    <3>3. q \in (a+1)..b
      BY <3>1
    <3>4. q \in 2..m
      BY <3>2, <3>3
    <3>5. QED
      BY <3>1, <3>4
  <2>2. first[p] + n \in Nat /\ first[p] <= first[p] + n
    BY <1>4, <1>5
  <2>3. first[p] \in Nat
    BY <1>4
  <2>4. PICK a, b : a = first[p] /\ b = first[p] + n
    OBVIOUS
  <2>5. a \in Nat /\ b \in Nat /\ a <= b /\ \A q \in (a+1)..b : nodes'[q] = nodes[q]
    BY <2>1, <2>2, <2>3, <2>4
  <2>6. Collect(nodes', a, b) = Collect(nodes, a, b)
    BY <2>5, CollectSame
  <2>7. QED
    BY <2>4, <2>6
<1>7. ParentOfBatch(p)'
  BY <1>1, <1>4, <1>5, <1>6 DEF ParentOfBatch
<1>8. BatchEnd(p)' = BatchEnd(p)
  BY <1>4 DEF BatchEnd
<1>9. p # leaves + 2 => BatchEnd(p - 1)' = BatchEnd(p - 1)
  <2>1. p # leaves + 2 => p - 1 \in 2..Len(nodes)
    BY <1>1, <1>2
  <2>2. QED
    BY <2>1 DEF BatchEnd
<1>10. QED
  BY <1>3, <1>4, <1>7, <1>8, <1>9

\* A step that keeps the leaves, the pending record and the history keeps the entries.
LEMMA EntriesKept ==
    ASSUME IInv, leaves' = leaves, added' = added, current' = current,
           \A p \in 2..(leaves+1) : nodes'[p] = nodes[p]
    PROVE  EntriesInOrder'
<1>1. EntriesInOrder
  BY DEF IInv
<1>2. \A p \in 2..(leaves+1) : nodes'[p].ent = nodes[p].ent
  OBVIOUS
<1>3. ASSUME NEW e \in 1..Len(added)
      PROVE  \/ \E p \in 2..(leaves+1) : \E s \in 1..Len(nodes'[p].ent) :
                   e = (p - 2) * K + s /\ nodes'[p].ent[s] = added[e]
             \/ \E s \in 1..Len(current.ent) : e = leaves * K + s /\ current.ent[s] = added[e]
  <2>1. CASE \E p \in 2..(leaves+1) : \E s \in 1..Len(nodes[p].ent) :
                e = (p - 2) * K + s /\ nodes[p].ent[s] = added[e]
    <3>1. PICK p \in 2..(leaves+1) : \E s \in 1..Len(nodes[p].ent) :
                e = (p - 2) * K + s /\ nodes[p].ent[s] = added[e]
      BY <2>1
    <3>2. nodes'[p] = nodes[p]
      OBVIOUS
    <3>3. \E s \in 1..Len(nodes'[p].ent) : e = (p - 2) * K + s /\ nodes'[p].ent[s] = added[e]
      BY <3>1, <3>2
    <3>4. QED
      BY <3>3
  <2>2. QED
    BY <1>1, <2>1 DEF EntriesInOrder
<1>4. ASSUME NEW p \in 2..(leaves+1), NEW s \in 1..Len(nodes'[p].ent)
      PROVE  /\ (p - 2) * K + s \in 1..Len(added)
             /\ nodes'[p].ent[s] = added[(p - 2) * K + s]
  BY <1>1, <1>2 DEF EntriesInOrder
<1>5. QED
  BY <1>3, <1>4 DEF EntriesInOrder

\* A step that changes none of the file and the history keeps what is about them.
LEMMA FileKept ==
    ASSUME IInv, nodes' = nodes, first' = first, leaves' = leaves, added' = added,
           current' = current
    PROVE  LeafLayout' /\ EntriesInOrder' /\ ParentsChain' /\ NextChild' = NextChild
<1>1. EntriesInOrder'
  BY EntriesKept
<1>2. NextChild' = NextChild
  BY DEF NextChild, BatchEnd
<1>3. LeafLayout' /\ ParentsChain'
  BY DEF IInv, LeafLayout, ParentsChain, ParentOfBatch, BatchEnd
<1>4. QED
  BY <1>1, <1>2, <1>3

-----------------------------------------------------------------------------
(***************************************************************************)
(* Closing: one lemma per step.                                            *)
(***************************************************************************)

\* Looking whether the last generation fits under the root keeps the invariant.
LEMMA CheckLastChildGenIInv ==
    ASSUME IInv, CheckLastChildGen
    PROVE  IInv'
<1> USE ConstantTypes
<1>1. /\ phase = "check" /\ phase' \in {"root", "parents_begin"}
      /\ phase' = IF Len(nodes) - gen <= K THEN "root" ELSE "parents_begin"
      /\ nodes' = nodes /\ current' = current /\ gen' = gen /\ next_gen' = next_gen
      /\ last_gen_cur' = last_gen_cur /\ collected' = collected /\ added' = added
      /\ leaves' = leaves /\ first' = first
  BY DEF CheckLastChildGen
<1>2. TypeOK'
  BY <1>1 DEF IInv, TypeOK, Phases
<1>3. LeafLayout' /\ EntriesInOrder' /\ ParentsChain' /\ NextChild' = NextChild
  BY <1>1, FileKept
<1>4. GenInv
  BY DEF IInv
<1>5. GenInv' /\ RootCommits'
  BY <1>1, <1>3, <1>4 DEF GenInv, RootCommits
<1>6. AddingInv' /\ ParentsInv' /\ RootInv' /\ PendingInv'
  BY <1>1, <1>4 DEF AddingInv, ParentsInv, RootInv, PendingInv, GenInv
<1>7. QED
  BY <1>2, <1>3, <1>5, <1>6 DEF IInv

\* A batch of children from offset from on, cut off at offset stop.
IsBatch(batch, from, stop) ==
    /\ batch \in Seq(Entry)
    /\ Len(batch) \in 0..K
    /\ from + Len(batch) <= stop
    /\ stop - from <= K => from + Len(batch) = stop
    /\ batch = <<>> => from = stop
    /\ batch = Collect(nodes, from, from + Len(batch))

\* The batch that both sfbti_write_parents and sfbti_write_root start from.
LEMMA BatchFrom ==
    ASSUME IInv, NEW from \in Nat, NEW stop \in Nat, from <= stop, stop <= Len(nodes),
           NEW batch, batch = Collect(nodes, from, stop)
    PROVE  IsBatch(batch, from, stop)
<1> USE ConstantTypes DEF IsBatch
<1>1. nodes \in Seq(Node)
  BY DEF IInv, TypeOK
<1>2. /\ batch \in Seq(Entry)
      /\ Len(batch) = Lesser(K, stop - from)
      /\ Lesser(K, stop - from) \in 0..K
      /\ Lesser(K, stop - from) <= stop - from
  BY <1>1, CollectType
<1>3. batch = Collect(nodes, from, from + Len(batch))
  <2>1. Len(batch) = Lesser(K, stop - from)
    BY <1>2
  <2>2. Collect(nodes, from, stop) = Collect(nodes, from, from + Lesser(K, stop - from))
    BY CollectExact
  <2>3. QED
    BY <2>1, <2>2
<1>4. stop - from <= K => Len(batch) = stop - from
  BY <1>2 DEF Lesser
<1>5. Len(batch) = 0 => from = stop
  BY <1>2 DEF Lesser
<1>6. batch = <<>> => Len(batch) = 0
  OBVIOUS
<1>7. from + Len(batch) <= stop /\ (stop - from <= K => from + Len(batch) = stop)
  BY <1>2, <1>4
<1>8. QED
  BY <1>2, <1>3, <1>5, <1>6, <1>7

\* Collecting the first batch of a generation keeps the invariant.
LEMMA WriteParentsBeginIInv ==
    ASSUME IInv, WriteParentsBegin
    PROVE  IInv'
<1> USE ConstantTypes
<1>1. /\ phase = "parents_begin" /\ phase' = "parents"
      /\ nodes' = nodes /\ current' = current /\ gen' = gen /\ next_gen' = Len(nodes)
      /\ collected' = Collect(nodes, gen, Len(nodes))
      /\ last_gen_cur' = gen + Len(collected')
      /\ added' = added /\ leaves' = leaves /\ first' = first
  BY DEF WriteParentsBegin
<1>2. /\ gen \in Nat /\ Len(nodes) \in Nat /\ gen >= 1 /\ gen < Len(nodes)
      /\ NextChild = gen /\ current = Blank /\ nodes[1] = Blank /\ leaves \in Nat
      /\ IF gen = 1 THEN Len(nodes) = leaves + 1 ELSE gen >= leaves + 1
  BY <1>1 DEF IInv, TypeOK, GenInv
<1>3. /\ collected' \in Seq(Entry)
      /\ Len(collected') \in 0..K
      /\ gen + Len(collected') <= Len(nodes)
      /\ collected' = <<>> => gen = Len(nodes)
      /\ collected' = Collect(nodes, gen, gen + Len(collected'))
  <2>1. gen \in Nat /\ Len(nodes) \in Nat /\ gen <= Len(nodes)
    BY <1>2
  <2>2. collected' = Collect(nodes, gen, Len(nodes))
    BY <1>1
  <2>3. IsBatch(collected', gen, Len(nodes))
    BY <2>1, <2>2, BatchFrom
  <2>4. QED
    BY <2>3 DEF IsBatch
<1>4. LeafLayout' /\ EntriesInOrder' /\ ParentsChain' /\ NextChild' = NextChild
  BY <1>1, FileKept
<1>5. TypeOK'
  BY <1>1, <1>2, <1>3 DEF IInv, TypeOK, Phases
<1>6. RootCommits' /\ AddingInv' /\ GenInv' /\ RootInv' /\ PendingInv'
  BY <1>1, <1>2 DEF RootCommits, AddingInv, GenInv, RootInv, PendingInv
<1>7. ParentsInv'
  <2>1. gen <= last_gen_cur' /\ NextChild' = last_gen_cur' - Len(collected')
    BY <1>1, <1>2, <1>3, <1>4
  <2>2. QED
    BY <2>1, <1>1, <1>2, <1>3, <1>4 DEF ParentsInv
<1>8. QED
  BY <1>4, <1>5, <1>6, <1>7 DEF IInv

\* Ending a generation, which becomes the one to be given parents, keeps the
\* invariant.
LEMMA WriteParentsEndIInv ==
    ASSUME IInv, WriteParentsEnd
    PROVE  IInv'
<1> USE ConstantTypes
<1>1. /\ phase = "parents" /\ phase' = "check" /\ collected = <<>>
      /\ nodes' = nodes /\ current' = current /\ gen' = next_gen /\ next_gen' = next_gen
      /\ collected' = collected /\ last_gen_cur' = last_gen_cur
      /\ added' = added /\ leaves' = leaves /\ first' = first
  BY DEF WriteParentsEnd
<1>2. /\ gen \in Nat /\ next_gen \in Nat /\ Len(nodes) \in Nat /\ leaves \in Nat
      /\ gen >= 1 /\ gen < next_gen /\ next_gen <= Len(nodes)
      /\ IF gen = 1 THEN next_gen = leaves + 1 ELSE gen >= leaves + 1
      /\ last_gen_cur = next_gen
      /\ NextChild = last_gen_cur - Len(collected)
      /\ Len(nodes) = next_gen => NextChild = gen
      /\ current = Blank /\ nodes[1] = Blank
  BY <1>1 DEF IInv, TypeOK, ParentsInv
<1>3. NextChild = next_gen
  BY <1>1, <1>2
<1>4. LeafLayout' /\ EntriesInOrder' /\ ParentsChain' /\ NextChild' = NextChild
  BY <1>1, FileKept
<1>5. TypeOK'
  BY <1>1 DEF IInv, TypeOK, Phases
<1>6. RootCommits' /\ AddingInv' /\ ParentsInv' /\ RootInv' /\ PendingInv'
  BY <1>1, <1>2 DEF RootCommits, AddingInv, ParentsInv, RootInv, PendingInv
<1>7. GenInv'
  BY <1>1, <1>2, <1>3, <1>4 DEF GenInv
<1>8. QED
  BY <1>4, <1>5, <1>6, <1>7 DEF IInv

\* Writing the parent of the collected batch behind the file and collecting the
\* next batch keeps the invariant.
LEMMA WriteParentIInv ==
    ASSUME IInv, WriteParent
    PROVE  IInv'
<1> DEFINE start == last_gen_cur - Len(collected)
           parent == [leaf |-> FALSE, ent |-> collected]
<1> USE ConstantTypes
<1>0. PICK len \in Nat : len = Len(nodes)
  BY DEF IInv, TypeOK
<1>1. /\ phase = "parents" /\ phase' = "parents" /\ collected # <<>>
      /\ nodes' = Append(nodes, parent) /\ first' = Append(first, start)
      /\ current' = current /\ gen' = gen /\ next_gen' = next_gen
      /\ collected' = Collect(nodes, last_gen_cur, next_gen)
      /\ last_gen_cur' = last_gen_cur + Len(collected')
      /\ added' = added /\ leaves' = leaves
  BY <1>0 DEF WriteParent, Flush
<1>2. /\ nodes \in Seq(Node) /\ first \in Seq(Nat) /\ Len(first) = len /\ len \in Nat
      /\ leaves \in Nat /\ gen \in Nat /\ next_gen \in Nat /\ last_gen_cur \in Nat
      /\ collected \in Seq(Entry) /\ len >= 1 /\ leaves + 1 <= len
  BY <1>0 DEF IInv, TypeOK, LeafLayout
<1>3. /\ gen >= 1 /\ gen < next_gen /\ next_gen <= len
      /\ IF gen = 1 THEN next_gen = leaves + 1 ELSE gen >= leaves + 1
      /\ gen <= last_gen_cur /\ last_gen_cur <= next_gen
      /\ Len(collected) <= K
      /\ NextChild = start
      /\ NextChild >= gen
      /\ collected = Collect(nodes, NextChild, last_gen_cur)
      /\ current = Blank /\ nodes[1] = Blank
  BY <1>0, <1>1 DEF IInv, ParentsInv
<1>4. /\ Len(collected) \in 1..K /\ start \in Nat /\ start >= gen
      /\ start + Len(collected) = last_gen_cur
  <2>1. Len(collected) \in Nat /\ Len(collected) # 0
    BY <1>1, <1>2
  <2>2. start \in Int
    BY <2>1, <1>2
  <2>3. QED
    BY <2>1, <2>2, <1>2, <1>3
<1>5. parent \in Node
  BY <1>2 DEF Node
<1> HIDE DEF start, parent
<1>6. /\ nodes' \in Seq(Node) /\ Len(nodes') = len + 1
      /\ \A p \in 1..len : nodes'[p] = nodes[p]
      /\ nodes'[len + 1] = parent
  BY <1>0, <1>1, <1>2, <1>5, AppendFacts
<1>7. /\ first' \in Seq(Nat) /\ Len(first') = len + 1
      /\ \A p \in 1..len : first'[p] = first[p]
      /\ first'[len + 1] = start
  <2>1. first \in Seq(Nat) /\ start \in Nat /\ first' = Append(first, start)
    BY <1>1, <1>2, <1>4
  <2>2. Len(first) = len
    BY <1>0, <1>2
  <2>3. QED
    BY <2>1, <2>2, AppendFacts
<1>8. /\ collected' \in Seq(Entry)
      /\ Len(collected') \in 0..K
      /\ last_gen_cur + Len(collected') <= next_gen
      /\ collected' = <<>> => last_gen_cur = next_gen
      /\ collected' = Collect(nodes, last_gen_cur, last_gen_cur + Len(collected'))
  <2>1. IsBatch(collected', last_gen_cur, next_gen)
    BY <1>0, <1>1, <1>2, <1>3, BatchFrom
  <2>2. QED
    BY <2>1 DEF IsBatch
<1>9. TypeOK'
  <2>1. /\ phase' \in Phases /\ current' \in Node /\ gen' \in Nat /\ next_gen' \in Nat
        /\ added' \in Seq(Entry) /\ leaves' \in Nat
    BY <1>0, <1>1 DEF IInv, TypeOK, Phases
  <2>2. nodes' \in Seq(Node) /\ Len(nodes') >= 1
    BY <1>2, <1>6
  <2>3. first' \in Seq(Nat) /\ Len(first') = Len(nodes')
    BY <1>6, <1>7
  <2>4. collected' \in Seq(Entry) /\ last_gen_cur' \in Nat
    BY <1>1, <1>2, <1>8
  <2>5. QED
    BY <2>1, <2>2, <2>3, <2>4 DEF TypeOK
<1>10. LeafLayout'
  <2>1. ~parent.leaf
    BY DEF parent
  <2>2. \A p \in 2..len : nodes[p].leaf <=> p <= leaves + 1
    BY <1>0 DEF IInv, LeafLayout
  <2>3. \A p \in 2..(len+1) : nodes'[p].leaf <=> p <= leaves + 1
    <3>1. ASSUME NEW p \in 2..(len+1) PROVE nodes'[p].leaf <=> p <= leaves + 1
      <4>1. CASE p \in 2..len
        BY <4>1, <2>2, <1>6
      <4>2. CASE p = len + 1
        BY <4>2, <2>1, <1>2, <1>6
      <4>3. p \in 2..len \/ p = len + 1
        BY <1>2
      <4>4. QED
        BY <4>1, <4>2, <4>3
    <3>2. QED
      BY <3>1
  <2>4. ~nodes'[1].leaf
    <3>1. 1 \in 1..len
      BY <1>2
    <3>2. nodes'[1] = nodes[1]
      BY <3>1, <1>6
    <3>3. nodes'[1] = Blank
      BY <3>2, <1>3
    <3>4. QED
      BY <3>3 DEF Blank
  <2>5. leaves' = leaves /\ Len(nodes') = len + 1 /\ leaves + 1 <= len + 1
    BY <1>0, <1>1, <1>2, <1>6
  <2>6. QED
    BY <2>3, <2>4, <2>5 DEF LeafLayout
<1>11. EntriesInOrder'
  <2>1. ASSUME NEW p \in 2..(leaves+1) PROVE nodes'[p] = nodes[p]
    <3>1. p \in 1..len
      BY <1>2
    <3>2. QED
      BY <3>1, <1>6
  <2>2. QED
    BY <2>1, <1>1, EntriesKept
<1>12. \A p \in (leaves+2)..len :
          /\ ParentOfBatch(p)'
          /\ first'[p] = IF p = leaves + 2 THEN 1 ELSE BatchEnd(p - 1)'
          /\ BatchEnd(p)' = BatchEnd(p)
          /\ BatchEnd(p)' <= p - 1
  <2>1. \A p \in 2..len : nodes'[p] = nodes[p] /\ first'[p] = first[p]
    BY <1>0, <1>2, <1>6, <1>7
  <2>2. Len(nodes') >= len
    BY <1>2, <1>6
  <2>3. QED
    BY <1>0, <2>1, <2>2, <1>1, <1>6, ParentsKept
<1>13. nodes'[len + 1].ent = collected
  BY <1>6 DEF parent
<1>14. collected = Collect(nodes', start, start + Len(collected))
  <2>0. start \in Nat /\ start + Len(collected) <= len
    BY <1>0, <1>2, <1>3, <1>4
  <2>1. \A q \in (start+1)..(start + Len(collected)) : nodes'[q] = nodes[q]
    BY <2>0, <1>4, <1>6
  <2>2. start \in Nat /\ start + Len(collected) \in Nat /\ start <= start + Len(collected)
    BY <1>4, <1>2
  <2>3. Collect(nodes', start, start + Len(collected)) = Collect(nodes, start, start + Len(collected))
    BY <2>1, <2>2, CollectSame
  <2>4. QED
    BY <2>3, <1>3, <1>4
<1>15. ParentOfBatch(len + 1)'
  <2>1. start <= leaves => start + Len(collected) <= leaves + 1
    BY <1>2, <1>3, <1>4
  <2>2. start >= 1 /\ start + Len(collected) <= Len(nodes')
    BY <1>0, <1>2, <1>3, <1>4, <1>6
  <2>3. leaves' = leaves /\ first'[len + 1] = start
    BY <1>1, <1>7
  <2>4. QED
    BY <2>1, <2>2, <2>3, <1>4, <1>13, <1>14 DEF ParentOfBatch
<1>16. /\ BatchEnd(len + 1)' = last_gen_cur
       /\ BatchEnd(len + 1)' <= len
  BY <1>0, <1>1, <1>2, <1>3, <1>4, <1>7, <1>13 DEF BatchEnd
<1>17. first'[len + 1] = IF len + 1 = leaves + 2 THEN 1 ELSE BatchEnd(len)'
  <2>1. CASE len = leaves + 1
    BY <1>0, <2>1, <1>2, <1>3, <1>7 DEF NextChild
  <2>2. CASE len # leaves + 1
    <3>1. len \in (leaves+2)..len
      BY <2>2, <1>2
    <3>2. BatchEnd(len)' = BatchEnd(len)
      BY <1>0, <3>1, <1>12, <1>1
    <3>3. QED
      BY <1>0, <3>2, <2>2, <1>2, <1>3, <1>7 DEF NextChild
  <2>3. QED
    BY <2>1, <2>2
<1>18. ParentsChain'
  <2>1. ASSUME NEW p \in (leaves'+2)..Len(nodes')
        PROVE  /\ ParentOfBatch(p)'
               /\ first'[p] = IF p = leaves' + 2 THEN 1 ELSE BatchEnd(p - 1)'
               /\ BatchEnd(p)' <= p - 1
    <3>1. p \in (leaves+2)..len \/ p = len + 1
      BY <1>1, <1>2, <1>6
    <3>2. CASE p \in (leaves+2)..len
      BY <3>2, <1>12, <1>1
    <3>3. CASE p = len + 1
      <4>1. p - 1 = len
        BY <3>3, <1>2
      <4>2. QED
        BY <3>3, <4>1, <1>1, <1>15, <1>16, <1>17
    <3>4. QED
      BY <3>1, <3>2, <3>3
  <2>2. QED
    BY <2>1 DEF ParentsChain
<1>19. ParentsInv'
  <2>1. NextChild' = last_gen_cur
    <3>1. Len(nodes') = len + 1 /\ leaves' = leaves /\ Len(nodes') # leaves' + 1
      BY <1>1, <1>2, <1>6
    <3>2. NextChild' = BatchEnd(Len(nodes))'
      BY <3>1 DEF NextChild
    <3>3. BatchEnd(Len(nodes))' = BatchEnd(len + 1)'
      BY <3>1 DEF BatchEnd
    <3>4. QED
      BY <3>2, <3>3, <1>16
  <2>2. collected' = Collect(nodes', last_gen_cur, last_gen_cur')
    <3>1. \A q \in (last_gen_cur+1)..(last_gen_cur + Len(collected')) : nodes'[q] = nodes[q]
      BY <1>2, <1>3, <1>6, <1>8
    <3>2. /\ last_gen_cur + Len(collected') \in Nat
          /\ last_gen_cur <= last_gen_cur + Len(collected')
      BY <1>2, <1>8
    <3>3. last_gen_cur \in Nat
      BY <1>2
    <3>4. Collect(nodes', last_gen_cur, last_gen_cur + Len(collected'))
            = Collect(nodes, last_gen_cur, last_gen_cur + Len(collected'))
      BY <3>1, <3>2, <3>3, CollectSame
    <3>5. QED
      BY <3>4, <1>1, <1>8
  <2>3. nodes'[1] = Blank
    BY <1>2, <1>3, <1>6
  <2>4. last_gen_cur = last_gen_cur' - Len(collected')
    BY <1>1, <1>2, <1>8
  <2>5. gen <= last_gen_cur' /\ last_gen_cur' <= next_gen /\ last_gen_cur >= gen
    BY <1>1, <1>2, <1>3, <1>8
  <2>6. collected' = <<>> => last_gen_cur' = next_gen
    BY <1>1, <1>2, <1>8
  <2>7. Len(nodes') # next_gen /\ next_gen <= Len(nodes')
    BY <1>2, <1>3, <1>6
  <2>8. QED
    BY <2>1, <2>2, <2>3, <2>4, <2>5, <2>6, <2>7, <1>1, <1>3, <1>8 DEF ParentsInv
<1>20. RootCommits' /\ AddingInv' /\ GenInv' /\ RootInv' /\ PendingInv'
  <2>1. nodes'[1] = Blank
    BY <1>2, <1>3, <1>6
  <2>2. QED
    BY <2>1, <1>1, <1>3 DEF RootCommits, AddingInv, GenInv, RootInv, PendingInv
<1>21. QED
  BY <1>9, <1>10, <1>11, <1>18, <1>19, <1>20 DEF IInv

\* Writing the root over a generation that fits keeps the invariant.
LEMMA WriteRootIInv ==
    ASSUME IInv, WriteRoot
    PROVE  IInv'
<1> DEFINE root == [leaf |-> FALSE, ent |-> collected']
<1> USE ConstantTypes
<1>0. PICK len \in Nat : len = Len(nodes)
  BY DEF IInv, TypeOK
<1>1. /\ phase = "root" /\ phase' = "rooted"
      /\ current' = current /\ gen' = gen /\ next_gen' = next_gen
      /\ last_gen_cur' = last_gen_cur /\ added' = added /\ leaves' = leaves
      /\ collected' = Collect(nodes, gen, len)
  BY <1>0 DEF WriteRoot
<1>2. /\ nodes \in Seq(Node) /\ first \in Seq(Nat) /\ Len(first) = len /\ len \in Nat
      /\ leaves \in Nat /\ gen \in Nat /\ len >= 1 /\ leaves + 1 <= len
  BY <1>0 DEF IInv, TypeOK, LeafLayout
<1>3. /\ gen >= 1 /\ gen < len /\ NextChild = gen /\ len - gen <= K
      /\ IF gen = 1 THEN len = leaves + 1 ELSE gen >= leaves + 1
      /\ current = Blank
  BY <1>0, <1>1 DEF IInv, GenInv, RootInv
<1>4. /\ collected' \in Seq(Entry)
      /\ Len(collected') \in 0..K
      /\ gen + Len(collected') = len
      /\ collected' = Collect(nodes, gen, gen + Len(collected'))
  <2>1. IsBatch(collected', gen, len)
    BY <1>0, <1>1, <1>2, <1>3, BatchFrom
  <2>2. QED
    BY <2>1, <1>3 DEF IsBatch
<1>5. Len(collected') \in 1..K /\ collected' # <<>>
  BY <1>2, <1>3, <1>4
<1>6. /\ nodes' = [nodes EXCEPT ![1] = root]
      /\ first' = [first EXCEPT ![1] = gen]
  BY <1>5 DEF WriteRoot
<1>7. root \in Node
  BY <1>4 DEF Node
<1>8. /\ nodes' \in Seq(Node) /\ Len(nodes') = len
      /\ \A p \in 2..len : nodes'[p] = nodes[p]
      /\ nodes'[1] = root
  BY <1>0, <1>2, <1>6, <1>7
<1>9. /\ first' \in Seq(Nat) /\ Len(first') = len
      /\ \A p \in 2..len : first'[p] = first[p]
      /\ first'[1] = gen
  BY <1>0, <1>2, <1>6
<1> HIDE DEF root
<1>10. TypeOK'
  BY <1>0, <1>1, <1>2, <1>4, <1>8, <1>9 DEF IInv, TypeOK, Phases
<1>11. LeafLayout'
  <2>1. ~nodes'[1].leaf
    BY <1>8 DEF root
  <2>2. QED
    BY <1>0, <2>1, <1>1, <1>2, <1>8 DEF IInv, LeafLayout
<1>12. EntriesInOrder'
  <2>1. \A p \in 2..(leaves+1) : nodes'[p] = nodes[p]
    BY <1>2, <1>8
  <2>2. QED
    BY <2>1, <1>1, EntriesKept
<1>13. \A p \in (leaves+2)..len :
          /\ ParentOfBatch(p)'
          /\ first'[p] = IF p = leaves + 2 THEN 1 ELSE BatchEnd(p - 1)'
          /\ BatchEnd(p)' = BatchEnd(p)
          /\ BatchEnd(p)' <= p - 1
  <2>1. \A p \in 2..Len(nodes) : nodes'[p] = nodes[p] /\ first'[p] = first[p]
    BY <1>0, <1>8, <1>9
  <2>2. nodes' \in Seq(Node) /\ Len(nodes') >= Len(nodes) /\ leaves' = leaves
    BY <1>0, <1>1, <1>8
  <2>3. QED
    BY <2>1, <2>2, <1>0, ParentsKept
<1>14. ParentsChain'
  BY <1>0, <1>1, <1>8, <1>13 DEF ParentsChain
<1>15. nodes'[1].ent = collected'
  BY <1>8 DEF root
<1>16. collected' = Collect(nodes', gen, gen + Len(collected'))
  <2>1. \A q \in (gen+1)..(gen + Len(collected')) : nodes'[q] = nodes[q]
    BY <1>2, <1>3, <1>4, <1>8
  <2>2. gen + Len(collected') \in Nat /\ gen <= gen + Len(collected')
    BY <1>2, <1>4
  <2>3. gen \in Nat
    BY <1>2
  <2>4. Collect(nodes', gen, gen + Len(collected')) = Collect(nodes, gen, gen + Len(collected'))
    BY <2>1, <2>2, <2>3, CollectSame
  <2>5. QED
    BY <2>4, <1>4
<1>17. RootCommits'
  <2>1. ParentOfBatch(1)'
    <3>1. gen <= leaves => gen + Len(collected') <= leaves + 1
      BY <1>0, <1>2, <1>3, <1>4
    <3>2. QED
      BY <3>1, <1>1, <1>2, <1>3, <1>4, <1>5, <1>8, <1>9, <1>15, <1>16 DEF ParentOfBatch
  <2>2. BatchEnd(1)' = Len(nodes')
    BY <1>4, <1>8, <1>9, <1>15 DEF BatchEnd
  <2>3. first'[1] = IF Len(nodes') = leaves' + 1 THEN 1 ELSE BatchEnd(Len(nodes))'
    <3>1. CASE len = leaves + 1
      BY <1>0, <3>1, <1>1, <1>3, <1>8, <1>9 DEF NextChild
    <3>2. CASE len # leaves + 1
      <4>1. len \in 2..len
        BY <3>2, <1>2
      <4>2. BatchEnd(len)' = first[len] + Len(nodes[len].ent)
        BY <1>0, <4>1, <1>8, <1>9 DEF BatchEnd
      <4>3. gen = first[len] + Len(nodes[len].ent)
        BY <1>0, <3>2, <1>3 DEF NextChild, BatchEnd
      <4>4. Len(nodes') = len /\ leaves' = leaves /\ first'[1] = gen
        BY <1>1, <1>8, <1>9
      <4>5. BatchEnd(Len(nodes))' = BatchEnd(len)'
        BY <4>4 DEF BatchEnd
      <4>6. QED
        BY <4>2, <4>3, <4>4, <4>5, <3>2
    <3>3. QED
      BY <3>1, <3>2
  <2>4. QED
    BY <2>1, <2>2, <2>3, <1>1 DEF RootCommits
<1>18. AddingInv' /\ GenInv' /\ ParentsInv' /\ RootInv' /\ PendingInv'
  BY <1>1, <1>3 DEF AddingInv, GenInv, ParentsInv, RootInv, PendingInv
<1>19. QED
  BY <1>10, <1>11, <1>12, <1>14, <1>17, <1>18 DEF IInv

\* A root that does not reach the file leaves everything else in place.
LEMMA RootLostIInv ==
    ASSUME IInv, RootLost, phase' \in Phases, current' = current, gen' = gen,
           next_gen' = next_gen, last_gen_cur' = last_gen_cur, collected' = collected,
           added' = added, leaves' = leaves,
           AddingInv' /\ GenInv' /\ ParentsInv' /\ RootInv' /\ PendingInv'
    PROVE  IInv'
<1> USE ConstantTypes
<1>1. /\ nodes \in Seq(Node) /\ first \in Seq(Nat) /\ Len(first) = Len(nodes)
      /\ Len(nodes) \in Nat /\ Len(nodes) >= 1 /\ leaves \in Nat
  BY DEF IInv, TypeOK
<1>2. Blank \in Node /\ ~Blank.leaf
  BY DEF Blank, Node
<1>3. /\ nodes' \in Seq(Node) /\ Len(nodes') = Len(nodes)
      /\ \A p \in 2..Len(nodes) : nodes'[p] = nodes[p]
      /\ nodes'[1] = Blank
  BY <1>1, <1>2 DEF RootLost
<1>4. /\ first' \in Seq(Nat) /\ Len(first') = Len(nodes')
      /\ \A p \in 2..Len(nodes) : first'[p] = first[p]
  BY <1>1, <1>3 DEF RootLost
<1>5. TypeOK'
  BY <1>1, <1>3, <1>4 DEF IInv, TypeOK
<1>6. LeafLayout'
  <2>1. leaves + 1 <= Len(nodes) /\ \A p \in 2..Len(nodes) : nodes[p].leaf <=> p <= leaves + 1
    BY DEF IInv, LeafLayout
  <2>2. QED
    BY <2>1, <1>2, <1>3 DEF LeafLayout
<1>7. EntriesInOrder'
  <2>1. leaves + 1 <= Len(nodes)
    BY DEF IInv, LeafLayout
  <2>2. \A p \in 2..(leaves+1) : nodes'[p] = nodes[p]
    BY <2>1, <1>1, <1>3
  <2>3. QED
    BY <2>2, EntriesKept
<1>8. ParentsChain'
  <2>1. \A p \in (leaves+2)..Len(nodes) :
            /\ ParentOfBatch(p)'
            /\ first'[p] = IF p = leaves + 2 THEN 1 ELSE BatchEnd(p - 1)'
            /\ BatchEnd(p)' = BatchEnd(p)
            /\ BatchEnd(p)' <= p - 1
    <3>1. \A p \in 2..Len(nodes) : nodes'[p] = nodes[p] /\ first'[p] = first[p]
      BY <1>3, <1>4
    <3>2. Len(nodes') >= Len(nodes)
      BY <1>1, <1>3
    <3>3. QED
      BY <3>1, <3>2, <1>3, ParentsKept
  <2>2. QED
    BY <2>1, <1>3 DEF ParentsChain
<1>9. RootCommits'
  BY <1>3 DEF RootCommits
<1>10. QED
  BY <1>5, <1>6, <1>7, <1>8, <1>9 DEF IInv

\* A writer that stops before its root leaves the file as it is.
LEMMA StoppedIInv ==
    ASSUME IInv, phase \notin {"rooted", "closed"}, phase' \in Phases,
           nodes' = nodes, first' = first, current' = current, gen' = gen,
           next_gen' = next_gen, last_gen_cur' = last_gen_cur, collected' = collected,
           added' = added, leaves' = leaves,
           AddingInv' /\ GenInv' /\ ParentsInv' /\ RootInv' /\ PendingInv'
    PROVE  IInv'
<1>1. LeafLayout' /\ EntriesInOrder' /\ ParentsChain'
  BY FileKept
<1>2. TypeOK'
  BY DEF IInv, TypeOK
<1>3. RootCommits'
  BY DEF IInv, RootCommits
<1>4. QED
  BY <1>1, <1>2, <1>3 DEF IInv

\* Closing keeps the invariant, also when fclose fails.
LEMMA CloseIInv ==
    ASSUME IInv, Close
    PROVE  IInv'
<1> USE ConstantTypes
<1>1. /\ phase = "rooted" /\ phase' = "closed"
      /\ RootLost \/ (nodes' = nodes /\ first' = first)
      /\ current' = current /\ gen' = gen /\ next_gen' = next_gen
      /\ last_gen_cur' = last_gen_cur /\ collected' = collected
      /\ added' = added /\ leaves' = leaves
  BY DEF Close
<1>2. AddingInv' /\ GenInv' /\ ParentsInv' /\ RootInv' /\ PendingInv'
  BY <1>1 DEF IInv, AddingInv, GenInv, ParentsInv, RootInv, PendingInv
<1>3. CASE nodes' = nodes /\ first' = first
  <2>1. LeafLayout' /\ EntriesInOrder' /\ ParentsChain'
    BY <1>1, <1>3, FileKept
  <2>2. TypeOK'
    BY <1>1, <1>3 DEF IInv, TypeOK, Phases
  <2>3. RootCommits'
    BY <1>1, <1>3 DEF IInv, RootCommits, ParentOfBatch, BatchEnd
  <2>4. QED
    BY <1>2, <2>1, <2>2, <2>3 DEF IInv
<1>4. CASE RootLost
  BY <1>1, <1>2, <1>4, RootLostIInv DEF Phases
<1>5. QED
  BY <1>1, <1>3, <1>4

\* A crash keeps the invariant, whatever became of a root that was not flushed.
LEMMA CrashIInv ==
    ASSUME IInv, Crash
    PROVE  IInv'
<1>1. /\ phase # "closed" /\ phase' = "crashed"
      /\ IF phase = "rooted" THEN RootLost ELSE nodes' = nodes /\ first' = first
      /\ current' = current /\ gen' = gen /\ next_gen' = next_gen
      /\ last_gen_cur' = last_gen_cur /\ collected' = collected
      /\ added' = added /\ leaves' = leaves
  BY DEF Crash
<1>2. AddingInv' /\ GenInv' /\ ParentsInv' /\ RootInv' /\ PendingInv'
  BY <1>1 DEF AddingInv, GenInv, ParentsInv, RootInv, PendingInv
<1>3. CASE phase # "rooted"
  BY <1>1, <1>2, <1>3, StoppedIInv DEF Phases
<1>4. CASE phase = "rooted"
  BY <1>1, <1>2, <1>4, RootLostIInv DEF Phases
<1>5. QED
  BY <1>3, <1>4

\* A call that fails keeps the invariant.
LEMMA FailsIInv ==
    ASSUME IInv, FinalizeFails \/ AddEntryFails
    PROVE  IInv'
<1>1. /\ phase \notin {"rooted", "closed"} /\ phase' \in {"failed", "broken"}
      /\ nodes' = nodes /\ first' = first
      /\ current' = current /\ gen' = gen /\ next_gen' = next_gen
      /\ last_gen_cur' = last_gen_cur /\ collected' = collected
      /\ added' = added /\ leaves' = leaves
      /\ phase' = "broken" => phase = "adding"
  BY DEF FinalizeFails, AddEntryFails
<1>2. AddingInv' /\ GenInv' /\ ParentsInv' /\ RootInv' /\ PendingInv'
  BY <1>1 DEF IInv, AddingInv, GenInv, ParentsInv, RootInv, PendingInv
<1>3. QED
  BY <1>1, <1>2, StoppedIInv DEF Phases

\* Every entry the caller adds is a pair of numbers.
LEMMA AddsNumbers ==
    ASSUME NEW e \in Entries
    PROVE  e.key \in Nat /\ e.val \in Nat
  BY WriteAssumption

\* Every step keeps the invariant.
LEMMA NextIInv == IInv /\ [Next]_vars => IInv'
<1> SUFFICES ASSUME IInv, [Next]_vars PROVE IInv'
  OBVIOUS
<1>1. ASSUME NEW k \in Nat, NEW c \in Nat, AddEntry(k, c) PROVE IInv'
  BY <1>1, AddEntryIInv
<1>2. CASE AddEntryFails \/ FinalizeFails
  BY <1>2, FailsIInv
<1>3. CASE FinalizeBegin
  BY <1>3, FinalizeBeginIInv
<1>4. CASE CloseStep
  BY <1>4, CheckLastChildGenIInv, WriteParentsBeginIInv, WriteParentIInv,
     WriteParentsEndIInv, WriteRootIInv, CloseIInv DEF CloseStep
<1>5. CASE Crash
  BY <1>5, CrashIInv
<1>6. CASE UNCHANGED vars
  <2>1. /\ phase' = phase /\ nodes' = nodes /\ first' = first
        /\ current' = current /\ gen' = gen /\ next_gen' = next_gen
        /\ last_gen_cur' = last_gen_cur /\ collected' = collected
        /\ added' = added /\ leaves' = leaves
    BY <1>6 DEF vars
  <2>2. LeafLayout' /\ EntriesInOrder' /\ ParentsChain' /\ NextChild' = NextChild
    BY <2>1, FileKept
  <2>3. TypeOK'
    BY <2>1 DEF IInv, TypeOK
  <2>4. RootCommits'
    BY <2>1 DEF IInv, RootCommits, ParentOfBatch, BatchEnd
  <2>5. AddingInv' /\ RootInv' /\ PendingInv'
    BY <2>1 DEF IInv, AddingInv, RootInv, PendingInv
  <2>6. GenInv' /\ ParentsInv'
    BY <2>1, <2>2 DEF IInv, GenInv, ParentsInv
  <2>7. QED
    BY <2>2, <2>3, <2>4, <2>5, <2>6 DEF IInv
<1>7. CASE \E e \in Entries : AddEntry(e.key, e.val)
  BY <1>1, <1>7, AddsNumbers
<1>8. QED
  BY <1>2, <1>3, <1>4, <1>5, <1>6, <1>7 DEF Next

\* The invariant holds in every behaviour.
LEMMA InvariantHolds == Spec => []IInv
<1>1. QED
  BY InitIInv, NextIInv, PTL DEF Spec

-----------------------------------------------------------------------------
(***************************************************************************)
(* The theorems.                                                           *)
(***************************************************************************)

\* Type correctness.
THEOREM WriteTypeOK == Spec => []TypeOK
<1>1. IInv => TypeOK
  BY DEF IInv
<1>2. QED
  BY <1>1, InvariantHolds, PTL

\* The root is followed by all the leaves and then by the other nodes, which
\* sfbti_tar_random_read (sfbti.c:602) takes for granted.
THEOREM WriteLeafLayout == Spec => []LeafLayout
<1>1. IInv => LeafLayout
  BY DEF IInv
<1>2. QED
  BY <1>1, InvariantHolds, PTL

\* No entry is lost, doubled or moved between sfbti_add_entry and the leaves.
THEOREM WriteEntriesInOrder == Spec => []EntriesInOrder
<1>1. IInv => EntriesInOrder
  BY DEF IInv
<1>2. QED
  BY <1>1, InvariantHolds, PTL

\* The parents that sfbti_write_parents appends cover their generations without
\* gap or overlap, and no parent mixes leaves with other nodes.
THEOREM WriteParentsChain == Spec => []ParentsChain
<1>1. IInv => ParentsChain
  BY DEF IInv
<1>2. QED
  BY <1>1, InvariantHolds, PTL

\* The root is written last and completes the chain of parents, however many
\* generations there are and wherever the writer stops.
THEOREM WriteRootCommits == Spec => []RootCommits
<1>1. IInv => RootCommits
  BY DEF IInv
<1>2. QED
  BY <1>1, InvariantHolds, PTL

\* What a step may do to the file.
KeepsFile ==
    /\ Len(nodes') >= Len(nodes)
    /\ \A p \in 2..Len(nodes) : nodes'[p] = nodes[p]
    /\ nodes[1] # Blank => Len(nodes') = Len(nodes) /\ nodes'[1] \in {nodes[1], Blank}

\* Every step appends a node, writes the first node over the gap, or loses it.
LEMMA NextKeepsFile == IInv /\ Next => KeepsFile
<1> SUFFICES ASSUME IInv, Next PROVE KeepsFile
  OBVIOUS
<1> USE DEF KeepsFile
<1>1. nodes \in Seq(Node) /\ Len(nodes) \in Nat /\ Len(nodes) >= 1 /\ current \in Node
  BY DEF IInv, TypeOK
<1>2. CASE nodes' = nodes
  BY <1>1, <1>2
<1>3. CASE nodes' = [nodes EXCEPT ![1] = Blank]
  BY <1>1, <1>3
<1>4. ASSUME NEW nd \in Node, nodes' = Append(nodes, nd), nodes[1] = Blank PROVE KeepsFile
  <2>1. /\ Len(nodes') = Len(nodes) + 1
        /\ \A p \in 1..Len(nodes) : nodes'[p] = nodes[p]
    BY <1>1, <1>4, AppendFacts
  <2>2. QED
    BY <1>1, <1>4, <2>1
<1>5. ASSUME NEW k \in Nat, NEW c \in Nat, AddEntry(k, c) PROVE KeepsFile
  <2>1. nodes[1] = Blank
    BY <1>5 DEF IInv, AddingInv, AddEntry
  <2>2. nodes' = nodes \/ nodes' = Append(nodes, current)
    BY <1>5 DEF AddEntry, Flush
  <2>3. QED
    BY <2>1, <2>2, <1>1, <1>2, <1>4
<1>6. CASE FinalizeBegin
  <2>1. nodes[1] = Blank /\ nodes' = Append(nodes, current)
    BY <1>6 DEF IInv, AddingInv, FinalizeBegin, Flush
  <2>2. QED
    BY <2>1, <1>1, <1>4
<1>7. CASE WriteParent
  <2>1. nodes[1] = Blank /\ collected \in Seq(Entry)
    BY <1>7 DEF IInv, TypeOK, ParentsInv, WriteParent
  <2>2. nodes' = Append(nodes, [leaf |-> FALSE, ent |-> collected])
    BY <1>7 DEF WriteParent, Flush
  <2>3. [leaf |-> FALSE, ent |-> collected] \in Node
    BY <2>1 DEF Node
  <2>4. QED
    BY <2>1, <2>2, <2>3, <1>4
<1>8. CASE WriteRoot
  <2>1. nodes[1] = Blank
    BY <1>8 DEF IInv, GenInv, WriteRoot
  <2>2. nodes' = nodes \/ nodes' = [nodes EXCEPT ![1] = [leaf |-> FALSE, ent |-> collected']]
    BY <1>8 DEF WriteRoot
  <2>3. QED
    BY <2>1, <2>2, <1>1
<1>9. CASE Close \/ Crash
  BY <1>2, <1>3, <1>9 DEF Close, Crash, RootLost
<1>10. CASE CheckLastChildGen \/ WriteParentsBegin \/ WriteParentsEnd
             \/ FinalizeFails \/ AddEntryFails
  BY <1>2, <1>10 DEF CheckLastChildGen, WriteParentsBegin, WriteParentsEnd,
                     FinalizeFails, AddEntryFails
<1>11. CASE \E e \in Entries : AddEntry(e.key, e.val)
  BY <1>5, <1>11, AddsNumbers
<1>12. QED
  BY <1>6, <1>7, <1>8, <1>9, <1>10, <1>11 DEF Next, CloseStep

\* No step overwrites a node that is already in the file, and nothing is written
\* behind the root.
THEOREM WriteWrittenOnce == Spec => WrittenOnce
<1>1. IInv /\ [Next]_vars => [KeepsFile]_vars
  BY NextKeepsFile
<1>2. QED
  BY <1>1, InvariantHolds, PTL DEF Spec, WrittenOnce, KeepsFile

-----------------------------------------------------------------------------
(***************************************************************************)
(* Every record of a tree file is sorted, at every moment and for every    *)
(* record size: with the layout of the leaves this is ReadableLayout, what *)
(* sfbti_find_index and sfbti_tar_random_read need of a file.              *)
(*                                                                         *)
(* Leaves are sorted because the entries arrive sorted and stay in order   *)
(* (EntriesInOrder).  A parent is sorted because the first keys ascend     *)
(* along the generation its batch is cut from, and they ascend along the   *)
(* next generation because the batches of its nodes follow each other.     *)
(***************************************************************************)

AddedSorted ==
    \A e, f \in 1..Len(added) : e < f => added[e].key < added[f].key

\* A leaf is flushed only for the sake of an entry that goes into the next record.
Filled ==
    IF phase \in {"adding", "broken"}
    THEN /\ leaves >= 1 => current.ent # <<>>
         /\ \A p \in 2..(leaves+1) : nodes[p].ent # <<>>
    ELSE leaves > 1 => \A p \in 2..(leaves+1) : nodes[p].ent # <<>>

SortedNode(nd) ==
    \A s, t \in 1..Len(nd.ent) : s < t => nd.ent[s].key < nd.ent[t].key

\* The root and the other nodes that are no leaves.
InnerSorted ==
    /\ SortedNode(nodes[1])
    /\ \A p \in (leaves+2)..Len(nodes) : SortedNode(nodes[p])

\* The first keys ascend along a range of the file.
Ascends(file, from, stop) ==
    \A p, q \in (from+1)..stop : p < q => FirstKey(file[p]) < FirstKey(file[q])

\* The first keys ascend along the generation that still needs parents.
GenOrder ==
    /\ phase \in {"check", "parents_begin", "root"} => Ascends(nodes, gen, Len(nodes))
    /\ phase = "parents" => Ascends(nodes, gen, next_gen)

\* So they do along the parents written so far, whose batches lie before the next.
ParentsOrder ==
    phase = "parents" =>
        /\ Ascends(nodes, next_gen, Len(nodes))
        /\ \A p \in (next_gen+1)..Len(nodes) : gen <= first[p] /\ first[p] < NextChild

OrderInv == AddedSorted /\ Filled /\ InnerSorted /\ GenOrder /\ ParentsOrder

-----------------------------------------------------------------------------
(***************************************************************************)
(* The helpers.                                                            *)
(***************************************************************************)

\* A batch cut from an ascending range is a sorted record.
LEMMA SortedBatch ==
    ASSUME NEW file, NEW from \in Nat, NEW stop \in Nat, from <= stop,
           Ascends(file, from, stop),
           NEW nd, nd.ent = Collect(file, from, stop)
    PROVE  SortedNode(nd)
<1> DEFINE n == Lesser(K, stop - from)
<1> USE ConstantTypes
<1>1. n \in Nat /\ n <= stop - from
  BY DEF Lesser
<1>2. nd.ent = [s \in 1..n |-> [key |-> FirstKey(file[from + s]), val |-> ByteOffset(from + s - 1)]]
  BY DEF Collect
<1> HIDE DEF n
<1>3. Len(nd.ent) = n
  BY <1>1, <1>2
<1>4. ASSUME NEW s \in 1..n, NEW t \in 1..n, s < t
      PROVE  nd.ent[s].key < nd.ent[t].key
  <2>1. from + s \in (from+1)..stop /\ from + t \in (from+1)..stop /\ from + s < from + t
    BY <1>1, <1>4
  <2>2. FirstKey(file[from + s]) < FirstKey(file[from + t])
    BY <2>1 DEF Ascends
  <2>3. nd.ent[s].key = FirstKey(file[from + s]) /\ nd.ent[t].key = FirstKey(file[from + t])
    BY <1>2
  <2>4. QED
    BY <2>2, <2>3
<1>5. QED
  BY <1>3, <1>4 DEF SortedNode

\* A parent has the first key of the first node of its batch.
LEMMA FirstKeyOfParent ==
    ASSUME NEW file, NEW from \in Nat, NEW stop \in Nat, from < stop,
           NEW nd, nd.ent = Collect(file, from, stop)
    PROVE  FirstKey(nd) = FirstKey(file[from + 1])
<1> DEFINE n == Lesser(K, stop - from)
<1> USE ConstantTypes
<1>1. n \in Nat /\ n >= 1
  BY DEF Lesser
<1>2. nd.ent = [s \in 1..n |-> [key |-> FirstKey(file[from + s]), val |-> ByteOffset(from + s - 1)]]
  BY DEF Collect
<1> HIDE DEF n
<1>3. Len(nd.ent) = n /\ nd.ent[1].key = FirstKey(file[from + 1])
  BY <1>1, <1>2
<1>4. nd.ent # <<>>
  BY <1>1, <1>3
<1>5. QED
  BY <1>3, <1>4 DEF FirstKey

\* What becomes of a file that grew or changed at its first node only.
LEMMA AscendsKept ==
    ASSUME NEW f, NEW g, NEW from \in Nat, NEW stop \in Nat,
           \A p \in (from+1)..stop : g[p] = f[p],
           Ascends(f, from, stop)
    PROVE  Ascends(g, from, stop)
  BY DEF Ascends

\* Leaves hold the entries in the order they were added, so they are sorted, and so
\* are their first keys.
LEMMA LeavesInOrder ==
    ASSUME NEW file \in Seq(Node), NEW m \in Nat, m + 1 <= Len(file), NEW input \in Seq(Entry),
           \A e, f \in 1..Len(input) : e < f => input[e].key < input[f].key,
           \A p \in 2..(m+1) : \A s \in 1..Len(file[p].ent) :
               /\ (p - 2) * K + s \in 1..Len(input)
               /\ file[p].ent[s] = input[(p - 2) * K + s]
    PROVE  /\ \A p \in 2..(m+1) : SortedNode(file[p])
           /\ (\A p \in 2..(m+1) : file[p].ent # <<>>) => Ascends(file, 1, m + 1)
<1> USE ConstantTypes
<1>1. Len(file) \in Nat /\ Len(input) \in Nat
  OBVIOUS
<1>2. \A p \in 2..(m+1) : \A s \in 1..Len(file[p].ent) :
        /\ (p - 2) * K + s \in 1..Len(input)
        /\ file[p].ent[s] = input[(p - 2) * K + s]
  OBVIOUS
<1>3. ASSUME NEW p \in 2..(m+1), NEW s \in 1..Len(file[p].ent),
             NEW t \in 1..Len(file[p].ent), s < t
      PROVE  file[p].ent[s].key < file[p].ent[t].key
  <2>0. PICK e \in Nat : e = (p - 2) * K
    <3>1. p - 2 \in Nat
      BY <1>1
    <3>2. QED
      BY <3>1
  <2>1. s \in Nat /\ t \in Nat
    OBVIOUS
  <2>2. e + s \in 1..Len(input) /\ e + t \in 1..Len(input) /\ e + s < e + t
    BY <1>2, <1>3, <2>0, <2>1
  <2>3. input[e + s].key < input[e + t].key
    BY <2>2
  <2>4. file[p].ent[s] = input[e + s] /\ file[p].ent[t] = input[e + t]
    BY <1>2, <2>0
  <2>5. QED
    BY <2>3, <2>4
<1>4. ASSUME \A p \in 2..(m+1) : file[p].ent # <<>>
      PROVE  Ascends(file, 1, m + 1)
  <2> SUFFICES ASSUME NEW p \in 2..(m+1), NEW q \in 2..(m+1), p < q
               PROVE  FirstKey(file[p]) < FirstKey(file[q])
    BY DEF Ascends
  <2>1. ASSUME NEW r \in 2..(m+1)
        PROVE  /\ (r - 2) * K + 1 \in 1..Len(input)
               /\ FirstKey(file[r]) = input[(r - 2) * K + 1].key
    <3>1. r \in 1..Len(file) /\ file[r].ent # <<>>
      BY <1>1, <1>4
    <3>2. file[r] \in Node
      BY <3>1, <1>1
    <3>3. file[r].ent \in Seq(Entry)
      BY <3>2 DEF Node
    <3>4. 1 \in 1..Len(file[r].ent)
      BY <3>1, <3>3
    <3>5. FirstKey(file[r]) = file[r].ent[1].key
      BY <3>1 DEF FirstKey
    <3>6. QED
      BY <1>2, <3>4, <3>5
  <2>2. (p - 2) * K + 1 < (q - 2) * K + 1
    <3>1. PICK d \in Nat : q - 2 = (p - 2) + d /\ d >= 1
      <4>1. q - p \in Nat /\ q - p >= 1 /\ q - 2 = (p - 2) + (q - p)
        BY <1>1
      <4>2. QED
        BY <4>1
    <3>2. (q - 2) * K = (p - 2) * K + d * K
      BY <1>1, <3>1
    <3>3. d * K >= 1 /\ d * K \in Nat
      <4>1. d * K = (d - 1) * K + K /\ d - 1 \in Nat
        BY <3>1
      <4>2. (d - 1) * K \in Nat
        BY <4>1
      <4>3. QED
        BY <4>1, <4>2
    <3>4. (p - 2) * K \in Int
      BY <1>1
    <3>5. QED
      BY <3>2, <3>3, <3>4
  <2>3. input[(p - 2) * K + 1].key < input[(q - 2) * K + 1].key
    BY <2>1, <2>2
  <2>4. QED
    BY <2>1, <2>3
<1>5. QED
  BY <1>3, <1>4 DEF SortedNode

-----------------------------------------------------------------------------
(***************************************************************************)
(* The steps.                                                              *)
(***************************************************************************)

\* A file that was just created is sorted.
LEMMA InitOrder == Init => OrderInv
<1> SUFFICES ASSUME Init PROVE OrderInv
  OBVIOUS
<1>1. AddedSorted /\ Filled
  BY DEF Init, AddedSorted, Filled
<1>2. InnerSorted
  BY DEF Init, InnerSorted, SortedNode, Blank
<1>3. GenOrder /\ ParentsOrder
  BY DEF Init, GenOrder, ParentsOrder
<1>4. QED
  BY <1>1, <1>2, <1>3 DEF OrderInv

\* A step that keeps the file, the history and the position keeps the order.
LEMMA SameFile ==
    ASSUME OrderInv, added' = added, leaves' = leaves, nodes' = nodes, first' = first,
           phase' \in {"rooted", "closed", "failed", "crashed"},
           phase \notin {"adding", "broken"} \/ phase' \notin {"rooted", "closed"}
    PROVE  OrderInv'
<1>1. AddedSorted'
  BY DEF OrderInv, AddedSorted
<1>2. Filled'
  BY DEF OrderInv, Filled
<1>3. InnerSorted'
  BY DEF OrderInv, InnerSorted, SortedNode
<1>4. GenOrder' /\ ParentsOrder'
  BY DEF GenOrder, ParentsOrder
<1>5. QED
  BY <1>1, <1>2, <1>3, <1>4 DEF OrderInv

\* The next state's file has its entries in order too.
LEMMA EntriesTypes ==
    ASSUME IInv'
    PROVE  /\ nodes' \in Seq(Node) /\ leaves' \in Nat /\ leaves' + 1 <= Len(nodes')
           /\ added' \in Seq(Entry)
           /\ \A p \in 2..(leaves'+1) : \A s \in 1..Len(nodes'[p].ent) :
                /\ (p - 2) * K + s \in 1..Len(added')
                /\ nodes'[p].ent[s] = added'[(p - 2) * K + s]
<1>1. TypeOK' /\ LeafLayout' /\ EntriesInOrder'
  BY DEF IInv
<1>2. QED
  BY <1>1 DEF TypeOK, LeafLayout, EntriesInOrder

\* A file of leaves under a blank root has nothing else to sort.
LEMMA NoInner ==
    ASSUME nodes'[1] = Blank, leaves' \in Nat, Len(nodes') = leaves' + 1
    PROVE  InnerSorted'
<1>1. SortedNode(Blank)
  BY DEF SortedNode, Blank
<1>2. \A a \in Nat : \A b \in (a+2)..(a+1) : FALSE
  OBVIOUS
<1>3. QED
  BY <1>1, <1>2 DEF InnerSorted

\* Adding an entry that is later than all others keeps the order of the leaves.
LEMMA AddEntryOrder ==
    ASSUME IInv, IInv', OrderInv, NEW k \in Nat, NEW c \in Nat, AddEntry(k, c)
    PROVE  OrderInv'
<1> DEFINE entry == [key |-> k, val |-> c]
<1> USE ConstantTypes
<1>1. /\ phase = "adding" /\ phase' = "adding" /\ added' = Append(added, entry)
      /\ \A e \in 1..Len(added) : added[e].key < k
  BY DEF AddEntry
<1>2. /\ added \in Seq(Entry) /\ Len(added) \in Nat /\ entry \in Entry /\ leaves \in Nat
      /\ nodes \in Seq(Node) /\ Len(nodes) \in Nat /\ current \in Node
      /\ Len(nodes) = leaves + 1
  <2>1. entry \in Entry
    BY DEF Entry
  <2>2. Len(nodes) = leaves + 1
    BY <1>1 DEF IInv, AddingInv
  <2>3. /\ added \in Seq(Entry) /\ leaves \in Nat /\ nodes \in Seq(Node)
        /\ current \in Node
    BY DEF IInv, TypeOK
  <2>4. QED
    BY <2>1, <2>2, <2>3
<1>3. AddedSorted'
  <2>1. /\ Len(added') = Len(added) + 1
        /\ \A e \in 1..Len(added) : added'[e] = added[e]
        /\ added'[Len(added) + 1] = entry
    BY <1>1, <1>2, AppendFacts
  <2>2. ASSUME NEW e \in 1..Len(added'), NEW f \in 1..Len(added'), e < f
        PROVE  added'[e].key < added'[f].key
    <3>1. e \in 1..Len(added) /\ added'[e] = added[e]
      BY <1>2, <2>1, <2>2
    <3>2. CASE f \in 1..Len(added)
      BY <3>1, <3>2, <2>1, <2>2 DEF OrderInv, AddedSorted
    <3>3. CASE f = Len(added) + 1
      <4>1. added'[f].key = k
        BY <3>3, <2>1
      <4>2. QED
        BY <3>1, <4>1, <1>1
    <3>4. QED
      BY <1>2, <2>1, <3>2, <3>3
  <2>3. QED
    BY <2>2 DEF AddedSorted
<1>4. Filled'
  <2>1. /\ leaves >= 1 => current.ent # <<>>
        /\ \A p \in 2..(leaves+1) : nodes[p].ent # <<>>
    BY <1>1 DEF OrderInv, Filled
  <2>2. CASE Len(current.ent) = K
    <3>1. /\ nodes' = Append(nodes, current) /\ leaves' = leaves + 1
          /\ current' = [EmptyLeaf EXCEPT !.ent = <<entry>>]
      BY <2>2 DEF AddEntry, Flush
    <3>2. current'.ent # <<>>
      BY <3>1 DEF EmptyLeaf
    <3>3. current.ent # <<>>
      BY <2>2
    <3>4. /\ \A p \in 1..Len(nodes) : nodes'[p] = nodes[p]
          /\ nodes'[Len(nodes) + 1] = current
      BY <3>1, <1>2, AppendFacts
    <3>5. ASSUME NEW p \in 2..(leaves+2) PROVE nodes'[p].ent # <<>>
      <4>1. CASE p \in 2..(leaves+1)
        <5>1. p \in 1..Len(nodes)
          BY <1>2, <4>1
        <5>2. QED
          BY <5>1, <4>1, <3>4, <2>1
      <4>2. CASE p = leaves + 2
        BY <4>2, <3>3, <3>4, <1>2
      <4>3. QED
        BY <1>2, <4>1, <4>2
    <3>6. QED
      BY <1>1, <1>2, <3>1, <3>2, <3>5 DEF Filled
  <2>3. CASE Len(current.ent) # K
    <3>1. /\ nodes' = nodes /\ leaves' = leaves
          /\ current' = [current EXCEPT !.ent = Append(current.ent, entry)]
      BY <2>3 DEF AddEntry
    <3>2. current.ent \in Seq(Entry)
      BY <1>2 DEF Node
    <3>3. current'.ent = Append(current.ent, entry)
      BY <3>1, <1>2 DEF Node
    <3>4. Len(current'.ent) = Len(current.ent) + 1 /\ Len(current.ent) \in Nat
      BY <3>2, <3>3, <1>2, AppendFacts
    <3>5. current'.ent # <<>>
      BY <3>4
    <3>6. QED
      BY <1>1, <2>1, <3>1, <3>5 DEF Filled
  <2>4. QED
    BY <2>2, <2>3
<1>5. InnerSorted'
  <2>1. nodes'[1] = Blank /\ Len(nodes') = leaves' + 1
    <3>1. AddingInv'
      BY DEF IInv
    <3>2. QED
      BY <1>1, <3>1 DEF AddingInv
  <2>2. leaves' \in Nat
    BY EntriesTypes
  <2>3. QED
    BY <2>1, <2>2, NoInner
<1>6. GenOrder' /\ ParentsOrder'
  BY <1>1 DEF GenOrder, ParentsOrder
<1>7. QED
  BY <1>3, <1>4, <1>5, <1>6 DEF OrderInv

\* The last leaf is flushed, and the leaves become the generation without parents.
LEMMA FinalizeBeginOrder ==
    ASSUME IInv, IInv', OrderInv, FinalizeBegin
    PROVE  OrderInv'
<1> USE ConstantTypes
<1>1. /\ phase = "adding" /\ phase' = "check" /\ added' = added /\ leaves' = leaves + 1
      /\ nodes' = Append(nodes, current) /\ gen' = gen
  BY DEF FinalizeBegin, Flush
<1>2. /\ leaves \in Nat /\ nodes \in Seq(Node) /\ Len(nodes) \in Nat /\ current \in Node
      /\ Len(nodes) = leaves + 1 /\ gen = 1
  BY <1>1 DEF IInv, TypeOK, AddingInv
<1>3. /\ Len(nodes') = leaves + 2
      /\ \A p \in 1..Len(nodes) : nodes'[p] = nodes[p]
      /\ nodes'[leaves + 2] = current
  BY <1>1, <1>2, AppendFacts
<1>4. AddedSorted'
  BY <1>1 DEF OrderInv, AddedSorted
<1>5. leaves >= 1 => \A p \in 2..(leaves+2) : nodes'[p].ent # <<>>
  <2> SUFFICES ASSUME leaves >= 1, NEW p \in 2..(leaves+2) PROVE nodes'[p].ent # <<>>
    OBVIOUS
  <2>1. /\ current.ent # <<>>
        /\ \A r \in 2..(leaves+1) : nodes[r].ent # <<>>
    BY <1>1 DEF OrderInv, Filled
  <2>2. CASE p \in 2..(leaves+1)
    <3>1. p \in 1..Len(nodes)
      BY <1>2, <2>2
    <3>2. QED
      BY <3>1, <2>1, <2>2, <1>3
  <2>3. CASE p = leaves + 2
    BY <2>1, <2>3, <1>3
  <2>4. QED
    BY <1>2, <2>2, <2>3
<1>6. Filled'
  BY <1>1, <1>2, <1>5 DEF Filled
<1>7. InnerSorted'
  <2>1. nodes'[1] = Blank
    <3>1. nodes[1] = Blank
      BY <1>1 DEF IInv, AddingInv
    <3>2. 1 \in 1..Len(nodes)
      BY <1>2
    <3>3. QED
      BY <3>1, <3>2, <1>3
  <2>2. Len(nodes') = leaves' + 1 /\ leaves' \in Nat
    BY <1>1, <1>2, <1>3
  <2>3. QED
    BY <2>1, <2>2, NoInner
<1>8. Ascends(nodes', 1, leaves + 2)
  <2>1. CASE leaves >= 1
    <3>1. \A p \in 2..(leaves'+1) : nodes'[p].ent # <<>>
      BY <1>1, <1>2, <1>5, <2>1
    <3>2. Ascends(nodes', 1, leaves' + 1)
      BY <1>4, <3>1, EntriesTypes, LeavesInOrder DEF AddedSorted
    <3>3. QED
      BY <3>2, <1>1, <1>2
  <2>2. CASE leaves = 0
    BY <2>2 DEF Ascends
  <2>3. QED
    BY <1>2, <2>1, <2>2
<1>9. GenOrder' /\ ParentsOrder'
  BY <1>1, <1>2, <1>3, <1>8 DEF GenOrder, ParentsOrder
<1>10. QED
  BY <1>4, <1>6, <1>7, <1>9 DEF OrderInv

\* No parent is written yet: the generation is the whole rest of the file.
LEMMA WriteParentsBeginOrder ==
    ASSUME IInv, OrderInv, WriteParentsBegin
    PROVE  OrderInv'
<1>1. /\ phase = "parents_begin" /\ phase' = "parents" /\ next_gen' = Len(nodes)
      /\ nodes' = nodes /\ first' = first /\ added' = added /\ leaves' = leaves
      /\ gen' = gen /\ current' = current
  BY DEF WriteParentsBegin
<1>2. Len(nodes) \in Nat
  BY DEF IInv, TypeOK
<1>3. AddedSorted' /\ Filled'
  BY <1>1 DEF OrderInv, AddedSorted, Filled
<1>4. InnerSorted'
  BY <1>1 DEF OrderInv, InnerSorted, SortedNode
<1>5. GenOrder'
  BY <1>1 DEF OrderInv, GenOrder
<1>6. ParentsOrder'
  BY <1>1, <1>2 DEF ParentsOrder, Ascends
<1>7. QED
  BY <1>3, <1>4, <1>5, <1>6 DEF OrderInv

\* The new parent is sorted, and its first key is the greatest of its generation.
LEMMA WriteParentOrder ==
    ASSUME IInv, IInv', OrderInv, WriteParent
    PROVE  OrderInv'
<1> DEFINE start == last_gen_cur - Len(collected)
           parent == [leaf |-> FALSE, ent |-> collected]
<1> USE ConstantTypes
<1>0. PICK len \in Nat : len = Len(nodes)
  BY DEF IInv, TypeOK
<1>1. /\ phase = "parents" /\ phase' = "parents" /\ collected # <<>>
      /\ nodes' = Append(nodes, parent) /\ first' = Append(first, start)
      /\ gen' = gen /\ next_gen' = next_gen
      /\ last_gen_cur' = last_gen_cur + Len(collected')
      /\ added' = added /\ leaves' = leaves
  BY DEF WriteParent, Flush
<1>2. /\ nodes \in Seq(Node) /\ first \in Seq(Nat) /\ Len(first) = len
      /\ leaves \in Nat /\ gen \in Nat /\ next_gen \in Nat /\ last_gen_cur \in Nat
      /\ collected \in Seq(Entry) /\ len >= 1 /\ leaves + 1 <= len
  BY <1>0 DEF IInv, TypeOK, LeafLayout
<1>3. /\ gen >= 1 /\ gen < next_gen /\ next_gen <= len
      /\ last_gen_cur <= next_gen
      /\ NextChild = start
      /\ start >= gen
      /\ collected = Collect(nodes, start, last_gen_cur)
      /\ IF gen = 1 THEN next_gen = leaves + 1 ELSE gen >= leaves + 1
  BY <1>0, <1>1 DEF IInv, ParentsInv
<1>4. /\ Len(collected) \in Nat /\ Len(collected) >= 1
      /\ start \in Nat /\ start < last_gen_cur
  <2>1. Len(collected) \in Nat /\ Len(collected) # 0
    BY <1>1, <1>2
  <2>2. start \in Int
    BY <2>1, <1>2
  <2>3. QED
    BY <2>1, <2>2, <1>2, <1>3
<1>5. parent \in Node /\ parent.ent = collected
  BY <1>2 DEF Node
<1> HIDE DEF start, parent
<1>6. /\ Len(nodes') = len + 1
      /\ \A p \in 1..len : nodes'[p] = nodes[p]
      /\ nodes'[len + 1] = parent
  BY <1>0, <1>1, <1>2, <1>5, AppendFacts
<1>7. /\ \A p \in 1..len : first'[p] = first[p]
      /\ first'[len + 1] = start
  <2>1. first \in Seq(Nat) /\ start \in Nat /\ first' = Append(first, start)
    BY <1>1, <1>2, <1>4
  <2>2. QED
    BY <2>1, <1>2, AppendFacts
<1>8. /\ Ascends(nodes, gen, next_gen) /\ Ascends(nodes, next_gen, len)
      /\ \A p \in (next_gen+1)..len : gen <= first[p] /\ first[p] < start
  BY <1>0, <1>1, <1>3 DEF OrderInv, GenOrder, ParentsOrder
<1>9. NextChild' = last_gen_cur
  <2>1. NextChild' = last_gen_cur' - Len(collected')
    <3>1. ParentsInv'
      BY DEF IInv
    <3>2. QED
      BY <1>1, <3>1 DEF ParentsInv
  <2>2. Len(collected') \in Nat
    BY DEF IInv, TypeOK
  <2>3. QED
    BY <2>1, <2>2, <1>1, <1>2
<1>10. AddedSorted'
  BY <1>1 DEF OrderInv, AddedSorted
<1>11. Filled'
  <2>1. ASSUME NEW p \in 2..(leaves+1) PROVE nodes'[p] = nodes[p]
    <3>1. p \in 1..len
      BY <1>2
    <3>2. QED
      BY <3>1, <1>6
  <2>2. QED
    BY <2>1, <1>1 DEF OrderInv, Filled
<1>12. SortedNode(parent)
  <2>1. Ascends(nodes, start, last_gen_cur)
    <3>1. \A p \in (start+1)..last_gen_cur : p \in (gen+1)..next_gen
      BY <1>2, <1>3, <1>4
    <3>2. QED
      BY <3>1, <1>8 DEF Ascends
  <2>2. QED
    BY <2>1, <1>2, <1>3, <1>4, <1>5, SortedBatch
<1>13. InnerSorted'
  <2>1. SortedNode(nodes'[1])
    <3>1. 1 \in 1..len
      BY <1>2
    <3>2. QED
      BY <3>1, <1>6 DEF OrderInv, InnerSorted
  <2>2. ASSUME NEW p \in (leaves+2)..(len+1) PROVE SortedNode(nodes'[p])
    <3>1. CASE p \in (leaves+2)..len
      <4>1. p \in 1..len
        BY <1>2, <3>1
      <4>2. QED
        BY <4>1, <3>1, <1>0, <1>6 DEF OrderInv, InnerSorted
    <3>2. CASE p = len + 1
      BY <3>2, <1>6, <1>12
    <3>3. QED
      BY <1>2, <3>1, <3>2
  <2>3. QED
    BY <2>1, <2>2, <1>1, <1>6 DEF InnerSorted
<1>14. Ascends(nodes', gen, next_gen)
  <2>1. ASSUME NEW p \in (gen+1)..next_gen PROVE nodes'[p] = nodes[p]
    <3>1. p \in 1..len
      BY <1>2, <1>3
    <3>2. QED
      BY <3>1, <1>6
  <2>2. QED
    BY <2>1, <1>2, <1>8, AscendsKept
<1>15. ASSUME NEW p \in (next_gen+1)..len
       PROVE  FirstKey(nodes'[p]) < FirstKey(nodes'[len + 1])
  <2>1. p \in 1..len /\ p \in (leaves+2)..len /\ p \in 1..Len(first)
    <3>1. next_gen >= leaves + 1
      BY <1>2, <1>3
    <3>2. next_gen \in Nat /\ leaves \in Nat /\ len \in Nat
      BY <1>2
    <3>3. p \in 1..len /\ p \in (leaves+2)..len
      BY <3>1, <3>2
    <3>4. QED
      BY <3>3, <1>2
  <2>2. first[p] \in Nat
    BY <2>1, <1>2
  <2>3. /\ nodes[p].ent = Collect(nodes, first[p], first[p] + Len(nodes[p].ent))
        /\ Len(nodes[p].ent) \in Nat /\ Len(nodes[p].ent) >= 1
    BY <2>1, <1>0 DEF IInv, ParentsChain, ParentOfBatch
  <2>4. FirstKey(nodes[p]) = FirstKey(nodes[first[p] + 1])
    <3>1. PICK stop \in Nat : stop = first[p] + Len(nodes[p].ent) /\ first[p] < stop
      BY <2>2, <2>3
    <3>2. QED
      BY <2>2, <2>3, <3>1, FirstKeyOfParent
  <2>5. FirstKey(parent) = FirstKey(nodes[start + 1])
    BY <1>2, <1>3, <1>4, <1>5, FirstKeyOfParent
  <2>6. /\ first[p] + 1 \in (gen+1)..next_gen /\ start + 1 \in (gen+1)..next_gen
        /\ first[p] + 1 < start + 1
    <3>1. gen <= first[p] /\ first[p] < start
      BY <1>8
    <3>2. start + 1 <= next_gen
      BY <1>2, <1>3, <1>4
    <3>3. gen \in Nat /\ start \in Nat /\ next_gen \in Nat
      BY <1>2, <1>4
    <3>4. QED
      BY <3>1, <3>2, <3>3, <2>2
  <2>7. FirstKey(nodes[first[p] + 1]) < FirstKey(nodes[start + 1])
    BY <2>6, <1>8 DEF Ascends
  <2>8. nodes'[p] = nodes[p] /\ nodes'[len + 1] = parent
    BY <2>1, <1>6
  <2>9. QED
    BY <2>4, <2>5, <2>7, <2>8
<1>16. Ascends(nodes', next_gen, len + 1)
  <2> SUFFICES ASSUME NEW p \in (next_gen+1)..(len+1), NEW q \in (next_gen+1)..(len+1), p < q
               PROVE  FirstKey(nodes'[p]) < FirstKey(nodes'[q])
    BY DEF Ascends
  <2>1. p \in (next_gen+1)..len
    BY <1>2
  <2>2. CASE q = len + 1
    BY <2>1, <2>2, <1>15
  <2>3. CASE q \in (next_gen+1)..len
    <3>1. p \in 1..len /\ q \in 1..len
      BY <2>1, <2>3, <1>2
    <3>2. FirstKey(nodes[p]) < FirstKey(nodes[q])
      BY <2>1, <2>3, <1>8 DEF Ascends
    <3>3. QED
      BY <3>1, <3>2, <1>6
  <2>4. QED
    BY <1>2, <2>2, <2>3
<1>17. ASSUME NEW p \in (next_gen+1)..(len+1)
       PROVE  gen <= first'[p] /\ first'[p] < last_gen_cur
  <2>1. CASE p = len + 1
    BY <2>1, <1>3, <1>4, <1>7
  <2>2. CASE p \in (next_gen+1)..len
    <3>1. p \in 1..len /\ p \in 1..Len(first)
      BY <2>2, <1>2
    <3>2. first'[p] = first[p] /\ first[p] \in Nat
      BY <3>1, <1>2, <1>7
    <3>3. gen <= first[p] /\ first[p] < start
      BY <2>2, <1>8
    <3>4. QED
      BY <3>2, <3>3, <1>2, <1>4
  <2>3. QED
    BY <1>2, <2>1, <2>2
<1>18. GenOrder' /\ ParentsOrder'
  BY <1>1, <1>6, <1>9, <1>14, <1>16, <1>17 DEF GenOrder, ParentsOrder
<1>19. QED
  BY <1>10, <1>11, <1>13, <1>18 DEF OrderInv

\* The parents become the generation without parents.
LEMMA WriteParentsEndOrder ==
    ASSUME IInv, OrderInv, WriteParentsEnd
    PROVE  OrderInv'
<1>1. /\ phase = "parents" /\ phase' = "check" /\ gen' = next_gen /\ collected = <<>>
      /\ nodes' = nodes /\ first' = first /\ added' = added /\ leaves' = leaves
  BY DEF WriteParentsEnd
<1>2. AddedSorted' /\ Filled'
  BY <1>1 DEF OrderInv, AddedSorted, Filled
<1>3. InnerSorted'
  BY <1>1 DEF OrderInv, InnerSorted, SortedNode
<1>4. GenOrder'
  BY <1>1 DEF OrderInv, GenOrder, ParentsOrder
<1>5. ParentsOrder'
  BY <1>1 DEF ParentsOrder
<1>6. QED
  BY <1>2, <1>3, <1>4, <1>5 DEF OrderInv

\* Looking whether the last generation fits under the root changes no order.
LEMMA CheckLastChildGenOrder ==
    ASSUME OrderInv, CheckLastChildGen
    PROVE  OrderInv'
<1>1. /\ phase = "check" /\ phase' \in {"root", "parents_begin"} /\ gen' = gen
      /\ nodes' = nodes /\ first' = first /\ added' = added /\ leaves' = leaves
  BY DEF CheckLastChildGen
<1>2. AddedSorted' /\ Filled'
  BY <1>1 DEF OrderInv, AddedSorted, Filled
<1>3. InnerSorted'
  BY <1>1 DEF OrderInv, InnerSorted, SortedNode
<1>4. GenOrder' /\ ParentsOrder'
  BY <1>1 DEF OrderInv, GenOrder, ParentsOrder
<1>5. QED
  BY <1>2, <1>3, <1>4 DEF OrderInv

\* A step that changes the first node only, to a sorted one.
LEMMA NewRoot ==
    ASSUME OrderInv, nodes \in Seq(Node), leaves \in Nat, leaves + 1 <= Len(nodes),
           NEW nd, SortedNode(nd),
           nodes' = nodes \/ nodes' = [nodes EXCEPT ![1] = nd],
           added' = added, leaves' = leaves,
           phase \notin {"adding", "broken"},
           phase' \in {"rooted", "closed", "failed", "crashed"}
    PROVE  OrderInv'
<1>1. AddedSorted'
  BY DEF OrderInv, AddedSorted
<1>2. Len(nodes) \in Nat /\ 1 \in 1..Len(nodes)
  OBVIOUS
<1>3. /\ Len(nodes') = Len(nodes)
      /\ \A p \in 2..Len(nodes) : nodes'[p] = nodes[p]
      /\ nodes'[1] \in {nodes[1], nd}
  BY <1>2
<1>4. \A p \in 2..(leaves+1) : p \in 2..Len(nodes)
  BY <1>2
<1>5. Filled'
  BY <1>3, <1>4 DEF OrderInv, Filled
<1>6. InnerSorted'
  <2>1. SortedNode(nodes'[1])
    BY <1>3 DEF OrderInv, InnerSorted
  <2>2. ASSUME NEW p \in (leaves+2)..Len(nodes) PROVE SortedNode(nodes'[p])
    <3>1. p \in 2..Len(nodes)
      BY <1>2
    <3>2. QED
      BY <3>1, <1>3 DEF OrderInv, InnerSorted
  <2>3. QED
    BY <2>1, <2>2, <1>3 DEF InnerSorted
<1>7. GenOrder' /\ ParentsOrder'
  BY DEF GenOrder, ParentsOrder
<1>8. QED
  BY <1>1, <1>5, <1>6, <1>7 DEF OrderInv

\* The root has the generation that fits under it as its batch.
LEMMA WriteRootOrder ==
    ASSUME IInv, OrderInv, WriteRoot
    PROVE  OrderInv'
<1> DEFINE root == [leaf |-> FALSE, ent |-> collected']
<1>1. /\ phase = "root" /\ phase' = "rooted" /\ added' = added /\ leaves' = leaves
      /\ collected' = Collect(nodes, gen, Len(nodes))
      /\ nodes' = nodes \/ nodes' = [nodes EXCEPT ![1] = root]
  BY DEF WriteRoot
<1>2. /\ nodes \in Seq(Node) /\ Len(nodes) \in Nat /\ gen \in Nat /\ gen < Len(nodes)
      /\ leaves \in Nat /\ leaves + 1 <= Len(nodes)
  BY <1>1 DEF IInv, TypeOK, GenInv, LeafLayout
<1>3. SortedNode(root)
  <2>1. Ascends(nodes, gen, Len(nodes))
    BY <1>1 DEF OrderInv, GenOrder
  <2>2. root.ent = Collect(nodes, gen, Len(nodes))
    BY <1>1
  <2>3. QED
    BY <2>1, <2>2, <1>2, SortedBatch
<1> HIDE DEF root
<1>4. QED
  BY <1>1, <1>2, <1>3, NewRoot

\* Losing the root leaves a blank first node.
LEMMA RootLostOrder ==
    ASSUME IInv, OrderInv, phase \notin {"adding", "broken"}, RootLost,
           phase' \in {"closed", "crashed"}, added' = added, leaves' = leaves
    PROVE  OrderInv'
<1>1. SortedNode(Blank)
  BY DEF SortedNode, Blank
<1>2. nodes \in Seq(Node) /\ leaves \in Nat /\ leaves + 1 <= Len(nodes)
  BY DEF IInv, TypeOK, LeafLayout
<1>3. nodes' = [nodes EXCEPT ![1] = Blank]
  BY DEF RootLost
<1>4. QED
  BY <1>1, <1>2, <1>3, NewRoot

\* Every step keeps the order.
LEMMA NextOrder == IInv /\ IInv' /\ OrderInv /\ [Next]_vars => OrderInv'
<1> SUFFICES ASSUME IInv, IInv', OrderInv, [Next]_vars PROVE OrderInv'
  OBVIOUS
<1>1. CASE \E e \in Entries : AddEntry(e.key, e.val)
  BY <1>1, AddsNumbers, AddEntryOrder
<1>2. CASE FinalizeBegin
  BY <1>2, FinalizeBeginOrder
<1>3. CASE CheckLastChildGen \/ WriteParentsBegin \/ WriteParent \/ WriteParentsEnd \/ WriteRoot
  BY <1>3, CheckLastChildGenOrder, WriteParentsBeginOrder, WriteParentOrder,
     WriteParentsEndOrder, WriteRootOrder
<1>4. CASE AddEntryFails
  <2>1. /\ phase = "adding" /\ phase' = "broken" /\ nodes' = nodes /\ first' = first
        /\ added' = added /\ leaves' = leaves /\ current' = current
    BY <1>4 DEF AddEntryFails
  <2>2. AddedSorted' /\ Filled'
    BY <2>1 DEF OrderInv, AddedSorted, Filled
  <2>3. InnerSorted'
    BY <2>1 DEF OrderInv, InnerSorted, SortedNode
  <2>4. GenOrder' /\ ParentsOrder'
    BY <2>1 DEF GenOrder, ParentsOrder
  <2>5. QED
    BY <2>2, <2>3, <2>4 DEF OrderInv
<1>5. CASE FinalizeFails
  <2>1. /\ phase' = "failed" /\ nodes' = nodes /\ first' = first
        /\ added' = added /\ leaves' = leaves
    BY <1>5 DEF FinalizeFails
  <2>2. QED
    BY <2>1, SameFile
<1>6. CASE Crash
  <2>1. /\ phase' = "crashed" /\ added' = added /\ leaves' = leaves
        /\ phase # "rooted" => nodes' = nodes /\ first' = first
        /\ phase = "rooted" => RootLost
    BY <1>6 DEF Crash
  <2>2. CASE phase = "rooted"
    BY <2>1, <2>2, RootLostOrder
  <2>3. CASE phase # "rooted"
    BY <2>1, <2>3, SameFile
  <2>4. QED
    BY <2>2, <2>3
<1>7. CASE Close
  <2>1. /\ phase = "rooted" /\ phase' = "closed" /\ added' = added /\ leaves' = leaves
        /\ RootLost \/ (nodes' = nodes /\ first' = first)
    BY <1>7 DEF Close
  <2>2. CASE RootLost
    BY <2>1, <2>2, RootLostOrder
  <2>3. CASE nodes' = nodes /\ first' = first
    BY <2>1, <2>3, SameFile
  <2>4. QED
    BY <2>1, <2>2, <2>3
<1>8. CASE UNCHANGED vars
  <2>1. /\ phase' = phase /\ nodes' = nodes /\ first' = first
        /\ current' = current /\ gen' = gen /\ next_gen' = next_gen
        /\ added' = added /\ leaves' = leaves
    BY <1>8 DEF vars
  <2>2. NextChild' = NextChild
    BY <2>1 DEF NextChild, BatchEnd
  <2>3. AddedSorted' /\ Filled'
    BY <2>1 DEF OrderInv, AddedSorted, Filled
  <2>4. InnerSorted'
    BY <2>1 DEF OrderInv, InnerSorted, SortedNode
  <2>5. GenOrder' /\ ParentsOrder'
    BY <2>1, <2>2 DEF OrderInv, GenOrder, ParentsOrder
  <2>6. QED
    BY <2>3, <2>4, <2>5 DEF OrderInv
<1>9. QED
  BY <1>1, <1>2, <1>3, <1>4, <1>5, <1>6, <1>7, <1>8 DEF Next, CloseStep

\* The order holds in every behaviour.
LEMMA OrderHolds == Spec => []OrderInv
<1>1. QED
  BY InitOrder, NextOrder, InvariantHolds, PTL DEF Spec

-----------------------------------------------------------------------------

\* In particular every record is sorted, and so are the leaves among each other.
LEMMA SortedFile ==
    ASSUME IInv, OrderInv
    PROVE  /\ \A p \in 1..Len(nodes) : SortedNode(nodes[p])
           /\ leaves > 1 /\ phase \notin {"adding", "broken"} => Ascends(nodes, 1, leaves + 1)
           /\ leaves > 1 /\ phase \notin {"adding", "broken"} =>
                \A p \in 2..(leaves+1) : nodes[p].ent # <<>>
<1>1. /\ nodes \in Seq(Node) /\ leaves \in Nat /\ leaves + 1 <= Len(nodes)
      /\ added \in Seq(Entry)
      /\ \A p \in 2..(leaves+1) : \A s \in 1..Len(nodes[p].ent) :
           /\ (p - 2) * K + s \in 1..Len(added)
           /\ nodes[p].ent[s] = added[(p - 2) * K + s]
  BY DEF IInv, TypeOK, LeafLayout, EntriesInOrder
<1>2. /\ \A p \in 2..(leaves+1) : SortedNode(nodes[p])
      /\ (\A p \in 2..(leaves+1) : nodes[p].ent # <<>>) => Ascends(nodes, 1, leaves + 1)
  BY <1>1, LeavesInOrder DEF OrderInv, AddedSorted
<1>3. \A p \in 1..Len(nodes) : SortedNode(nodes[p])
  <2>1. ASSUME NEW p \in 1..Len(nodes)
        PROVE  p = 1 \/ p \in 2..(leaves+1) \/ p \in (leaves+2)..Len(nodes)
    BY <1>1
  <2>2. QED
    BY <1>2, <2>1 DEF OrderInv, InnerSorted
<1>4. QED
  BY <1>2, <1>3 DEF OrderInv, Filled

\* The leaves of every file lie behind the root where sfbti_tar_random_read looks
\* for them, and every record of it is sorted, as sfbti_find_index takes for granted.
THEOREM WriteReadableLayout == Spec => []ReadableLayout
<1>1. IInv /\ OrderInv => ReadableLayout
  <2> SUFFICES ASSUME IInv, OrderInv PROVE ReadableLayout
    OBVIOUS
  <2>1. LeafLayout
    BY DEF IInv
  <2>2. NodesSorted
    BY SortedFile DEF NodesSorted, SortedNode
  <2>3. QED
    BY <2>1, <2>2 DEF ReadableLayout
<1>2. QED
  BY <1>1, InvariantHolds, OrderHolds, PTL

-----------------------------------------------------------------------------
(***************************************************************************)
(* The size of the file.  A generation of parents is at most half as large *)
(* as the one below it, so a finished file has less than three nodes per   *)
(* leaf, and there are no more leaves than keys: no offset wraps.          *)
(***************************************************************************)

Finalizing == phase \in {"check", "parents_begin", "parents", "root", "rooted", "closed"}

\* The caller's entries, and nothing else, were added.
AddedFrom == \A e \in 1..Len(added) : added[e] \in Entries

\* Only a tree with one leaf has a leaf that is not full of K >= 2 entries, but for the
\* last.
LeafBound == Finalizing => leaves >= 1 /\ (leaves = 1 \/ 2 * leaves - 1 <= Len(added))

\* What is left of the bound 3 * leaves + 1 while generations are written: twice the
\* size of the last one.
SizeInv ==
    /\ phase \in {"check", "parents_begin", "root"} =>
         Len(nodes) + 2 * (Len(nodes) - gen) <= 3 * leaves + 1
    /\ phase = "parents_begin" => Len(nodes) - gen > K
    /\ phase = "parents" =>
         /\ next_gen - gen > K
         /\ next_gen + 2 * (next_gen - gen) <= 3 * leaves + 1
         /\ collected # <<>> => 2 * (Len(nodes) - next_gen) <= NextChild - gen
         /\ collected # <<>> /\ last_gen_cur < next_gen => Len(collected) = K
         /\ collected = <<>> => 2 * (Len(nodes) - next_gen) <= next_gen - gen + 1
    /\ phase \in {"rooted", "closed"} => Len(nodes) <= 3 * leaves + 1
    /\ Finalizing /\ Len(nodes) > leaves + 1 => leaves >= 3

\* The first key of the file.
First == FirstKey(nodes[2])

\* Every generation starts with it.
LeftInv ==
    /\ phase \in {"check", "parents_begin", "root", "parents"} =>
         FirstKey(nodes[gen + 1]) = First
    /\ phase = "parents" /\ Len(nodes) > next_gen => FirstKey(nodes[next_gen + 1]) = First
    /\ nodes[1] # Blank => FirstKey(nodes[first[1] + 1]) = First

ShapeInv == AddedFrom /\ LeafBound /\ SizeInv /\ LeftInv

\* The lengths and positions are numbers.
LEMMA Numbers ==
    ASSUME TypeOK
    PROVE  /\ Len(nodes) \in Nat /\ Len(nodes) >= 1 /\ gen \in Nat /\ next_gen \in Nat
           /\ last_gen_cur \in Nat /\ leaves \in Nat /\ Len(added) \in Nat
           /\ Len(collected) \in Nat /\ (collected = <<>> <=> Len(collected) = 0)
           /\ K \in Nat /\ K >= 2
  BY ConstantTypes DEF TypeOK

\* The root is in the file in two phases only.
LEMMA RootPhase == IInv => nodes[1] = Blank \/ phase \in {"rooted", "closed"}
  BY DEF IInv, RootCommits

\* At the start.
LEMMA InitShape == Init => ShapeInv
<1> SUFFICES ASSUME Init PROVE ShapeInv
  OBVIOUS
<1>1. AddedFrom /\ LeafBound /\ SizeInv /\ LeftInv
  BY DEF Init, AddedFrom, LeafBound, Finalizing, SizeInv, LeftInv, Blank
<1>2. QED
  BY <1>1 DEF ShapeInv

\* An entry of the caller's is added.
LEMMA AddEntryShape ==
    ASSUME IInv, IInv', ShapeInv, NEW e \in Entries, AddEntry(e.key, e.val)
    PROVE  ShapeInv'
<1>1. /\ phase = "adding" /\ phase' = "adding"
      /\ added' = Append(added, [key |-> e.key, val |-> e.val])
  BY DEF AddEntry
<1>2. [key |-> e.key, val |-> e.val] = e
  BY WriteAssumption
<1>3. AddedFrom'
  <2>1. added \in Seq(Entry) /\ e \in Entry /\ added' = Append(added, e)
    BY <1>1, <1>2, WriteAssumption DEF IInv, TypeOK, Entry
  <2>2. /\ Len(added') = Len(added) + 1 /\ Len(added) \in Nat
        /\ \A f \in 1..Len(added) : added'[f] = added[f]
        /\ added'[Len(added) + 1] = e
    BY <2>1, AppendFacts
  <2>3. ASSUME NEW f \in 1..(Len(added) + 1) PROVE added'[f] \in Entries
    <3>1. f \in 1..Len(added) \/ f = Len(added) + 1
      BY <2>2
    <3> QED BY <2>2, <3>1 DEF ShapeInv, AddedFrom
  <2> QED BY <2>2, <2>3 DEF AddedFrom
<1>4. LeafBound' /\ SizeInv'
  BY <1>1 DEF LeafBound, SizeInv, Finalizing
<1>5. LeftInv'
  BY <1>1 DEF LeftInv, IInv, RootCommits
<1>6. QED
  BY <1>3, <1>4, <1>5 DEF ShapeInv

\* The last leaf is written.
LEMMA FinalizeBeginShape ==
    ASSUME IInv, IInv', OrderInv, ShapeInv, FinalizeBegin
    PROVE  ShapeInv'
<1>1. /\ phase = "adding" /\ phase' = "check" /\ leaves' = leaves + 1 /\ gen' = gen
      /\ added' = added /\ Flush(current, 0)
  BY DEF FinalizeBegin
<1>2. /\ gen = 1 /\ Len(added) = leaves * K + Len(current.ent)
      /\ leaves >= 1 => current.ent # <<>>
      /\ current.ent \in Seq(Entry)
  BY <1>1 DEF IInv, AddingInv, OrderInv, Filled, TypeOK, Node
<1>3. Len(nodes') = leaves + 2
  BY <1>1, FlushLeaf
<1>num. leaves \in Nat /\ Len(added) \in Nat /\ K \in Nat /\ K >= 2 /\ Len(current.ent) \in Nat
  BY <1>2, Numbers DEF IInv
<1>4. leaves * K >= 2 * leaves /\ leaves * K \in Nat
  <2>1. leaves * K = leaves * (K - 2) + 2 * leaves /\ K - 2 \in Nat
    BY <1>num
  <2>2. leaves * (K - 2) \in Nat
    BY <1>num, <2>1
  <2> QED BY <1>num, <2>1, <2>2
<1>5. LeafBound'
  <2>1. leaves >= 1 => Len(current.ent) >= 1
    BY <1>2, <1>num
  <2>2. leaves + 1 = 1 \/ 2 * (leaves + 1) - 1 <= Len(added)
    <3>1. PICK b \in Nat : b = leaves * K
      BY <1>4
    <3>2. Len(added) = b + Len(current.ent) /\ b >= 2 * leaves
      BY <1>2, <1>4, <3>1
    <3>3. PICK c \in Nat : c = Len(current.ent) /\ (leaves >= 1 => c >= 1)
      BY <1>num, <2>1
    <3>4. Len(added) = b + c
      BY <3>2, <3>3
    <3> QED BY <1>num, <3>2, <3>3, <3>4
  <2> QED BY <1>1, <1>num, <2>2 DEF LeafBound
<1>6. SizeInv'
  BY <1>1, <1>2, <1>3, <1>num DEF SizeInv, Finalizing
<1>7. LeftInv'
  BY <1>1, <1>2 DEF LeftInv, First, IInv, RootCommits
<1>8. AddedFrom'
  BY <1>1 DEF ShapeInv, AddedFrom
<1>9. QED
  BY <1>5, <1>6, <1>7, <1>8 DEF ShapeInv

\* The size of the last generation decides.
LEMMA CheckLastChildGenShape ==
    ASSUME IInv, IInv', ShapeInv, CheckLastChildGen
    PROVE  ShapeInv'
<1>1. /\ phase = "check" /\ phase' = IF Len(nodes) - gen <= K THEN "root" ELSE "parents_begin"
      /\ UNCHANGED <<nodes, gen, leaves, added, first>>
  BY DEF CheckLastChildGen
<1>2. AddedFrom' /\ LeafBound'
  BY <1>1 DEF ShapeInv, AddedFrom, LeafBound, Finalizing
<1>3. SizeInv'
  BY <1>1, Numbers DEF ShapeInv, SizeInv, Finalizing, IInv
<1>4. LeftInv'
  BY <1>1 DEF ShapeInv, LeftInv, First
<1>5. QED
  BY <1>2, <1>3, <1>4 DEF ShapeInv

\* The first batch is full, or it is the generation.
LEMMA WriteParentsBeginShape ==
    ASSUME IInv, IInv', ShapeInv, WriteParentsBegin
    PROVE  ShapeInv'
<1>1. /\ phase = "parents_begin" /\ phase' = "parents" /\ next_gen' = Len(nodes)
      /\ collected' = Collect(nodes, gen, Len(nodes)) /\ last_gen_cur' = gen + Len(collected')
      /\ UNCHANGED <<nodes, gen, leaves, added, first>>
  BY DEF WriteParentsBegin
<1>2. nodes \in Seq(Node) /\ NextChild = gen /\ gen < Len(nodes)
  BY <1>1 DEF IInv, TypeOK, GenInv
<1>3. NextChild' = gen
  BY <1>1, <1>2 DEF NextChild, BatchEnd
<1>num. Len(nodes) \in Nat /\ gen \in Nat /\ leaves \in Nat /\ K \in Nat /\ K >= 2
  BY Numbers DEF IInv
<1>4. Len(collected') = Lesser(K, Len(nodes) - gen)
  BY <1>1, <1>2, <1>num, CollectType
<1>5. AddedFrom' /\ LeafBound'
  BY <1>1 DEF ShapeInv, AddedFrom, LeafBound, Finalizing
<1>6. SizeInv'
  BY <1>1, <1>2, <1>3, <1>4, <1>num DEF ShapeInv, SizeInv, Finalizing, Lesser
<1>7. LeftInv'
  BY <1>1, <1>num DEF ShapeInv, LeftInv, First
<1>8. QED
  BY <1>5, <1>6, <1>7 DEF ShapeInv

\* Each parent but the last takes K >= 2 children away, so there is at most one more
\* parent than half the children.
LEMMA WriteParentShape ==
    ASSUME IInv, IInv', ShapeInv, WriteParent
    PROVE  ShapeInv'
<1> DEFINE start == last_gen_cur - Len(collected)
           parent == [leaf |-> FALSE, ent |-> collected]
<1>1. /\ phase = "parents" /\ phase' = "parents" /\ collected # <<>>
      /\ nodes' = Append(nodes, parent)
      /\ collected' = Collect(nodes, last_gen_cur, next_gen)
      /\ last_gen_cur' = last_gen_cur + Len(collected')
      /\ UNCHANGED <<gen, next_gen, leaves, added>>
  BY DEF WriteParent, Flush
<1>2. /\ gen >= 1 /\ gen < next_gen /\ next_gen <= Len(nodes) /\ last_gen_cur <= next_gen
      /\ IF gen = 1 THEN next_gen = leaves + 1 ELSE gen >= leaves + 1
      /\ NextChild = start /\ start >= gen
      /\ collected = Collect(nodes, start, last_gen_cur)
      /\ Len(nodes) = next_gen => start = gen
      /\ nodes[1] = Blank
  BY <1>1 DEF IInv, ParentsInv
<1>num. /\ Len(nodes) \in Nat /\ gen \in Nat /\ next_gen \in Nat /\ last_gen_cur \in Nat
        /\ leaves \in Nat /\ Len(collected) \in Nat /\ Len(collected) >= 1
        /\ K \in Nat /\ K >= 2 /\ leaves + 1 <= Len(nodes)
  BY <1>1, Numbers DEF IInv, LeafLayout
<1>num2. Len(collected') \in Nat /\ (collected' = <<>> <=> Len(collected') = 0)
  BY DEF IInv, TypeOK
<1>3. NextChild' = last_gen_cur
  <2>1. NextChild' = last_gen_cur' - Len(collected')
    BY <1>1 DEF IInv, ParentsInv
  <2> QED BY <2>1, <1>1, <1>num, <1>num2
<1>4. nodes \in Seq(Node) /\ parent \in Node
  BY DEF IInv, TypeOK, Node
<1> HIDE DEF parent
<1>5. /\ Len(nodes') = Len(nodes) + 1
      /\ \A p \in 1..Len(nodes) : nodes'[p] = nodes[p]
      /\ nodes'[Len(nodes) + 1] = parent
  BY <1>1, <1>4, AppendFacts
<1>6. Len(collected') = Lesser(K, next_gen - last_gen_cur)
  BY <1>1, <1>2, <1>4, <1>num, CollectType
<1>7. AddedFrom' /\ LeafBound'
  BY <1>1 DEF ShapeInv, AddedFrom, LeafBound, Finalizing
<1>8. SizeInv'
  <2>1. /\ next_gen - gen > K
        /\ next_gen + 2 * (next_gen - gen) <= 3 * leaves + 1
        /\ 2 * (Len(nodes) - next_gen) <= start - gen
        /\ last_gen_cur < next_gen => Len(collected) = K
    BY <1>1, <1>2 DEF ShapeInv, SizeInv
  <2>2. collected' # <<>> => 2 * (Len(nodes) + 1 - next_gen) <= last_gen_cur - gen
    <3>1. collected' # <<>> => last_gen_cur < next_gen
      BY <1>2, <1>6, <1>num, <1>num2 DEF Lesser
    <3> QED BY <2>1, <3>1, <1>num
  <2>3. collected' # <<>> /\ last_gen_cur + Len(collected') < next_gen => Len(collected') = K
    BY <1>6, <1>num DEF Lesser
  <2>4. collected' = <<>> => 2 * (Len(nodes) + 1 - next_gen) <= next_gen - gen + 1
    <3>1. collected' = <<>> => last_gen_cur = next_gen
      BY <1>2, <1>6, <1>num, <1>num2 DEF Lesser
    <3> QED BY <2>1, <3>1, <1>num
  <2>5. leaves >= 3
    <3>1. CASE Len(nodes) > leaves + 1
      BY <1>1, <3>1 DEF ShapeInv, SizeInv, Finalizing
    <3>2. CASE Len(nodes) = leaves + 1
      BY <1>2, <1>num, <2>1, <3>2
    <3> QED BY <1>num, <3>1, <3>2
  <2>6. Len(nodes') - next_gen = Len(nodes) + 1 - next_gen
    BY <1>5, <1>num
  <2> QED BY <1>1, <1>3, <2>1, <2>2, <2>3, <2>4, <2>5, <2>6 DEF SizeInv
<1>9. LeftInv'
  <2>1. /\ nodes'[gen + 1] = nodes[gen + 1] /\ nodes'[2] = nodes[2] /\ nodes'[1] = Blank
    <3>1. gen + 1 \in 1..Len(nodes) /\ 2 \in 1..Len(nodes) /\ 1 \in 1..Len(nodes)
      BY <1>2, <1>num
    <3> QED BY <1>2, <1>5, <3>1
  <2>2. FirstKey(nodes[gen + 1]) = First
    BY <1>1 DEF ShapeInv, LeftInv
  <2>3. FirstKey(nodes'[next_gen + 1]) = First
    <3>1. CASE Len(nodes) > next_gen
      <4>1. next_gen + 1 \in 1..Len(nodes)
        BY <1>num, <3>1
      <4> QED BY <1>1, <1>5, <3>1, <4>1 DEF ShapeInv, LeftInv
    <3>2. CASE Len(nodes) = next_gen
      <4>1. start = gen /\ parent.ent = collected /\ gen < last_gen_cur
        BY <1>2, <1>num, <3>2 DEF parent
      <4>2. FirstKey(parent) = FirstKey(nodes[gen + 1])
        BY <1>2, <1>num, <4>1, FirstKeyOfParent
      <4> QED BY <1>5, <2>2, <3>2, <4>2
    <3> QED BY <1>2, <1>num, <3>1, <3>2
  <2> QED BY <1>1, <2>1, <2>2, <2>3 DEF LeftInv, First
<1>10. QED
  BY <1>7, <1>8, <1>9 DEF ShapeInv

\* A generation of more than two nodes gets fewer parents than it has nodes.
LEMMA WriteParentsEndShape ==
    ASSUME IInv, IInv', ShapeInv, WriteParentsEnd
    PROVE  ShapeInv'
<1>1. /\ phase = "parents" /\ phase' = "check" /\ collected = <<>> /\ gen' = next_gen
      /\ UNCHANGED <<nodes, leaves, added, first>>
  BY DEF WriteParentsEnd
<1>2. next_gen < Len(nodes)
  BY <1>1 DEF IInv, GenInv
<1>3. AddedFrom' /\ LeafBound'
  BY <1>1 DEF ShapeInv, AddedFrom, LeafBound, Finalizing
<1>num. /\ Len(nodes) \in Nat /\ gen \in Nat /\ next_gen \in Nat
        /\ leaves \in Nat /\ K \in Nat /\ K >= 2
  BY Numbers DEF IInv
<1>4. SizeInv'
  <2>1. /\ next_gen - gen > K
        /\ next_gen + 2 * (next_gen - gen) <= 3 * leaves + 1
        /\ 2 * (Len(nodes) - next_gen) <= next_gen - gen + 1
    BY <1>1 DEF ShapeInv, SizeInv
  <2>2. Len(nodes) + 2 * (Len(nodes) - next_gen) <= 3 * leaves + 1
    BY <1>num, <2>1
  <2>3. Len(nodes) > leaves + 1 => leaves >= 3
    BY <1>1 DEF ShapeInv, SizeInv, Finalizing
  <2> QED BY <1>1, <2>2, <2>3 DEF SizeInv
<1>5. LeftInv'
  <2>1. FirstKey(nodes[next_gen + 1]) = First
    BY <1>1, <1>2 DEF ShapeInv, LeftInv
  <2>2. nodes[1] = Blank
    BY <1>1, RootPhase
  <2> QED BY <1>1, <2>1, <2>2 DEF LeftInv, First
<1>6. QED
  BY <1>3, <1>4, <1>5 DEF ShapeInv

\* The root starts where the last generation does.
LEMMA WriteRootShape ==
    ASSUME IInv, IInv', ShapeInv, WriteRoot
    PROVE  ShapeInv'
<1>1. /\ phase = "root" /\ phase' = "rooted" /\ UNCHANGED <<leaves, added>>
      /\ \/ nodes' = nodes /\ first' = first
         \/ nodes' = [nodes EXCEPT ![1] = [leaf |-> FALSE, ent |-> collected']]
            /\ first' = [first EXCEPT ![1] = gen]
  BY DEF WriteRoot
<1>2. gen >= 1 /\ gen < Len(nodes) /\ nodes \in Seq(Node) /\ first \in Seq(Nat) /\ nodes[1] = Blank
      /\ Len(first) = Len(nodes)
  BY <1>1 DEF IInv, GenInv, TypeOK
<1>num. Len(nodes) \in Nat /\ gen \in Nat /\ leaves \in Nat
  BY Numbers DEF IInv
<1>3. /\ Len(nodes') = Len(nodes) /\ \A p \in 2..Len(nodes) : nodes'[p] = nodes[p]
      /\ nodes'[1] # Blank => first'[1] = gen
  <2>1. 1 \in 1..Len(first)
    BY <1>2, <1>num
  <2>2. CASE nodes' = nodes /\ first' = first
    BY <1>2, <2>2
  <2>3. CASE nodes' = [nodes EXCEPT ![1] = [leaf |-> FALSE, ent |-> collected']]
             /\ first' = [first EXCEPT ![1] = gen]
    <3>1. first'[1] = gen
      BY <1>2, <2>1, <2>3
    <3>2. Len(nodes') = Len(nodes) /\ \A p \in 2..Len(nodes) : nodes'[p] = nodes[p]
      BY <1>2, <1>num, <2>3
    <3> QED BY <3>1, <3>2
  <2> QED BY <1>1, <2>2, <2>3
<1>4. AddedFrom' /\ LeafBound'
  BY <1>1 DEF ShapeInv, AddedFrom, LeafBound, Finalizing
<1>5. SizeInv'
  BY <1>1, <1>2, <1>3, <1>num DEF ShapeInv, SizeInv, Finalizing
<1>6. LeftInv'
  <2>1. FirstKey(nodes[gen + 1]) = First
    BY <1>1 DEF ShapeInv, LeftInv
  <2>2. gen + 1 \in 2..Len(nodes) /\ 2 \in 2..Len(nodes)
    BY <1>2, <1>num
  <2> QED BY <1>1, <1>3, <2>1, <2>2 DEF LeftInv, First
<1>7. QED
  BY <1>4, <1>5, <1>6 DEF ShapeInv

\* Steps that end the writing, with the root in the file, out of it or lost.
LEMMA EndShape ==
    ASSUME IInv, IInv', ShapeInv, UNCHANGED <<leaves, added>>,
           phase' \in {"closed", "failed", "crashed", "broken"},
           phase' = "closed" => phase = "rooted",
           RootLost \/ UNCHANGED <<nodes, first>>
    PROVE  ShapeInv'
<1>1. nodes \in Seq(Node) /\ Len(nodes) \in Nat /\ Len(nodes) >= 1
  BY DEF IInv, TypeOK
<1>2. Len(nodes') = Len(nodes) /\ (nodes'[1] # Blank => nodes' = nodes /\ first' = first)
  BY <1>1 DEF RootLost
<1>3. AddedFrom' /\ LeafBound'
  BY DEF ShapeInv, AddedFrom, LeafBound, Finalizing
<1>4. SizeInv'
  BY <1>2 DEF ShapeInv, SizeInv, Finalizing
<1>5. LeftInv'
  BY <1>2 DEF ShapeInv, LeftInv, First
<1>6. QED
  BY <1>3, <1>4, <1>5 DEF ShapeInv

\* Every step of the writer keeps the file small.
LEMMA NextShape ==
    IInv /\ IInv' /\ OrderInv /\ ShapeInv /\ [Next]_vars => ShapeInv'
<1> SUFFICES ASSUME IInv, IInv', OrderInv, ShapeInv, [Next]_vars PROVE ShapeInv'
  OBVIOUS
<1>1. CASE \E e \in Entries : AddEntry(e.key, e.val)
  BY <1>1, AddEntryShape
<1>2. CASE FinalizeBegin
  BY <1>2, FinalizeBeginShape
<1>3. CASE CheckLastChildGen \/ WriteParentsBegin \/ WriteParent \/ WriteParentsEnd \/ WriteRoot
  BY <1>3, CheckLastChildGenShape, WriteParentsBeginShape, WriteParentShape,
     WriteParentsEndShape, WriteRootShape
<1>4. CASE AddEntryFails \/ FinalizeFails \/ Crash \/ Close
  <2>1. UNCHANGED <<leaves, added>> /\ phase' \in {"closed", "failed", "crashed", "broken"}
    BY <1>4 DEF AddEntryFails, FinalizeFails, Crash, Close
  <2>2. phase' = "closed" => phase = "rooted"
    BY <1>4 DEF AddEntryFails, FinalizeFails, Crash, Close
  <2>3. RootLost \/ UNCHANGED <<nodes, first>>
    BY <1>4 DEF AddEntryFails, FinalizeFails, Crash, Close
  <2> QED BY <2>1, <2>2, <2>3, EndShape
<1>5. CASE UNCHANGED vars
  <2>1. /\ UNCHANGED <<phase, nodes, gen, next_gen, last_gen_cur>>
        /\ UNCHANGED <<collected, added, leaves, first>>
    BY <1>5 DEF vars
  <2>2. NextChild' = NextChild
    BY <2>1 DEF NextChild, BatchEnd
  <2>3. AddedFrom' /\ LeafBound'
    BY <2>1 DEF ShapeInv, AddedFrom, LeafBound, Finalizing
  <2>4. SizeInv'
    BY <2>1, <2>2 DEF ShapeInv, SizeInv, Finalizing
  <2>5. LeftInv'
    BY <2>1 DEF ShapeInv, LeftInv, First
  <2> QED BY <2>3, <2>4, <2>5 DEF ShapeInv
<1>6. QED
  BY <1>1, <1>2, <1>3, <1>4, <1>5 DEF Next, CloseStep

\* A leaf has no more entries than a record has room for.
LeafSize == \A p \in 2..(leaves+1) : Len(nodes[p].ent) <= K

\* Every step keeps that, as records are only written when they are full.
LEMMA NextLeafSize == IInv /\ LeafSize /\ [Next]_vars => LeafSize'
<1> SUFFICES ASSUME IInv, LeafSize, [Next]_vars PROVE LeafSize'
  OBVIOUS
<1>1. CASE UNCHANGED vars
  BY <1>1 DEF vars, LeafSize
<1>2. CASE Next
  <2>num. Len(nodes) \in Nat /\ leaves \in Nat /\ leaves + 1 <= Len(nodes)
    BY Numbers DEF IInv, LeafLayout
  <2>1. \A p \in 2..(leaves+1) : nodes'[p] = nodes[p]
    <3>1. \A p \in 2..(leaves+1) : p \in 2..Len(nodes)
      BY <2>num
    <3> QED BY <1>2, <3>1, NextKeepsFile DEF KeepsFile
  <2>2. \/ leaves' = leaves
        \/ phase = "adding" /\ leaves' = leaves + 1 /\ Flush(current, 0)
    BY <1>2 DEF Next, CloseStep, AddEntry, AddEntryFails, FinalizeBegin, CheckLastChildGen,
                WriteParentsBegin, WriteParent, WriteParentsEnd, WriteRoot, Close,
                FinalizeFails, Crash
  <2>3. CASE leaves' = leaves
    BY <2>1, <2>3 DEF LeafSize
  <2>4. CASE phase = "adding" /\ leaves' = leaves + 1 /\ Flush(current, 0)
    <3>1. nodes'[leaves + 2] = current /\ Len(current.ent) <= K
      BY <2>4, FlushLeaf DEF IInv, AddingInv
    <3>2. \A p \in 2..(leaves+2) : p \in 2..(leaves+1) \/ p = leaves + 2
      BY <2>num
    <3>3. (leaves + 1) + 1 = leaves + 2
      BY <2>num
    <3> QED BY <2>1, <2>4, <3>1, <3>2, <3>3 DEF LeafSize
  <2> QED BY <2>2, <2>3, <2>4
<1> QED BY <1>1, <1>2

-----------------------------------------------------------------------------
(***************************************************************************)
(* What a finished file is: every node but the root has one parent, and an *)
(* entry leads to the node whose first key it has.                         *)
(***************************************************************************)

FileInv == IInv /\ OrderInv /\ ShapeInv /\ LeafSize

\* A file that was just created, and every step of its writer.
LEMMA FileInvHolds ==
    /\ Init => FileInv
    /\ FileInv /\ [Next]_vars => FileInv'
<1>1. Init => LeafSize
  BY DEF Init, LeafSize
<1>2. Init => FileInv
  BY <1>1, InitIInv, InitOrder, InitShape DEF FileInv
<1>3. FileInv /\ [Next]_vars => FileInv'
  BY NextIInv, NextOrder, NextShape, NextLeafSize DEF FileInv
<1> QED BY <1>2, <1>3

\* The nodes with children.
Inner == {1} \union ((leaves + 2)..Len(nodes))

Places(p) == 1..Len(nodes[p].ent)

\* No more entries are added than there are keys, as they come in ascending order.
LEMMA FewEntries ==
    ASSUME FileInv
    PROVE  Cardinality(Keys) \in Nat /\ Len(added) <= Cardinality(Keys)
<1> DEFINE S == 1..Len(added)
           f == [e \in S |-> added[e].key]
<1>1. Len(added) \in Nat /\ IsFiniteSet(Keys)
  BY Numbers, TreeAssumption DEF FileInv, IInv
<1>2. Cardinality(Keys) \in Nat
  BY <1>1, FS_CardinalityType
<1>3. IsFiniteSet(S) /\ Cardinality(S) = Len(added)
  <2>1. PICK n \in Nat : n = Len(added)
    BY <1>1
  <2>2. IsFiniteSet(1..n) /\ Cardinality(1..n) = n
    BY FS_Interval
  <2> QED BY <2>1, <2>2
<1>4. f \in [S -> Keys]
  <2>1. \A e \in S : added[e].key \in Keys
    BY WriteAssumption DEF FileInv, ShapeInv, AddedFrom
  <2> QED BY <2>1
<1>5. \A d, e \in S : d # e => f[d] # f[e]
  <2> SUFFICES ASSUME NEW d \in S, NEW e \in S, d < e PROVE f[d] # f[e]
    BY <1>1
  <2>1. added[d].key < added[e].key
    BY DEF FileInv, OrderInv, AddedSorted
  <2>2. added[d].key \in Nat /\ added[e].key \in Nat
    BY <1>4, WriteAssumption
  <2> QED BY <2>1, <2>2
<1> HIDE DEF S, f
<1>6. ~(Cardinality(Keys) < Cardinality(S))
  BY <1>1, <1>3, <1>4, <1>5, FS_PigeonHole
<1> QED BY <1>1, <1>2, <1>3, <1>6

\* So a finished file is small enough for its offsets.
LEMMA FewNodes ==
    ASSUME FileInv, nodes[1] # Blank
    PROVE  /\ Len(nodes) \in Nat /\ leaves \in Nat /\ leaves >= 1 /\ leaves + 1 <= Len(nodes)
           /\ Len(nodes) * NodeSize <= OffsetModulus
<1>1. phase \in {"rooted", "closed"} /\ Finalizing
  BY RootPhase DEF FileInv, Finalizing
<1>num. /\ Len(nodes) \in Nat /\ leaves \in Nat /\ Len(added) \in Nat
        /\ leaves + 1 <= Len(nodes)
  BY Numbers DEF FileInv, IInv, LeafLayout
<1>2. /\ leaves >= 1 /\ (leaves = 1 \/ 2 * leaves - 1 <= Len(added))
      /\ Len(nodes) <= 3 * leaves + 1
      /\ Len(nodes) > leaves + 1 => leaves >= 3
  BY <1>1 DEF FileInv, ShapeInv, LeafBound, SizeInv
<1>3. Len(nodes) <= 2 * (Len(added) + 1)
  BY <1>num, <1>2
<1>4. PICK c \in Nat : c = Cardinality(Keys) /\ Len(nodes) <= 2 * (c + 1)
  BY <1>num, <1>3, FewEntries
<1>5. OffsetModulus >= NodeSize * 2 * (c + 1)
  BY <1>4, TreeAssumption
<1>6. Len(nodes) * NodeSize <= NodeSize * 2 * (c + 1)
  <2>0. PICK d \in Nat : d = 2 * (c + 1) - Len(nodes)
    <3>1. 2 * (c + 1) - Len(nodes) \in Nat
      BY <1>num, <1>4
    <3> QED BY <3>1
  <2>1. 2 * (c + 1) = Len(nodes) + d
    BY <1>num, <2>0
  <2>2. NodeSize * 2 * (c + 1) = NodeSize * (2 * (c + 1)) /\ NodeSize \in Nat
    BY ConstantTypes
  <2>3. NodeSize * (Len(nodes) + d) = Len(nodes) * NodeSize + NodeSize * d /\ NodeSize * d \in Nat
    BY <1>num, <2>2
  <2>4. Len(nodes) * NodeSize \in Nat
    BY <1>num, <2>2
  <2> QED BY <2>1, <2>2, <2>3, <2>4
<1>7. Len(nodes) * NodeSize \in Nat /\ NodeSize * 2 * (c + 1) \in Nat /\ OffsetModulus \in Nat
  BY <1>num, ConstantTypes
<1> QED BY <1>num, <1>2, <1>5, <1>6, <1>7

\* The offset of a node tells its place.
LEMMA OffsetExact ==
    ASSUME NEW n \in Nat, n * NodeSize <= OffsetModulus, NEW o \in Nat, o < n
    PROVE  ByteOffset(o) \div NodeSize = o
<1>1. PICK N \in Nat \ {0} : N = NodeSize
  BY ConstantTypes
<1>2. PICK M \in Nat \ {0} : M = OffsetModulus
  BY ConstantTypes
<1>3. o * N < M /\ o * N \in Nat
  <2>1. n * N = o * N + (n - o) * N /\ o * N \in Nat
    OBVIOUS
  <2>2. (n - o) * N >= N /\ (n - o) * N \in Nat
    <3>1. (n - o) * N = (n - o - 1) * N + N /\ n - o - 1 \in Nat
      OBVIOUS
    <3>2. (n - o - 1) * N \in Nat
      BY <3>1
    <3> QED BY <3>1, <3>2
  <2>3. n * N <= M
    BY <1>1, <1>2
  <2> QED BY <2>1, <2>2, <2>3
<1>4. \A x \in Nat : x < M => x % M = x
  OBVIOUS
<1>5. (o * N) % M = o * N
  BY <1>3, <1>4
<1>6. (o * N) \div N = o
  OBVIOUS
<1> QED BY <1>1, <1>2, <1>5, <1>6 DEF ByteOffset

\* A node with children has its batch where the chain of parents has it, and entry s of
\* it leads to node first[p] + s.
LEMMA InnerNode ==
    ASSUME FileInv, nodes[1] # Blank, NEW p \in Inner
    PROVE  /\ p \in 1..Len(nodes) /\ nodes[p] \in Node /\ ~nodes[p].leaf
           /\ Len(nodes[p].ent) \in 1..K /\ nodes[p].ent # <<>>
           /\ first[p] \in Nat /\ first[p] >= 1 /\ BatchEnd(p) <= Len(nodes)
           /\ BatchEnd(p) \in Nat /\ BatchEnd(p) = first[p] + Len(nodes[p].ent)
           /\ first[p] < BatchEnd(p)
           /\ p # 1 => BatchEnd(p) <= p - 1
           /\ first[p] <= leaves => BatchEnd(p) <= leaves + 1
           /\ \A s \in Places(p) :
                /\ first[p] + s \in 2..Len(nodes)
                /\ p # 1 => first[p] + s < p
                /\ nodes[p].ent[s].key = FirstKey(nodes[first[p] + s])
                /\ Child(p, s) = first[p] + s
<1>num. /\ Len(nodes) \in Nat /\ leaves \in Nat /\ leaves >= 1 /\ leaves + 1 <= Len(nodes)
        /\ Len(nodes) * NodeSize <= OffsetModulus /\ K \in Nat
  BY FewNodes, ConstantTypes
<1>1. p \in 1..Len(nodes)
  BY <1>num DEF Inner
<1>2. nodes[p] \in Node /\ nodes[p].ent \in Seq(Entry) /\ first[p] \in Nat
  <2>1. nodes \in Seq(Node) /\ first \in Seq(Nat) /\ p \in 1..Len(first)
    BY <1>1 DEF FileInv, IInv, TypeOK
  <2>2. nodes[p] \in Node /\ first[p] \in Nat
    BY <1>1, <2>1
  <2> QED BY <2>2 DEF Node
<1>3. ~nodes[p].leaf
  <2>1. p = 1 \/ (p \in 2..Len(nodes) /\ ~(p <= leaves + 1))
    BY <1>num DEF Inner
  <2> QED BY <2>1 DEF FileInv, IInv, LeafLayout
<1>4. ParentOfBatch(p) /\ (p # 1 => BatchEnd(p) <= p - 1)
  BY DEF Inner, FileInv, IInv, ParentsChain, RootCommits
<1> DEFINE n == Len(nodes[p].ent)
<1>5. /\ n \in 1..K /\ first[p] >= 1 /\ first[p] + n <= Len(nodes)
      /\ nodes[p].ent = Collect(nodes, first[p], first[p] + n)
      /\ first[p] <= leaves => first[p] + n <= leaves + 1
  BY <1>4 DEF ParentOfBatch
<1> HIDE DEF n
<1>6. Lesser(K, (first[p] + n) - first[p]) = n
  BY <1>2, <1>5, <1>num DEF Lesser
<1>7. ASSUME NEW s \in Places(p)
      PROVE  /\ first[p] + s \in 2..Len(nodes)
             /\ p # 1 => first[p] + s < p
             /\ nodes[p].ent[s].key = FirstKey(nodes[first[p] + s])
             /\ Child(p, s) = first[p] + s
  <2>1. s \in 1..n
    BY DEF Places, n
  <2>2. nodes[p].ent[s] = [key |-> FirstKey(nodes[first[p] + s]), val |-> ByteOffset(first[p] + s - 1)]
    BY <1>5, <1>6, <2>1 DEF Collect
  <2>3. first[p] + s \in 2..Len(nodes) /\ first[p] + s - 1 \in Nat /\ first[p] + s - 1 < Len(nodes)
    BY <1>2, <1>5, <1>num, <2>1
  <2>4. ByteOffset(first[p] + s - 1) \div NodeSize = first[p] + s - 1
    BY <1>num, <2>3, OffsetExact
  <2>5. Child(p, s) = first[p] + s
    <3>1. nodes[p].ent[s].val = ByteOffset(first[p] + s - 1)
      BY <2>2
    <3>2. Child(p, s) = (first[p] + s - 1) + 1
      BY <2>4, <3>1 DEF Child
    <3>3. s \in Nat
      BY <2>1
    <3> QED BY <1>2, <3>2, <3>3
  <2>6. p # 1 => first[p] + s < p
    BY <1>1, <1>2, <1>4, <1>5, <1>num, <2>1 DEF BatchEnd, n
  <2> QED BY <2>2, <2>3, <2>5, <2>6
<1>8. BatchEnd(p) = first[p] + n /\ BatchEnd(p) \in Nat /\ first[p] < BatchEnd(p)
  BY <1>2, <1>5, <1>num DEF BatchEnd, n
<1>9. nodes[p].ent # <<>>
  BY <1>2, <1>5 DEF n
<1> QED BY <1>1, <1>2, <1>3, <1>4, <1>5, <1>7, <1>8, <1>9 DEF n

\* The batches of the nodes behind the leaves follow each other, and the root's is last.
LEMMA BatchesFollow ==
    ASSUME FileInv, nodes[1] # Blank
    PROVE  /\ \A p \in (leaves+2)..Len(nodes) :
                first[p] = IF p = leaves + 2 THEN 1 ELSE BatchEnd(p - 1)
           /\ first[1] = IF Len(nodes) = leaves + 1 THEN 1 ELSE BatchEnd(Len(nodes))
           /\ BatchEnd(1) = Len(nodes)
  BY DEF FileInv, IInv, ParentsChain, RootCommits

\* Batches further to the right lie behind.
LEMMA BatchesAscend ==
    ASSUME FileInv, nodes[1] # Blank,
           NEW p \in (leaves+2)..Len(nodes), NEW q \in (leaves+2)..Len(nodes), p < q
    PROVE  BatchEnd(p) <= first[q]
<1> DEFINE Bad == {r \in (leaves+2)..Len(nodes) : p < r /\ ~(BatchEnd(p) <= first[r])}
<1>num. Len(nodes) \in Nat /\ leaves \in Nat
  BY FewNodes
<1>1. SUFFICES ASSUME Bad # {} PROVE FALSE
  OBVIOUS
<1>2. PICK r \in Bad : \A x \in Bad : r <= x
  <2>1. Bad \in SUBSET Nat
    BY <1>num
  <2> HIDE DEF Bad
  <2> QED BY <1>1, <2>1, LeastElement
<1>3. r \in (leaves+2)..Len(nodes) /\ p < r /\ r - 1 \in (leaves+2)..Len(nodes)
  BY <1>num
<1>4. first[r] = BatchEnd(r - 1)
  BY <1>3, <1>num, BatchesFollow
<1>5. p \in Inner /\ r - 1 \in Inner
  BY <1>3 DEF Inner
<1>6. r - 1 # p
  <2>1. BatchEnd(p) \in Nat
    BY <1>5, InnerNode
  <2> QED BY <1>4, <2>1
<1>7. r - 1 \in Bad
  <2>1. p < r - 1
    BY <1>3, <1>6, <1>num
  <2>2. /\ BatchEnd(p) \in Nat /\ BatchEnd(r - 1) \in Nat /\ first[r - 1] \in Nat
        /\ first[r - 1] < BatchEnd(r - 1)
    BY <1>5, InnerNode
  <2>3. ~(BatchEnd(p) <= BatchEnd(r - 1))
    BY <1>4
  <2> QED BY <1>3, <2>1, <2>2, <2>3
<1> QED BY <1>2, <1>3, <1>7, <1>num

\* The root's batch lies behind all of them.
LEMMA RootBehind ==
    ASSUME FileInv, nodes[1] # Blank, NEW p \in (leaves+2)..Len(nodes)
    PROVE  BatchEnd(p) <= first[1]
<1>num. Len(nodes) \in Nat /\ leaves \in Nat
  BY FewNodes
<1>1. p \in Inner /\ Len(nodes) \in (leaves+2)..Len(nodes) /\ Len(nodes) \in Inner
  BY <1>num DEF Inner
<1>2. first[1] = BatchEnd(Len(nodes))
  BY <1>num, <1>1, BatchesFollow
<1>3. /\ BatchEnd(p) \in Nat /\ BatchEnd(Len(nodes)) \in Nat /\ first[Len(nodes)] \in Nat
      /\ first[Len(nodes)] < BatchEnd(Len(nodes))
  BY <1>1, InnerNode
<1>4. CASE p = Len(nodes)
  BY <1>2, <1>3, <1>4
<1>5. CASE p < Len(nodes)
  <2>1. BatchEnd(p) <= first[Len(nodes)]
    BY <1>1, <1>5, BatchesAscend
  <2> QED BY <1>2, <1>3, <2>1
<1> QED BY <1>4, <1>5, <1>num

\* Every node but the root is a child.
LEMMA HasParent ==
    ASSUME FileInv, nodes[1] # Blank, NEW q \in 2..Len(nodes)
    PROVE  \E p \in Inner : \E s \in Places(p) : q = first[p] + s
<1>num. Len(nodes) \in Nat /\ leaves \in Nat /\ leaves + 1 <= Len(nodes)
  BY FewNodes
<1>1. 1 \in Inner
  BY DEF Inner
<1>2. first[1] \in Nat /\ BatchEnd(1) = first[1] + Len(nodes[1].ent) /\ Len(nodes[1].ent) \in Nat
  BY <1>1, InnerNode, ConstantTypes
<1>3. CASE q > first[1]
  <2>1. q - first[1] \in Places(1)
    BY <1>2, <1>3, <1>num, BatchesFollow DEF Places
  <2>2. q = first[1] + (q - first[1])
    BY <1>2
  <2> QED BY <1>1, <2>1, <2>2
<1>4. CASE q <= first[1]
  <2> DEFINE S == {p \in (leaves+2)..Len(nodes) : q <= BatchEnd(p)}
  <2>1. Len(nodes) # leaves + 1
    BY <1>4, BatchesFollow
  <2>2. Len(nodes) \in S
    BY <1>4, <1>num, <2>1, BatchesFollow
  <2>3. PICK p \in S : \A x \in S : p <= x
    <3>1. S \in SUBSET Nat
      BY <1>num
    <3> HIDE DEF S
    <3> QED BY <2>2, <3>1, LeastElement
  <2>4. p \in (leaves+2)..Len(nodes) /\ q <= BatchEnd(p) /\ p \in Inner
    BY DEF Inner
  <2>5. /\ first[p] \in Nat /\ BatchEnd(p) = first[p] + Len(nodes[p].ent)
        /\ Len(nodes[p].ent) \in Nat
    BY <2>4, InnerNode, ConstantTypes
  <2>6. first[p] < q
    <3>1. CASE p = leaves + 2
      BY <3>1, <2>4, BatchesFollow
    <3>2. CASE p # leaves + 2
      <4>1. p - 1 \in (leaves+2)..Len(nodes) /\ p - 1 < p
        BY <1>num, <2>4, <3>2
      <4>2. first[p] = BatchEnd(p - 1)
        BY <2>4, <3>2, BatchesFollow
      <4>3. ~(q <= BatchEnd(p - 1))
        BY <1>num, <2>3, <2>4, <4>1
      <4> QED BY <2>5, <4>2, <4>3
    <3> QED BY <3>1, <3>2
  <2>7. q - first[p] \in Places(p) /\ q = first[p] + (q - first[p])
    BY <2>4, <2>5, <2>6 DEF Places
  <2> QED BY <2>4, <2>7
<1> QED BY <1>2, <1>3, <1>4

\* And it is the child of one node only, at one place.
LEMMA OneParent ==
    ASSUME FileInv, nodes[1] # Blank,
           NEW p \in Inner, NEW s \in Places(p), NEW q \in Inner, NEW t \in Places(q),
           first[p] + s = first[q] + t
    PROVE  p = q /\ s = t
<1>num. Len(nodes) \in Nat /\ leaves \in Nat
  BY FewNodes
<1>1. ASSUME NEW x \in Inner, NEW i \in Places(x), NEW y \in Inner, NEW j \in Places(y),
             x # y, x # 1, y = 1 \/ x < y
      PROVE  first[x] + i < first[y] + j
  <2>1. x \in (leaves+2)..Len(nodes)
    BY <1>1 DEF Inner
  <2>2. BatchEnd(x) <= first[y]
    BY <1>1, <2>1, RootBehind, BatchesAscend DEF Inner
  <2>3. /\ first[x] \in Nat /\ first[y] \in Nat /\ BatchEnd(x) = first[x] + Len(nodes[x].ent)
        /\ Len(nodes[x].ent) \in Nat
    BY InnerNode, ConstantTypes
  <2> QED BY <2>2, <2>3 DEF Places
<1>2. first[p] \in Nat /\ first[q] \in Nat /\ s \in Nat /\ t \in Nat /\ p \in Nat /\ q \in Nat
  BY InnerNode, <1>num DEF Places, Inner
<1>3. p = q
  <2>1. SUFFICES ASSUME p # q PROVE FALSE
    OBVIOUS
  <2>2. CASE p # 1 /\ (q = 1 \/ p < q)
    <3>1. first[p] + s < first[q] + t
      BY <1>1, <2>1, <2>2
    <3> QED BY <1>2, <3>1
  <2>3. CASE q # 1 /\ (p = 1 \/ q < p)
    <3>1. first[q] + t < first[p] + s
      BY <1>1, <2>1, <2>3
    <3> QED BY <1>2, <3>1
  <2> QED BY <1>2, <2>1, <2>2, <2>3
<1> QED BY <1>2, <1>3

-----------------------------------------------------------------------------
(***************************************************************************)
(* The reader.  It works on a file no writer touches any more; while it    *)
(* caches, the children whose turn has come (Seen) are exactly the cached  *)
(* nodes and the leaves counted so far.                                    *)
(***************************************************************************)

Calls == [node : Nat, next : Nat, kids : Nat]

OnStack(stack, p) == \E d \in 1..Len(stack) : stack[d].node = p

\* Child s of node p has had its turn: p's call is over, or past s, or waits for the
\* call on s.
Turn(stack, p, s) ==
    \A d \in 1..Len(stack) :
        stack[d].node = p => s < stack[d].next \/ (s = stack[d].next /\ d < Len(stack))

\* The nodes whose turn has come, given the stack and the nodes whose calls began.
Seen(stack, begun) ==
    {q \in 2..Len(nodes) :
        \E p \in begun : \E s \in Places(p) : q = first[p] + s /\ Turn(stack, p, s)}

SeenLeaves(stack, begun) == {q \in 2..(leaves+1) : q \in Seen(stack, begun)}

\* The calls that are under way: each but the last waits for the one it made.
StackOK(stack, begun) ==
    /\ stack # <<>>
    /\ stack[1].node = 1
    /\ \A d \in 1..Len(stack) :
         /\ stack[d].node \in Inner /\ stack[d].node \in begun
         /\ stack[d].next \in 1..(Len(nodes[stack[d].node].ent) + 1)
         /\ stack[d].kids = IF first[stack[d].node] <= leaves THEN 0 ELSE stack[d].next - 1
    /\ \A d \in 1..(Len(stack) - 1) :
         /\ stack[d].next <= Len(nodes[stack[d].node].ent)
         /\ stack[d + 1].node = first[stack[d].node] + stack[d].next
    /\ \A c, d \in 1..Len(stack) : stack[c].node = stack[d].node => c = d

StackInv == mode = "caching" /\ nodes[1] # Blank => StackOK(todo, cached)

\* What is cached, linked and counted.
CacheOK(stack, begun, done, count) ==
    /\ 1 \in begun /\ begun \subseteq Inner
    /\ \A q \in (leaves+2)..Len(nodes) : q \in begun <=> q \in Seen(stack, begun)
    /\ done = {p \in begun : ~OnStack(stack, p) /\ first[p] > leaves}
    /\ count = Cardinality(SeenLeaves(stack, begun))

CacheInv ==
    mode \in {"caching", "open", "searching"} /\ nodes[1] # Blank =>
        CacheOK(todo, cached, linked, reachable)

\* A file without a root has one node to cache, and it has no children.
BlankInv ==
    nodes[1] = Blank =>
        /\ mode = "caching" => todo = <<Call(1)>>
        /\ mode # "shut" => linked \subseteq {1} /\ cached \subseteq {1} /\ reachable = 0
        /\ mode \in {"caching", "open", "searching"} => cached = {1}

\* A file is opened when its writer is done with it.
ModeInv ==
    /\ mode # "shut" => phase \in {"closed", "failed"}
    /\ mode = "shut" => ReaderInit
    /\ mode # "caching" => todo = <<>>
    /\ todo \in Seq(Calls)

\* A search below the root is at the node whose range of first keys holds the key
\* asked for, or at the first node of its generation.
SearchInv ==
    mode = "searching" =>
        /\ asked \in Keys
        /\ nodes[1] = Blank => at = 1
        /\ in_cache => at \in cached /\ reads = 0
        /\ ~in_cache => nodes[at].leaf /\ reads = IF mapped THEN 0 ELSE 1
        /\ nodes[1] # Blank /\ at # 1 =>
             /\ FirstKey(nodes[at]) = First \/ FirstKey(nodes[at]) <= asked
             /\ \/ at = Len(nodes)
                \/ FirstKey(nodes[at + 1]) = First
                \/ asked < FirstKey(nodes[at + 1])

\* Between searches.
ReplyInv ==
    /\ mode = "caching" => reads = 0 /\ reply = NoReply
    /\ mode = "open" => reads <= 1 /\ (reply >= 0 => reads = IF mapped THEN 0 ELSE 1)

ReaderInv ==
    TreeTypeOK /\ ModeInv /\ StackInv /\ CacheInv /\ BlankInv /\ SearchInv /\ ReplyInv

-----------------------------------------------------------------------------
(* The stack of calls *)

\* The stack without its last call.
LEMMA StackBelow ==
    ASSUME NEW stack \in Seq(Calls), NEW t \in Nat, t = Len(stack), t >= 1
    PROVE  /\ SubSeq(stack, 1, t - 1) \in Seq(Calls)
           /\ Len(SubSeq(stack, 1, t - 1)) = t - 1
           /\ \A d \in 1..(t-1) : SubSeq(stack, 1, t - 1)[d] = stack[d]
           /\ stack[t] \in Calls
  OBVIOUS

\* Pushing a call.
LEMMA StackPush ==
    ASSUME NEW stack \in Seq(Calls), NEW call \in Calls
    PROVE  /\ Push(stack, call) \in Seq(Calls)
           /\ Len(Push(stack, call)) = Len(stack) + 1
           /\ \A d \in 1..Len(stack) : Push(stack, call)[d] = stack[d]
           /\ Push(stack, call)[Len(stack) + 1] = call
  BY AppendFacts DEF Push

\* Going on to the next child.
LEMMA NextCall ==
    ASSUME NEW call \in Calls
    PROVE  /\ [call EXCEPT !.next = @ + 1] \in Calls
           /\ [call EXCEPT !.next = @ + 1].node = call.node
           /\ [call EXCEPT !.next = @ + 1].next = call.next + 1
           /\ [call EXCEPT !.next = @ + 1].kids = call.kids
           /\ [call EXCEPT !.next = @ + 1, !.kids = @ + 1] \in Calls
           /\ [call EXCEPT !.next = @ + 1, !.kids = @ + 1].node = call.node
           /\ [call EXCEPT !.next = @ + 1, !.kids = @ + 1].next = call.next + 1
           /\ [call EXCEPT !.next = @ + 1, !.kids = @ + 1].kids = call.kids + 1
<1>1. call.next \in Nat /\ call.kids \in Nat
  BY DEF Calls
<1>2. call.next + 1 \in Nat /\ call.kids + 1 \in Nat
  BY <1>1
<1> QED BY <1>2 DEF Calls

\* A step of the reader leaves what the file says as it is.
LEMMA FileStays ==
    ASSUME UNCHANGED vars
    PROVE  /\ nodes' = nodes /\ first' = first /\ leaves' = leaves /\ phase' = phase
           /\ added' = added /\ Inner' = Inner /\ First' = First
           /\ \A p : Places(p)' = Places(p) /\ BatchEnd(p)' = BatchEnd(p)
           /\ \A p, s : Child(p, s)' = Child(p, s)
           /\ \A stack, begun : Seen(stack, begun)' = Seen(stack, begun)
           /\ \A stack, begun : StackOK(stack, begun)' = StackOK(stack, begun)
           /\ \A stack, begun, done, count :
                CacheOK(stack, begun, done, count)' = CacheOK(stack, begun, done, count)
<1>1. nodes' = nodes /\ first' = first /\ leaves' = leaves /\ phase' = phase /\ added' = added
  BY DEF vars
<1>2. Inner' = Inner /\ First' = First
  BY <1>1 DEF Inner, First
<1>3. \A p : Places(p)' = Places(p) /\ BatchEnd(p)' = BatchEnd(p)
  BY <1>1 DEF Places, BatchEnd
<1>4. \A p, s : Child(p, s)' = Child(p, s)
  BY <1>1 DEF Child
<1>5. \A stack, begun : Seen(stack, begun)' = Seen(stack, begun)
  BY <1>1 DEF Seen, Places, Turn
<1>6. \A stack, begun : SeenLeaves(stack, begun)' = SeenLeaves(stack, begun)
  BY <1>1 DEF SeenLeaves, Seen, Places, Turn
<1>7. \A stack, begun : StackOK(stack, begun)' = StackOK(stack, begun)
  BY <1>1, <1>2 DEF StackOK
<1>8. \A stack, begun, done, count :
         CacheOK(stack, begun, done, count)' = CacheOK(stack, begun, done, count)
  BY <1>1, <1>2, <1>5, <1>6 DEF CacheOK, OnStack
<1> QED BY <1>1, <1>2, <1>3, <1>4, <1>5, <1>7, <1>8

\* The call that is running.
LEMMA TopCall ==
    ASSUME FileInv, ReaderInv, mode = "caching", nodes[1] # Blank,
           NEW t, t = Len(todo)
    PROVE  /\ t \in Nat /\ t >= 1 /\ todo \in Seq(Calls) /\ Top = todo[t] /\ Top \in Calls
           /\ Top.node \in Inner /\ Top.node \in cached
           /\ Top.next \in 1..(Len(nodes[Top.node].ent) + 1)
           /\ Top.kids = IF first[Top.node] <= leaves THEN 0 ELSE Top.next - 1
           /\ \A d \in 1..t : todo[d] \in Calls
<1>1. todo \in Seq(Calls) /\ todo # <<>>
  BY DEF ReaderInv, ModeInv, StackInv, StackOK
<1>2. t \in Nat /\ t >= 1
  BY <1>1
<1>3. t \in 1..Len(todo) /\ Top = todo[t]
  BY <1>2 DEF Top
<1>4. \A d \in 1..t : todo[d] \in Calls
  BY <1>1, <1>2
<1> QED BY <1>1, <1>2, <1>3, <1>4 DEF ReaderInv, StackInv, StackOK

\* The child whose turn it is was not seen yet.
LEMMA TopChild ==
    ASSUME FileInv, ReaderInv, mode = "caching", nodes[1] # Blank,
           Top.next <= Len(nodes[Top.node].ent),
           NEW p, NEW s, p = Top.node, s = Top.next
    PROVE  /\ p \in Inner /\ p \in cached /\ s \in Places(p)
           /\ Child(p, s) = first[p] + s /\ first[p] + s \in 2..Len(nodes)
           /\ ~Turn(todo, p, s)
           /\ first[p] + s \notin Seen(todo, cached)
<1>1. PICK t \in Nat : t = Len(todo)
  BY DEF ReaderInv, ModeInv
<1>2. /\ t >= 1 /\ Top = todo[t] /\ p \in Inner /\ p \in cached
      /\ s \in 1..(Len(nodes[p].ent) + 1) /\ s <= Len(nodes[p].ent)
  BY <1>1, TopCall
<1>3. Len(nodes[p].ent) \in Nat
  BY <1>2, InnerNode, ConstantTypes
<1>4. s \in Places(p)
  BY <1>2, <1>3 DEF Places
<1>5. Child(p, s) = first[p] + s /\ first[p] + s \in 2..Len(nodes)
  BY <1>2, <1>4, InnerNode
<1>6. ~Turn(todo, p, s)
  <2>1. t \in 1..Len(todo) /\ ~(t < Len(todo)) /\ ~(s < s)
    BY <1>1, <1>2, <1>3
  <2> QED BY <1>2, <2>1 DEF Turn
<1>7. first[p] + s \notin Seen(todo, cached)
  <2> SUFFICES ASSUME NEW x \in cached, NEW i \in Places(x),
                      first[p] + s = first[x] + i, Turn(todo, x, i)
               PROVE  FALSE
    BY DEF Seen
  <2>1. x \in Inner
    BY DEF ReaderInv, CacheInv, CacheOK
  <2>2. p = x /\ s = i
    BY <1>2, <1>4, <2>1, OneParent
  <2> QED BY <1>6, <2>2
<1> QED BY <1>2, <1>4, <1>5, <1>6, <1>7

\* One more child had its turn.
LEMMA SeenGrows ==
    ASSUME NEW stack, NEW begun, NEW stack2, NEW begun2,
           NEW p \in begun2, NEW s \in Places(p), first[p] + s \in 2..Len(nodes),
           begun \subseteq begun2,
           \A x \in begun2 : \A i \in Places(x) :
               Turn(stack2, x, i) <=> (x \in begun /\ Turn(stack, x, i)) \/ (x = p /\ i = s)
    PROVE  Seen(stack2, begun2) = Seen(stack, begun) \union {first[p] + s}
<1>1. ASSUME NEW q \in Seen(stack2, begun2)
      PROVE  q \in Seen(stack, begun) \union {first[p] + s}
  BY DEF Seen
<1>2. ASSUME NEW q \in Seen(stack, begun) PROVE q \in Seen(stack2, begun2)
  BY DEF Seen
<1>3. first[p] + s \in Seen(stack2, begun2)
  BY DEF Seen
<1> QED BY <1>1, <1>2, <1>3

\* The leaves that were seen are finitely many.
LEMMA SeenLeavesFinite ==
    ASSUME FileInv, nodes[1] # Blank, NEW stack, NEW begun
    PROVE  /\ IsFiniteSet(SeenLeaves(stack, begun))
           /\ Cardinality(SeenLeaves(stack, begun)) \in 0..leaves
<1>1. leaves \in Nat /\ leaves >= 1
  BY FewNodes
<1>2. IsFiniteSet(2..(leaves+1)) /\ Cardinality(2..(leaves+1)) = leaves
  <2>1. IsFiniteSet(2..(leaves+1))
        /\ Cardinality(2..(leaves+1)) = IF 2 > leaves + 1 THEN 0 ELSE (leaves + 1) - 2 + 1
    BY <1>1, FS_Interval
  <2> QED BY <1>1, <2>1
<1>3. SeenLeaves(stack, begun) \in SUBSET (2..(leaves+1))
  BY DEF SeenLeaves
<1>4. /\ IsFiniteSet(SeenLeaves(stack, begun))
      /\ Cardinality(SeenLeaves(stack, begun)) <= leaves
      /\ Cardinality(SeenLeaves(stack, begun)) \in Nat
  BY <1>2, <1>3, FS_Subset, FS_CardinalityType
<1> QED BY <1>1, <1>4

\* A node of the file is a leaf or has children.
LEMMA LeafOrInner ==
    ASSUME FileInv, NEW q \in 1..Len(nodes)
    PROVE  /\ nodes[q].leaf <=> q \in 2..(leaves+1)
           /\ ~nodes[q].leaf <=> q \in Inner
           /\ q # 1 => (q \in 2..(leaves+1) \/ q \in (leaves+2)..Len(nodes))
<1>1. Len(nodes) \in Nat /\ leaves \in Nat /\ leaves + 1 <= Len(nodes)
  BY Numbers DEF FileInv, IInv, LeafLayout
<1>2. ~nodes[1].leaf /\ \A p \in 2..Len(nodes) : nodes[p].leaf <=> p <= leaves + 1
  BY DEF FileInv, IInv, LeafLayout
<1> QED BY <1>1, <1>2 DEF Inner

-----------------------------------------------------------------------------
(* Caching *)

\* A leaf is counted.
LEMMA CountLeaf ==
    ASSUME FileInv, ReaderInv, nodes[1] # Blank, CacheChild,
           nodes[Child(Top.node, Top.next)].leaf
    PROVE  /\ StackOK(todo', cached') /\ CacheOK(todo', cached', linked', reachable')
           /\ todo' \in Seq(Calls)
<1>p. PICK p : p = Top.node
  OBVIOUS
<1>s. PICK s : s = Top.next
  OBVIOUS
<1>1. mode = "caching" /\ mode' = "caching" /\ s <= Len(nodes[p].ent)
  BY <1>p, <1>s DEF CacheChild
<1>2. PICK t \in Nat : t = Len(todo)
  BY DEF ReaderInv, ModeInv
<1>3. /\ t >= 1 /\ todo \in Seq(Calls) /\ Top = todo[t] /\ Top \in Calls
      /\ p \in Inner /\ p \in cached /\ s \in 1..(Len(nodes[p].ent) + 1)
      /\ Top.kids = IF first[p] <= leaves THEN 0 ELSE s - 1
      /\ \A d \in 1..t : todo[d] \in Calls
  BY <1>p, <1>s, <1>1, <1>2, TopCall
<1>num. /\ Len(nodes) \in Nat /\ leaves \in Nat /\ leaves + 1 <= Len(nodes)
        /\ Len(nodes[p].ent) \in Nat /\ s \in Nat /\ first[p] \in Nat
  <2>1. Len(nodes) \in Nat /\ leaves \in Nat /\ leaves + 1 <= Len(nodes)
    BY FewNodes
  <2>2. Len(nodes[p].ent) \in Nat /\ first[p] \in Nat
    BY <1>3, InnerNode, ConstantTypes
  <2> QED BY <1>3, <2>1, <2>2
<1>q. PICK q : q = first[p] + s
  OBVIOUS
<1>4. /\ s \in Places(p) /\ Child(p, s) = q /\ q \in 2..Len(nodes)
      /\ ~Turn(todo, p, s) /\ q \notin Seen(todo, cached)
  BY <1>p, <1>s, <1>q, <1>1, TopChild
<1> DEFINE new == [Top EXCEPT !.next = @ + 1]
<1>5. /\ nodes[q].leaf /\ todo' = Push(Below, new)
      /\ cached' = cached /\ linked' = linked /\ reachable' = reachable + 1
  BY <1>p, <1>s, <1>4 DEF CacheChild
<1>6. q \in 2..(leaves+1)
  BY <1>4, <1>5, <1>num, LeafOrInner
<1>7. first[p] <= leaves
  BY <1>q, <1>4, <1>6, <1>num DEF Places
<1>8. new \in Calls /\ new.node = p /\ new.next = s + 1 /\ new.kids = Top.kids
  BY <1>p, <1>s, <1>3, NextCall
<1> HIDE DEF new
<1>9. /\ todo' \in Seq(Calls) /\ Len(todo') = t /\ todo'[t] = new
      /\ \A d \in 1..(t-1) : todo'[d] = todo[d]
  <2>1. /\ Below \in Seq(Calls) /\ Len(Below) = t - 1
        /\ \A d \in 1..(t-1) : Below[d] = todo[d]
    BY <1>2, <1>3, StackBelow DEF Below
  <2>2. /\ Push(Below, new) \in Seq(Calls)
        /\ Len(Push(Below, new)) = Len(Below) + 1
        /\ \A d \in 1..Len(Below) : Push(Below, new)[d] = Below[d]
        /\ Push(Below, new)[Len(Below) + 1] = new
    BY <1>8, <2>1, StackPush
  <2>3. Len(Below) + 1 = t
    BY <1>2, <2>1
  <2> QED BY <1>5, <2>1, <2>2, <2>3
<1>10. ASSUME NEW d \in 1..t PROVE todo'[d].node = todo[d].node
  <2>1. d \in 1..(t-1) \/ d = t
    BY <1>2
  <2> QED BY <1>p, <1>3, <1>8, <1>9, <2>1
<1>ok. StackOK(todo, cached) /\ CacheOK(todo, cached, linked, reachable)
  BY <1>1 DEF ReaderInv, StackInv, CacheInv
<1>11. StackOK(todo', cached)
  <2>1. todo' # <<>> /\ todo'[1].node = 1
    <3>1. todo[1].node = 1 /\ 1 \in 1..t
      BY <1>ok, <1>2, <1>3 DEF StackOK
    <3> QED BY <1>3, <1>9, <1>10, <3>1
  <2>2. ASSUME NEW d \in 1..t
        PROVE  /\ todo'[d].node \in Inner /\ todo'[d].node \in cached
               /\ todo'[d].next \in 1..(Len(nodes[todo'[d].node].ent) + 1)
               /\ todo'[d].kids = IF first[todo'[d].node] <= leaves THEN 0
                                  ELSE todo'[d].next - 1
    <3>1. CASE d \in 1..(t-1)
      <4>1. d \in 1..Len(todo) /\ todo'[d] = todo[d]
        BY <1>2, <1>9, <3>1
      <4> QED BY <1>ok, <4>1 DEF StackOK
    <3>2. CASE d = t
      <4>1. s + 1 \in 1..(Len(nodes[p].ent) + 1)
        BY <1>1, <1>num
      <4> QED BY <1>3, <1>7, <1>8, <1>9, <3>2, <4>1
    <3> QED BY <1>2, <3>1, <3>2
  <2>3. ASSUME NEW d \in 1..(t-1)
        PROVE  /\ todo'[d].next <= Len(nodes[todo'[d].node].ent)
               /\ todo'[d + 1].node = first[todo'[d].node] + todo'[d].next
    <3>1. d \in 1..(Len(todo) - 1) /\ d + 1 \in 1..t /\ todo'[d] = todo[d]
      BY <1>2, <1>9
    <3> QED BY <1>ok, <1>10, <3>1 DEF StackOK
  <2>4. ASSUME NEW c \in 1..t, NEW d \in 1..t, todo'[c].node = todo'[d].node PROVE c = d
    BY <1>ok, <1>2, <1>10, <2>4 DEF StackOK
  <2> QED BY <1>9, <2>1, <2>2, <2>3, <2>4 DEF StackOK
<1>12. ASSUME NEW x \in cached, NEW i \in Places(x)
       PROVE  Turn(todo', x, i) <=> (x \in cached /\ Turn(todo, x, i)) \/ (x = p /\ i = s)
  <2>0. i \in Nat
    BY DEF Places
  <2>1. CASE x # p
    <3>1. Turn(todo', x, i) <=> Turn(todo, x, i)
      <4>1. ASSUME NEW d \in 1..t
            PROVE  (todo'[d].node = x => i < todo'[d].next \/ (i = todo'[d].next /\ d < t))
                     <=> (todo[d].node = x => i < todo[d].next \/ (i = todo[d].next /\ d < t))
        <5>1. d \in 1..(t-1) \/ d = t
          BY <1>2
        <5> QED BY <1>p, <1>3, <1>8, <1>9, <2>1, <5>1
      <4> QED BY <1>2, <1>9, <4>1 DEF Turn
    <3> QED BY <2>1, <3>1
  <2>2. CASE x = p
    <3>1. ASSUME NEW d \in 1..t, todo[d].node = p PROVE d = t
      <4>1. t \in 1..Len(todo) /\ d \in 1..Len(todo) /\ todo[t].node = p
        BY <1>p, <1>2, <1>3
      <4> QED BY <1>ok, <3>1, <4>1 DEF StackOK
    <3>2. Turn(todo, p, i) <=> i < s
      <4>1. t \in 1..Len(todo) /\ todo[t].node = p /\ todo[t].next = s
        BY <1>p, <1>s, <1>2, <1>3
      <4> QED BY <1>2, <3>1, <4>1 DEF Turn
    <3>3. Turn(todo', p, i) <=> i < s + 1
      <4>1. t \in 1..Len(todo') /\ todo'[t].node = p /\ todo'[t].next = s + 1
        BY <1>2, <1>3, <1>8, <1>9
      <4> QED BY <1>2, <1>9, <1>10, <3>1, <4>1 DEF Turn
    <3> QED BY <1>num, <2>0, <2>2, <3>2, <3>3
  <2> QED BY <2>1, <2>2
<1>13. Seen(todo', cached) = Seen(todo, cached) \union {q}
  BY <1>q, <1>3, <1>4, <1>12, SeenGrows
<1>14. CacheOK(todo', cached, linked, reachable + 1)
  <2>1. \A x \in (leaves+2)..Len(nodes) : x # q
    BY <1>6, <1>num
  <2>2. \A x : OnStack(todo', x) <=> OnStack(todo, x)
    BY <1>2, <1>9, <1>10 DEF OnStack
  <2>3. SeenLeaves(todo', cached) = SeenLeaves(todo, cached) \union {q}
    BY <1>6, <1>13 DEF SeenLeaves
  <2>4. q \notin SeenLeaves(todo, cached)
    BY <1>4 DEF SeenLeaves
  <2>5. Cardinality(SeenLeaves(todo', cached)) = reachable + 1
    BY <1>ok, <2>3, <2>4, SeenLeavesFinite, FS_AddElement DEF CacheOK
  <2> QED BY <1>ok, <1>13, <2>1, <2>2, <2>5 DEF CacheOK
<1> QED BY <1>5, <1>9, <1>11, <1>14

\* A node above the leaves is cached by a call of its own.
LEMMA CacheInner ==
    ASSUME FileInv, ReaderInv, nodes[1] # Blank, CacheChild,
           ~nodes[Child(Top.node, Top.next)].leaf
    PROVE  /\ StackOK(todo', cached') /\ CacheOK(todo', cached', linked', reachable')
           /\ todo' \in Seq(Calls)
<1>p. PICK p : p = Top.node
  OBVIOUS
<1>s. PICK s : s = Top.next
  OBVIOUS
<1>1. mode = "caching" /\ mode' = "caching" /\ s <= Len(nodes[p].ent)
  BY <1>p, <1>s DEF CacheChild
<1>2. PICK t \in Nat : t = Len(todo)
  BY DEF ReaderInv, ModeInv
<1>3. /\ t >= 1 /\ todo \in Seq(Calls) /\ Top = todo[t] /\ Top \in Calls
      /\ p \in Inner /\ p \in cached /\ s \in 1..(Len(nodes[p].ent) + 1)
  BY <1>p, <1>s, <1>1, <1>2, TopCall
<1>num. Len(nodes) \in Nat /\ leaves \in Nat
  BY FewNodes
<1>q. PICK q : q = first[p] + s
  OBVIOUS
<1>4. /\ s \in Places(p) /\ Child(p, s) = q /\ q \in 2..Len(nodes)
      /\ ~Turn(todo, p, s) /\ q \notin Seen(todo, cached)
  BY <1>p, <1>s, <1>q, <1>1, TopChild
<1>5. /\ ~nodes[q].leaf /\ todo' = Push(todo, Call(q))
      /\ cached' = cached \union {q} /\ linked' = linked /\ reachable' = reachable
  BY <1>p, <1>s, <1>4 DEF CacheChild
<1>6. q \in (leaves+2)..Len(nodes) /\ q \in Inner /\ q \in 1..Len(nodes) /\ q \in Nat /\ q # 1
  BY <1>4, <1>5, <1>num, LeafOrInner
<1>7. /\ Call(q) \in Calls /\ Call(q).node = q /\ Call(q).next = 1 /\ Call(q).kids = 0
  BY <1>6 DEF Call, Calls
<1>8. /\ todo' \in Seq(Calls) /\ Len(todo') = t + 1 /\ todo'[t + 1] = Call(q)
      /\ \A d \in 1..t : todo'[d] = todo[d]
  BY <1>2, <1>3, <1>5, <1>7, StackPush
<1>ok. StackOK(todo, cached) /\ CacheOK(todo, cached, linked, reachable)
  BY <1>1 DEF ReaderInv, StackInv, CacheInv
<1>9. q \notin cached
  BY <1>ok, <1>4, <1>6 DEF CacheOK
<1>10. ASSUME NEW d \in 1..t PROVE d \in 1..Len(todo) /\ todo[d].node \in cached /\ todo[d].node # q
  BY <1>ok, <1>2, <1>9 DEF StackOK
<1>11. StackOK(todo', cached')
  <2>1. todo' # <<>> /\ todo'[1].node = 1
    <3>1. todo[1].node = 1 /\ 1 \in 1..t
      BY <1>ok, <1>2, <1>3 DEF StackOK
    <3> QED BY <1>2, <1>8, <3>1
  <2>2. ASSUME NEW d \in 1..(t+1)
        PROVE  /\ todo'[d].node \in Inner /\ todo'[d].node \in cached'
               /\ todo'[d].next \in 1..(Len(nodes[todo'[d].node].ent) + 1)
               /\ todo'[d].kids = IF first[todo'[d].node] <= leaves THEN 0
                                  ELSE todo'[d].next - 1
    <3>1. CASE d \in 1..t
      <4>1. d \in 1..Len(todo) /\ todo'[d] = todo[d]
        BY <1>2, <1>8, <3>1
      <4> QED BY <1>ok, <1>5, <4>1 DEF StackOK
    <3>2. CASE d = t + 1
      <4>1. Len(nodes[q].ent) \in Nat
        BY <1>6, InnerNode, ConstantTypes
      <4> QED BY <1>5, <1>6, <1>7, <1>8, <3>2, <4>1
    <3> QED BY <1>2, <3>1, <3>2
  <2>3. ASSUME NEW d \in 1..t
        PROVE  /\ todo'[d].next <= Len(nodes[todo'[d].node].ent)
               /\ todo'[d + 1].node = first[todo'[d].node] + todo'[d].next
    <3>1. CASE d \in 1..(t-1)
      <4>1. d \in 1..(Len(todo) - 1) /\ d + 1 \in 1..t /\ todo'[d] = todo[d]
        BY <1>2, <1>8, <3>1
      <4> QED BY <1>ok, <1>8, <4>1 DEF StackOK
    <3>2. CASE d = t
      BY <1>p, <1>s, <1>q, <1>1, <1>3, <1>7, <1>8, <3>2
    <3> QED BY <1>2, <3>1, <3>2
  <2>4. ASSUME NEW c \in 1..(t+1), NEW d \in 1..(t+1), todo'[c].node = todo'[d].node
        PROVE  c = d
    <3>1. ASSUME NEW e \in 1..(t+1), e # t + 1 PROVE e \in 1..t
      BY <1>2, <3>1
    <3>2. CASE c = t + 1 /\ d # t + 1
      BY <1>7, <1>8, <1>10, <2>4, <3>1, <3>2
    <3>3. CASE c # t + 1 /\ d = t + 1
      BY <1>7, <1>8, <1>10, <2>4, <3>1, <3>3
    <3>4. CASE c # t + 1 /\ d # t + 1
      <4>1. c \in 1..t /\ d \in 1..t
        BY <3>1, <3>4
      <4>2. todo[c].node = todo[d].node /\ c \in 1..Len(todo) /\ d \in 1..Len(todo)
        BY <1>2, <1>8, <2>4, <4>1
      <4> QED BY <1>ok, <4>2 DEF StackOK
    <3> QED BY <3>2, <3>3, <3>4
  <2>5. Len(todo') - 1 = t
    BY <1>2, <1>8
  <2> QED BY <1>8, <2>1, <2>2, <2>3, <2>4, <2>5 DEF StackOK
<1>12. ASSUME NEW x \in cached', NEW i \in Places(x)
       PROVE  Turn(todo', x, i) <=> (x \in cached /\ Turn(todo, x, i)) \/ (x = p /\ i = s)
  <2>0. i \in Nat /\ i >= 1
    BY DEF Places
  <2>1. CASE x = q
    <3>1. ~Turn(todo', x, i)
      <4>1. t + 1 \in 1..Len(todo') /\ ~(t + 1 < Len(todo'))
        BY <1>2, <1>8
      <4>2. todo'[t + 1].node = x /\ ~(i < todo'[t + 1].next)
        BY <1>7, <1>8, <2>0, <2>1
      <4> QED BY <4>1, <4>2 DEF Turn
    <3> QED BY <1>3, <1>9, <2>1, <3>1
  <2>2. CASE x # q
    <3>1. x \in cached
      BY <1>5, <2>2
    <3>2. Turn(todo', x, i) <=>
             \A d \in 1..t : todo[d].node = x => i < todo[d].next \/ i = todo[d].next
      <4>1. ASSUME NEW d \in 1..(t+1)
            PROVE  (d \in 1..t /\ d < t + 1) \/ d = t + 1
        BY <1>2
      <4>2. \A d \in 1..t : d \in 1..(t+1) /\ d < t + 1
        BY <1>2
      <4> QED BY <1>7, <1>8, <2>2, <4>1, <4>2 DEF Turn
    <3>3. CASE x = p
      <4>1. ASSUME NEW d \in 1..t, todo[d].node = p PROVE d = t
        <5>1. t \in 1..Len(todo) /\ d \in 1..Len(todo) /\ todo[t].node = p
          BY <1>p, <1>2, <1>3
        <5> QED BY <1>ok, <4>1, <5>1 DEF StackOK
      <4>2. t \in 1..t /\ todo[t].node = p /\ todo[t].next = s /\ s \in Nat
        BY <1>p, <1>s, <1>2, <1>3
      <4>3. Turn(todo', x, i) <=> i < s \/ i = s
        BY <3>2, <3>3, <4>1, <4>2
      <4>4. Turn(todo, x, i) <=> i < s
        BY <1>2, <3>3, <4>1, <4>2 DEF Turn
      <4> QED BY <1>3, <3>3, <4>3, <4>4
    <3>4. CASE x # p
      <4>1. ASSUME NEW d \in 1..t, todo[d].node = x PROVE d < t
        <5>1. d # t
          BY <1>p, <1>3, <3>4, <4>1
        <5> QED BY <1>2, <5>1
      <4>2. Turn(todo, x, i) <=>
               \A d \in 1..t : todo[d].node = x => i < todo[d].next \/ i = todo[d].next
        BY <1>2, <4>1 DEF Turn
      <4> QED BY <3>1, <3>2, <3>4, <4>2
    <3> QED BY <3>3, <3>4
  <2> QED BY <2>1, <2>2
<1>13. Seen(todo', cached') = Seen(todo, cached) \union {q}
  <2>1. p \in cached' /\ cached \subseteq cached'
    BY <1>3, <1>5
  <2> QED BY <2>1, <1>q, <1>4, <1>12, SeenGrows
<1>14. CacheOK(todo', cached', linked, reachable)
  <2>1. 1 \in cached' /\ cached' \subseteq Inner
    BY <1>ok, <1>5, <1>6 DEF CacheOK
  <2>2. \A x \in (leaves+2)..Len(nodes) : x \in cached' <=> x \in Seen(todo', cached')
    BY <1>ok, <1>5, <1>13 DEF CacheOK
  <2>3. \A x : OnStack(todo', x) <=> OnStack(todo, x) \/ x = q
    <3>1. \A d \in 1..(t+1) : d \in 1..t \/ d = t + 1
      BY <1>2
    <3>2. t + 1 \in 1..(t+1) /\ \A d \in 1..t : d \in 1..(t+1)
      BY <1>2
    <3> QED BY <1>2, <1>7, <1>8, <3>1, <3>2 DEF OnStack
  <2>4. linked = {x \in cached' : ~OnStack(todo', x) /\ first[x] > leaves}
    BY <1>ok, <1>5, <1>9, <2>3 DEF CacheOK
  <2>5. SeenLeaves(todo', cached') = SeenLeaves(todo, cached)
    <3>1. q \notin 2..(leaves+1)
      BY <1>6, <1>num
    <3> QED BY <1>13, <3>1 DEF SeenLeaves
  <2> QED BY <1>ok, <2>1, <2>2, <2>4, <2>5 DEF CacheOK
<1> QED BY <1>5, <1>8, <1>11, <1>14

\* When a call is over, all children of its node had their turn, and either all or none
\* of them were cached: the assertion of sfbti_tar_cache_node_ab1 holds.
LEMMA CallOver ==
    ASSUME FileInv, ReaderInv, mode = "caching", nodes[1] # Blank,
           Top.next > Len(nodes[Top.node].ent),
           NEW p, p = Top.node
    PROVE  /\ Top.next = Len(nodes[p].ent) + 1 /\ Len(nodes[p].ent) \in Nat
           /\ Top.kids = IF first[p] <= leaves THEN 0 ELSE Len(nodes[p].ent)
           /\ Top.kids \in {0, Len(nodes[p].ent)}
           /\ Top.kids = Len(nodes[p].ent) <=> first[p] > leaves
           /\ \A i \in Places(p) : Turn(todo, p, i)
<1>1. PICK t \in Nat : t = Len(todo)
  BY DEF ReaderInv, ModeInv
<1>2. /\ t >= 1 /\ Top = todo[t] /\ Top \in Calls /\ p \in Inner
      /\ Top.next \in 1..(Len(nodes[p].ent) + 1)
      /\ Top.kids = IF first[p] <= leaves THEN 0 ELSE Top.next - 1
  BY <1>1, TopCall
<1>3. PICK n \in 1..K : n = Len(nodes[p].ent)
  BY <1>2, InnerNode
<1>4. n \in Nat /\ n >= 1 /\ first[p] \in Nat /\ leaves \in Nat
  BY <1>2, <1>3, InnerNode, FewNodes, ConstantTypes
<1>5. Top.next = n + 1
  <2>1. PICK m : m = Top.next
    OBVIOUS
  <2>2. m \in 1..(n + 1) /\ m > n
    BY <1>2, <1>3, <2>1
  <2> QED BY <1>4, <2>1, <2>2
<1>6. /\ Top.kids = IF first[p] <= leaves THEN 0 ELSE n
      /\ Top.kids = n <=> first[p] > leaves
  BY <1>2, <1>4, <1>5
<1>7. ASSUME NEW i \in Places(p) PROVE Turn(todo, p, i)
  <2>1. StackOK(todo, cached)
    BY DEF ReaderInv, StackInv
  <2>2. t \in 1..Len(todo) /\ todo[t].node = p /\ todo[t].next = n + 1
    BY <1>1, <1>2, <1>5
  <2>3. ASSUME NEW d \in 1..Len(todo), todo[d].node = p PROVE d = t
    BY <2>1, <2>2, <2>3 DEF StackOK
  <2>4. i < n + 1
    BY <1>3, <1>4 DEF Places
  <2> QED BY <2>2, <2>3, <2>4 DEF Turn
<1> QED BY <1>3, <1>4, <1>5, <1>6, <1>7

\* The last call is over: the file is open.
LEMMA LastCallOver ==
    ASSUME FileInv, ReaderInv, nodes[1] # Blank, CacheNodeDone, Below = <<>>
    PROVE  /\ mode' = "open" /\ todo' = <<>>
           /\ CacheOK(todo', cached', linked', reachable')
<1>p. PICK p : p = Top.node
  OBVIOUS
<1>1. mode = "caching" /\ Top.next > Len(nodes[Top.node].ent)
  BY DEF CacheNodeDone
<1>2. PICK t \in Nat : t = Len(todo)
  BY DEF ReaderInv, ModeInv
<1>3. t >= 1 /\ todo \in Seq(Calls) /\ Top = todo[t] /\ p \in Inner /\ p \in cached
  BY <1>p, <1>1, <1>2, TopCall
<1>4. t = 1
  <2>1. Len(Below) = t - 1
    BY <1>2, <1>3, StackBelow DEF Below
  <2>2. Len(Below) = 0
    OBVIOUS
  <2> QED BY <1>2, <2>1, <2>2
<1>5. /\ Top.kids \in {0, Len(nodes[p].ent)}
      /\ Top.kids = Len(nodes[p].ent) <=> first[p] > leaves
      /\ \A i \in Places(p) : Turn(todo, p, i)
  BY <1>p, <1>1, CallOver
<1>6. /\ mode' = "open" /\ todo' = <<>> /\ cached' = cached /\ reachable' = reachable
      /\ linked' = IF first[p] > leaves THEN linked \union {p} ELSE linked
  BY <1>p, <1>5 DEF CacheNodeDone
<1>ok. CacheOK(todo, cached, linked, reachable)
  BY <1>1 DEF ReaderInv, CacheInv
<1>7. \A x : ~OnStack(todo', x) /\ (OnStack(todo, x) <=> x = p)
  BY <1>p, <1>2, <1>3, <1>4, <1>6 DEF OnStack
<1>8. \A x \in cached : \A i \in Places(x) : Turn(todo, x, i) /\ Turn(todo', x, i)
  BY <1>p, <1>2, <1>3, <1>4, <1>5, <1>6 DEF Turn
<1>9. Seen(todo', cached) = Seen(todo, cached)
  BY <1>8 DEF Seen
<1>10. linked' = {x \in cached : ~OnStack(todo', x) /\ first[x] > leaves}
  BY <1>ok, <1>3, <1>6, <1>7 DEF CacheOK
<1>11. CacheOK(todo', cached, linked', reachable)
  BY <1>ok, <1>9, <1>10 DEF CacheOK, SeenLeaves
<1> QED BY <1>6, <1>11

\* A call returns to the one that waits for it, which goes on to its next child.
LEMMA CallReturns ==
    ASSUME FileInv, ReaderInv, nodes[1] # Blank, CacheNodeDone, Below # <<>>
    PROVE  /\ mode' = "caching" /\ todo' \in Seq(Calls) /\ StackOK(todo', cached')
           /\ CacheOK(todo', cached', linked', reachable')
<1>p. PICK p : p = Top.node
  OBVIOUS
<1>1. mode = "caching" /\ Top.next > Len(nodes[Top.node].ent)
  BY DEF CacheNodeDone
<1>2. PICK t \in Nat : t = Len(todo)
  BY DEF ReaderInv, ModeInv
<1>3. /\ t >= 1 /\ todo \in Seq(Calls) /\ Top = todo[t] /\ p \in Inner /\ p \in cached
  BY <1>p, <1>1, <1>2, TopCall
<1>4. /\ Below \in Seq(Calls) /\ Len(Below) = t - 1
      /\ \A d \in 1..(t-1) : Below[d] = todo[d]
  BY <1>2, <1>3, StackBelow DEF Below
<1>5. t >= 2 /\ t - 1 \in 1..(Len(todo) - 1) /\ t - 1 \in 1..Len(todo) /\ t \in 1..Len(todo)
      /\ (t - 1) + 1 = t
  BY <1>2, <1>3, <1>4
<1>6. PICK c : c = todo[t - 1].node
  OBVIOUS
<1>7. PICK s : s = todo[t - 1].next
  OBVIOUS
<1>ok. StackOK(todo, cached) /\ CacheOK(todo, cached, linked, reachable)
  BY <1>1 DEF ReaderInv, StackInv, CacheInv
<1>8. /\ c \in Inner /\ c \in cached /\ s \in 1..(Len(nodes[c].ent) + 1)
      /\ s <= Len(nodes[c].ent) /\ p = first[c] + s
      /\ todo[t - 1].kids = IF first[c] <= leaves THEN 0 ELSE s - 1
      /\ todo[t - 1] \in Calls
  BY <1>p, <1>ok, <1>3, <1>5, <1>6, <1>7 DEF StackOK
<1>num. /\ Len(nodes) \in Nat /\ leaves \in Nat /\ first[c] \in Nat /\ Len(nodes[c].ent) \in Nat
        /\ s \in Nat /\ p \in Nat
  <2>1. Len(nodes) \in Nat /\ leaves \in Nat
    BY FewNodes
  <2>2. first[c] \in Nat /\ Len(nodes[c].ent) \in Nat
    BY <1>8, InnerNode, ConstantTypes
  <2>3. p \in 1..Len(nodes)
    BY <1>3, InnerNode
  <2> QED BY <1>8, <2>1, <2>2, <2>3
<1>9. p \in (leaves+2)..Len(nodes) /\ first[c] > leaves
  <2>1. s \in Places(c)
    BY <1>8, <1>num DEF Places
  <2>2. p \in 2..Len(nodes) /\ (first[c] <= leaves => BatchEnd(c) <= leaves + 1)
        /\ BatchEnd(c) = first[c] + Len(nodes[c].ent)
    BY <1>8, <2>1, InnerNode
  <2>3. p \in (leaves+2)..Len(nodes)
    BY <1>3, <2>2 DEF Inner
  <2> QED BY <1>8, <1>num, <2>2, <2>3
<1>10. /\ Top.kids \in {0, Len(nodes[p].ent)}
       /\ Top.kids = Len(nodes[p].ent) <=> first[p] > leaves
       /\ \A i \in Places(p) : Turn(todo, p, i)
  BY <1>p, <1>1, CallOver
<1> DEFINE new == [todo[t - 1] EXCEPT !.next = @ + 1, !.kids = @ + 1]
<1>11. /\ mode' = "caching" /\ cached' = cached /\ reachable' = reachable
       /\ linked' = IF first[p] > leaves THEN linked \union {p} ELSE linked
       /\ todo' = [Below EXCEPT ![t - 1] = new]
  <2>1. Below[Len(Below)] = todo[t - 1] /\ Len(Below) = t - 1
    BY <1>4, <1>5
  <2> QED BY <1>p, <1>1, <1>10, <2>1 DEF CacheNodeDone
<1>12. new \in Calls /\ new.node = c /\ new.next = s + 1 /\ new.kids = todo[t - 1].kids + 1
  BY <1>6, <1>7, <1>8, NextCall
<1> HIDE DEF new
<1>13. /\ todo' \in Seq(Calls) /\ Len(todo') = t - 1 /\ todo'[t - 1] = new
       /\ \A d \in 1..(t-2) : todo'[d] = todo[d]
  <2>1. \A d \in 1..(t-2) : d \in 1..(t-1) /\ d # t - 1
    BY <1>2
  <2> QED BY <1>4, <1>5, <1>11, <1>12, <2>1
<1>14. ASSUME NEW d \in 1..(t-1)
       PROVE  todo'[d].node = todo[d].node /\ d \in 1..Len(todo) /\ d < t
  <2>1. d \in 1..(t-2) \/ d = t - 1
    BY <1>2
  <2> QED BY <1>2, <1>6, <1>12, <1>13, <2>1
<1>15. StackOK(todo', cached)
  <2>1. todo' # <<>> /\ todo'[1].node = 1
    <3>1. todo[1].node = 1 /\ 1 \in 1..(t-1)
      BY <1>ok, <1>2, <1>5 DEF StackOK
    <3> QED BY <1>13, <1>14, <3>1
  <2>2. ASSUME NEW d \in 1..(t-1)
        PROVE  /\ todo'[d].node \in Inner /\ todo'[d].node \in cached
               /\ todo'[d].next \in 1..(Len(nodes[todo'[d].node].ent) + 1)
               /\ todo'[d].kids = IF first[todo'[d].node] <= leaves THEN 0
                                  ELSE todo'[d].next - 1
    <3>1. CASE d \in 1..(t-2)
      <4>1. d \in 1..Len(todo) /\ todo'[d] = todo[d]
        BY <1>13, <1>14, <3>1
      <4> QED BY <1>ok, <4>1 DEF StackOK
    <3>2. CASE d = t - 1
      <4>1. s + 1 \in 1..(Len(nodes[c].ent) + 1) /\ (s - 1) + 1 = (s + 1) - 1
        BY <1>8, <1>num
      <4>2. ~(first[c] <= leaves)
        BY <1>9, <1>num
      <4> QED BY <1>8, <1>12, <1>13, <3>2, <4>1, <4>2
    <3> QED BY <1>2, <3>1, <3>2
  <2>3. ASSUME NEW d \in 1..(t-2)
        PROVE  /\ todo'[d].next <= Len(nodes[todo'[d].node].ent)
               /\ todo'[d + 1].node = first[todo'[d].node] + todo'[d].next
    <3>1. d \in 1..(Len(todo) - 1) /\ d + 1 \in 1..(t-1) /\ todo'[d] = todo[d]
      BY <1>2, <1>13
    <3> QED BY <1>ok, <1>14, <3>1 DEF StackOK
  <2>4. ASSUME NEW a \in 1..(t-1), NEW d \in 1..(t-1), todo'[a].node = todo'[d].node
        PROVE  a = d
    BY <1>ok, <1>14, <2>4 DEF StackOK
  <2>5. Len(todo') - 1 = t - 2
    BY <1>2, <1>13
  <2> QED BY <1>13, <2>1, <2>2, <2>3, <2>4, <2>5 DEF StackOK
<1>16. ASSUME NEW x \in cached, NEW i \in Places(x)
       PROVE  Turn(todo', x, i) <=> Turn(todo, x, i)
  <2>0. i \in Nat
    BY DEF Places
  <2>1. CASE x = p
    <3>1. ASSUME NEW d \in 1..(t-1) PROVE todo'[d].node # p
      <4>1. d # t /\ todo[t].node = p
        BY <1>p, <1>3, <1>14, <1>2
      <4> QED BY <1>ok, <1>5, <1>14, <4>1 DEF StackOK
    <3>2. Turn(todo', x, i)
      BY <1>13, <2>1, <3>1 DEF Turn
    <3> QED BY <1>10, <2>1, <3>2
  <2>2. CASE x = c
    <3>1. ASSUME NEW d \in 1..t, todo[d].node = c PROVE d = t - 1
      BY <1>ok, <1>2, <1>5, <1>6, <3>1 DEF StackOK
    <3>2. Turn(todo, x, i) <=> i < s \/ i = s
      <4>1. t - 1 \in 1..t /\ t - 1 < t
        BY <1>5, <1>2
      <4> QED BY <1>2, <1>6, <1>7, <2>2, <3>1, <4>1 DEF Turn
    <3>3. Turn(todo', x, i) <=> i < s + 1
      <4>1. ASSUME NEW d \in 1..(t-1), todo'[d].node = c PROVE d = t - 1
        <5>1. d \in 1..t /\ todo[d].node = c
          BY <1>2, <1>14, <4>1
        <5> QED BY <3>1, <5>1
      <4>2. t - 1 \in 1..(t-1) /\ ~(t - 1 < t - 1)
        BY <1>5, <1>2
      <4> QED BY <1>12, <1>13, <2>2, <4>1, <4>2 DEF Turn
    <3> QED BY <1>num, <2>0, <3>2, <3>3
  <2>3. CASE x # p /\ x # c
    <3>1. Turn(todo, x, i) <=>
             \A d \in 1..(t-2) : todo[d].node = x => i < todo[d].next \/ i = todo[d].next
      <4>1. ASSUME NEW d \in 1..t, todo[d].node = x PROVE d \in 1..(t-2) /\ d < t
        <5>1. d # t /\ d # t - 1
          BY <1>p, <1>3, <1>6, <2>3, <4>1
        <5> QED BY <1>2, <5>1
      <4>2. \A d \in 1..(t-2) : d \in 1..t /\ d < t
        BY <1>2
      <4> QED BY <1>2, <4>1, <4>2 DEF Turn
    <3>2. Turn(todo', x, i) <=>
             \A d \in 1..(t-2) : todo[d].node = x => i < todo[d].next \/ i = todo[d].next
      <4>1. ASSUME NEW d \in 1..(t-1), todo'[d].node = x PROVE d \in 1..(t-2) /\ d < t - 1
        <5>1. d # t - 1
          BY <1>12, <1>13, <2>3, <4>1
        <5> QED BY <1>2, <5>1
      <4>2. \A d \in 1..(t-2) : d \in 1..(t-1) /\ d < t - 1
        BY <1>2
      <4> QED BY <1>13, <4>1, <4>2 DEF Turn
    <3> QED BY <3>1, <3>2
  <2> QED BY <2>1, <2>2, <2>3
<1>17. Seen(todo', cached) = Seen(todo, cached)
  BY <1>16 DEF Seen
<1>18. CacheOK(todo', cached, linked', reachable)
  <2>1. \A x : OnStack(todo, x) <=> OnStack(todo', x) \/ x = p
    <3>1. ASSUME NEW d \in 1..t PROVE d \in 1..(t-1) \/ d = t
      BY <1>2
    <3> QED BY <1>p, <1>2, <1>3, <1>5, <1>13, <1>14, <3>1 DEF OnStack
  <2>2. ~OnStack(todo', p)
    <3>1. ASSUME NEW d \in 1..(t-1) PROVE todo'[d].node # p
      <4>1. d # t /\ todo[t].node = p
        BY <1>p, <1>3, <1>14, <1>2
      <4> QED BY <1>ok, <1>5, <1>14, <4>1 DEF StackOK
    <3> QED BY <1>13, <3>1 DEF OnStack
  <2>3. linked' = {x \in cached : ~OnStack(todo', x) /\ first[x] > leaves}
    BY <1>ok, <1>3, <1>11, <2>1, <2>2 DEF CacheOK
  <2> QED BY <1>ok, <1>17, <2>3 DEF CacheOK, SeenLeaves
<1> QED BY <1>11, <1>13, <1>15, <1>18

-----------------------------------------------------------------------------
(* Searching *)

\* In a sorted record with entries there is a last one that does not exceed a key, or
\* the key is before the first.
LEMMA ChildIndexFacts ==
    ASSUME NEW nd \in Node, SortedNode(nd), nd.ent # <<>>, NEW k \in Nat,
           NEW s, s = ChildIndex(nd, k)
    PROVE  /\ s \in 1..Len(nd.ent)
           /\ s = 1 \/ nd.ent[s].key <= k
           /\ \A t \in (s+1)..Len(nd.ent) : k < nd.ent[t].key
<1>1. nd.ent \in Seq(Entry)
  BY DEF Node
<1>2. PICK n \in Nat : n = Len(nd.ent) /\ n >= 1
  BY <1>1
<1>3. \A t \in 1..n : nd.ent[t].key \in Nat
  <2>1. \A t \in 1..n : nd.ent[t] \in Entry
    BY <1>1, <1>2
  <2> QED BY <2>1 DEF Entry
<1> DEFINE After == {t \in 2..n : k < nd.ent[t].key}
           Good(i) == /\ i = 1 \/ nd.ent[i].key <= k
                      /\ \A t \in (i+1)..n : k < nd.ent[t].key
<1>4. \E i \in 1..n : Good(i)
  <2>1. CASE After = {}
    <3>1. n = 1 \/ nd.ent[n].key <= k
      <4>1. n # 1 => n \in 2..n
        <5>1. \A m \in Nat : m >= 1 /\ m # 1 => m \in 2..m
          OBVIOUS
        <5> QED BY <1>2, <5>1
      <4>2. n \in 1..n
        BY <1>2
      <4> QED BY <1>3, <2>1, <4>1, <4>2
    <3>2. Good(n) /\ n \in 1..n
      BY <1>2, <3>1
    <3> QED BY <3>2
  <2>2. CASE After # {}
    <3>1. PICK m \in After : \A x \in After : m <= x
      <4>1. After \in SUBSET Nat
        OBVIOUS
      <4> HIDE DEF After
      <4> QED BY <2>2, <4>1, LeastElement
    <3>2. m \in 2..n /\ k < nd.ent[m].key /\ m - 1 \in 1..n /\ (m - 1) + 1 = m
      BY <1>2
    <3>3. m - 1 = 1 \/ nd.ent[m - 1].key <= k
      <4>1. m - 1 # 1 => m - 1 \in 2..n
        BY <3>2
      <4>2. m - 1 \notin After
        BY <3>1, <3>2
      <4> QED BY <1>3, <3>2, <4>1, <4>2
    <3>4. ASSUME NEW t \in m..n PROVE k < nd.ent[t].key
      <4>1. t \in 1..n /\ m \in 1..n /\ (t = m \/ m < t)
        BY <3>2
      <4>2. m < t => nd.ent[m].key < nd.ent[t].key
        BY <1>2, <4>1 DEF SortedNode
      <4> QED BY <1>3, <3>2, <4>1, <4>2
    <3>5. Good(m - 1)
      BY <3>2, <3>3, <3>4
    <3> QED BY <3>2, <3>5
  <2> QED BY <2>1, <2>2
<1>5. ChildIndex(nd, k) = CHOOSE i \in 1..n : Good(i)
  BY <1>2 DEF ChildIndex
<1> HIDE DEF Good
<1>6. s \in 1..n /\ Good(s)
  BY <1>4, <1>5
<1> QED BY <1>2, <1>6 DEF Good

\* A search that is not at a leaf is at a node with children, and goes on to one of them:
\* to the one whose range holds the key.
LEMMA DescendFacts ==
    ASSUME FileInv, ReaderInv, mode = "searching", nodes[1] # Blank, ~nodes[at].leaf,
           NEW s, s = ChildIndex(nodes[at], asked), NEW q, q = Child(at, s)
    PROVE  /\ at \in Inner /\ s \in Places(at) /\ q = first[at] + s /\ q \in 2..Len(nodes)
           /\ FirstKey(nodes[q]) = First \/ FirstKey(nodes[q]) <= asked
           /\ \/ q = Len(nodes)
              \/ FirstKey(nodes[q + 1]) = First
              \/ asked < FirstKey(nodes[q + 1])
<1>1. /\ at \in 1..Len(nodes) /\ asked \in Nat
      /\ at # 1 =>
           /\ FirstKey(nodes[at]) = First \/ FirstKey(nodes[at]) <= asked
           /\ \/ at = Len(nodes)
              \/ FirstKey(nodes[at + 1]) = First
              \/ asked < FirstKey(nodes[at + 1])
  BY WriteAssumption DEF ReaderInv, TreeTypeOK, SearchInv
<1>2. at \in Inner
  BY <1>1, LeafOrInner
<1>3. /\ nodes[at] \in Node /\ nodes[at].ent # <<>>
      /\ first[at] \in Nat /\ BatchEnd(at) = first[at] + Len(nodes[at].ent)
      /\ \A i \in Places(at) :
           /\ first[at] + i \in 2..Len(nodes)
           /\ nodes[at].ent[i].key = FirstKey(nodes[first[at] + i])
           /\ Child(at, i) = first[at] + i
  BY <1>2, InnerNode
<1>4. SortedNode(nodes[at])
  BY <1>1, SortedFile DEF FileInv
<1>5. PICK n \in 1..K : n = Len(nodes[at].ent)
  BY <1>2, InnerNode
<1>6. /\ s \in 1..n /\ (s = 1 \/ nodes[at].ent[s].key <= asked)
      /\ \A t \in (s+1)..n : asked < nodes[at].ent[t].key
  BY <1>1, <1>3, <1>4, <1>5, ChildIndexFacts
<1>num. Len(nodes) \in Nat /\ leaves \in Nat /\ n \in Nat /\ n >= 1
  BY FewNodes, ConstantTypes
<1>7. s \in Places(at) /\ 1 \in Places(at) /\ q = first[at] + s /\ q \in 2..Len(nodes)
  BY <1>3, <1>5, <1>6, <1>num DEF Places
<1>8. FirstKey(nodes[q]) = First \/ FirstKey(nodes[q]) <= asked
  <2>1. CASE s # 1
    BY <1>3, <1>6, <1>7, <2>1
  <2>2. CASE s = 1 /\ at = 1
    BY <1>7, <2>2 DEF FileInv, ShapeInv, LeftInv
  <2>3. CASE s = 1 /\ at # 1
    <3>1. FirstKey(nodes[at]) = nodes[at].ent[1].key
      BY <1>3 DEF FirstKey
    <3> QED BY <1>1, <1>3, <1>7, <2>3, <3>1
  <2> QED BY <2>1, <2>2, <2>3
<1>9. \/ q = Len(nodes)
      \/ FirstKey(nodes[q + 1]) = First
      \/ asked < FirstKey(nodes[q + 1])
  <2>1. CASE s < n
    <3>1. s + 1 \in Places(at) /\ s + 1 \in (s+1)..n
      BY <1>5, <1>6, <1>num, <2>1 DEF Places
    <3>2. q + 1 = first[at] + (s + 1)
      BY <1>3, <1>6, <1>7
    <3> QED BY <1>3, <1>6, <3>1, <3>2
  <2>2. CASE s = n
    <3>1. q = BatchEnd(at)
      BY <1>3, <1>5, <1>7, <2>2
    <3>2. CASE at = 1
      BY <3>1, <3>2, BatchesFollow
    <3>3. CASE at # 1 /\ at = Len(nodes)
      <4>1. Len(nodes) # leaves + 1
        BY <1>2, <1>num, <3>3 DEF Inner
      <4>2. q = first[1]
        BY <3>1, <3>3, <4>1, BatchesFollow
      <4> QED BY <4>2 DEF FileInv, ShapeInv, LeftInv
    <3>4. CASE at # 1 /\ at # Len(nodes)
      <4>1. at + 1 \in (leaves+2)..Len(nodes) /\ at + 1 # leaves + 2 /\ (at + 1) - 1 = at
        BY <1>1, <1>2, <1>num, <3>4 DEF Inner
      <4>2. at + 1 \in Inner
        BY <4>1 DEF Inner
      <4>3. q = first[at + 1]
        BY <3>1, <4>1, BatchesFollow
      <4>4. /\ 1 \in Places(at + 1) /\ nodes[at + 1].ent # <<>>
            /\ nodes[at + 1].ent[1].key = FirstKey(nodes[first[at + 1] + 1])
        <5>1. 1 \in Places(at + 1)
          BY <4>2, InnerNode, ConstantTypes DEF Places
        <5> QED BY <4>2, <5>1, InnerNode
      <4>5. FirstKey(nodes[q + 1]) = FirstKey(nodes[at + 1])
        BY <4>3, <4>4 DEF FirstKey
      <4> QED BY <1>1, <3>4, <4>5
    <3> QED BY <3>2, <3>3, <3>4
  <2> QED BY <1>6, <1>num, <2>1, <2>2
<1> QED BY <1>2, <1>7, <1>8, <1>9

\* A key was added once, so its count is that of its entry.
LEMMA CountOfAdded ==
    ASSUME FileInv, NEW e \in 1..Len(added)
    PROVE  CountOf(added[e].key) = added[e].val
<1>1. Len(added) \in Nat /\ added \in Seq(Entry)
  BY DEF FileInv, IInv, TypeOK
<1>2. ASSUME NEW f \in 1..Len(added), added[f].key = added[e].key PROVE f = e
  <2>1. added[e].key \in Nat
    <3>1. added[e] \in Entry
      BY <1>1
    <3> QED BY <3>1 DEF Entry
  <2>2. /\ e < f => added[e].key < added[f].key
        /\ f < e => added[f].key < added[e].key
    BY DEF FileInv, OrderInv, AddedSorted
  <2>3. ~(e < f) /\ ~(f < e)
    BY <1>2, <2>1, <2>2
  <2> QED BY <1>1, <2>3
<1> QED BY <1>2 DEF CountOf

\* Leaf p ends before a later leaf begins.
LEMMA LeafBefore ==
    ASSUME NEW p \in Nat, NEW q \in Nat, p < q, NEW s \in 1..K
    PROVE  (p - 2) * K + s < (q - 2) * K + 1
<1>1. PICK k \in Nat : k = K
  BY ConstantTypes
<1>2. (q - 2) * k = (p - 2) * k + k + (q - p - 1) * k
  OBVIOUS
<1>3. (q - p - 1) * k \in Nat /\ (p - 2) * k \in Int
  <2>1. q - p - 1 \in Nat
    OBVIOUS
  <2> QED BY <2>1
<1>4. (p - 2) * k + s < (q - 2) * k + 1
  BY <1>1, <1>2, <1>3
<1> QED BY <1>1, <1>4

\* An entry that was added is in a leaf of a finished file.
LEMMA EntryInLeaf ==
    ASSUME FileInv, nodes[1] # Blank, NEW e \in 1..Len(added)
    PROVE  \E p \in 2..(leaves+1) : \E s \in 1..Len(nodes[p].ent) :
              e = (p - 2) * K + s /\ nodes[p].ent[s] = added[e]
<1>1. current.ent = <<>>
  BY RootPhase DEF FileInv, IInv, PendingInv, Blank
<1>2. 1..Len(current.ent) = {}
  <2>1. Len(current.ent) = 0
    BY <1>1
  <2> QED BY <2>1
<1> QED BY <1>2 DEF FileInv, IInv, EntriesInOrder

\* The leaves of a finished file, when there are more than one: none is empty, their
\* first keys ascend, and what is in one comes before the first key of the next.
LEMMA LeavesApart ==
    ASSUME FileInv, nodes[1] # Blank, NEW p \in 2..(leaves+1), NEW q \in 2..(leaves+1), p < q
    PROVE  /\ nodes[p].ent # <<>> /\ nodes[q].ent # <<>>
           /\ FirstKey(nodes[p]) < FirstKey(nodes[q])
           /\ \A s \in 1..Len(nodes[p].ent) : nodes[p].ent[s].key < FirstKey(nodes[q])
<1>num. /\ Len(nodes) \in Nat /\ leaves \in Nat /\ leaves + 1 <= Len(nodes)
        /\ p \in Nat /\ q \in Nat /\ nodes \in Seq(Node)
  BY FewNodes DEF FileInv, IInv, TypeOK
<1>1. leaves > 1 /\ phase \notin {"adding", "broken"}
  BY <1>num, RootPhase DEF FileInv
<1>2. /\ nodes[p].ent # <<>> /\ nodes[q].ent # <<>>
      /\ FirstKey(nodes[p]) < FirstKey(nodes[q])
  BY <1>1, SortedFile DEF FileInv, Ascends
<1>3. ASSUME NEW s \in 1..Len(nodes[p].ent)
      PROVE  nodes[p].ent[s].key < FirstKey(nodes[q])
  <2>1. 1 \in 1..Len(nodes[q].ent)
    <3>1. nodes[q] \in Node
      BY <1>num
    <3>2. nodes[q].ent \in Seq(Entry)
      BY <3>1 DEF Node
    <3> QED BY <1>2, <3>2
  <2>2. /\ (p - 2) * K + s \in 1..Len(added) /\ nodes[p].ent[s] = added[(p - 2) * K + s]
        /\ (q - 2) * K + 1 \in 1..Len(added) /\ nodes[q].ent[1] = added[(q - 2) * K + 1]
    BY <2>1 DEF FileInv, IInv, EntriesInOrder
  <2>3. s \in 1..K
    <3>1. Len(nodes[p].ent) <= K /\ nodes[p] \in Node
      BY <1>num DEF FileInv, LeafSize
    <3>2. Len(nodes[p].ent) \in Nat
      BY <3>1 DEF Node
    <3> QED BY <3>1, <3>2, ConstantTypes
  <2>4. (p - 2) * K + s < (q - 2) * K + 1
    BY <1>num, <2>3, LeafBefore
  <2>5. added[(p - 2) * K + s].key < added[(q - 2) * K + 1].key
    BY <2>2, <2>4 DEF FileInv, OrderInv, AddedSorted
  <2> QED BY <1>2, <2>2, <2>5 DEF FirstKey
<1> QED BY <1>2, <1>3

\* The leaf a search ends at is the one where the key would be: its answer is the count
\* that was added, or 0.
LEMMA LeafAnswer ==
    ASSUME FileInv, ReaderInv, mode = "searching", nodes[1] # Blank, nodes[at].leaf,
           nodes[at].ent # <<>>
    PROVE  CountOf(asked) = IF Holds(nodes[at], asked)
                            THEN nodes[at].ent[ChildIndex(nodes[at], asked)].val ELSE 0
<1>1. at \in 1..Len(nodes) /\ asked \in Nat
  BY WriteAssumption DEF ReaderInv, TreeTypeOK, SearchInv
<1>2. at \in 2..(leaves+1)
  BY <1>1, LeafOrInner
<1>num. /\ Len(nodes) \in Nat /\ leaves \in Nat /\ leaves + 1 <= Len(nodes)
        /\ nodes \in Seq(Node)
  BY FewNodes DEF FileInv, IInv, TypeOK
<1>3. /\ FirstKey(nodes[at]) = First \/ FirstKey(nodes[at]) <= asked
      /\ \/ at = Len(nodes)
         \/ FirstKey(nodes[at + 1]) = First
         \/ asked < FirstKey(nodes[at + 1])
  BY <1>2, <1>num DEF ReaderInv, SearchInv
<1>4. nodes[at] \in Node /\ SortedNode(nodes[at])
  BY <1>1, <1>num, SortedFile DEF FileInv
<1>5. PICK n \in Nat : n = Len(nodes[at].ent)
  BY <1>4 DEF Node
<1>6. \A i \in 1..n : nodes[at].ent[i].key \in Nat
  <2>1. nodes[at].ent \in Seq(Entry)
    BY <1>4 DEF Node
  <2>2. \A i \in 1..n : nodes[at].ent[i] \in Entry
    BY <1>5, <2>1
  <2> QED BY <2>2 DEF Entry
<1>7. PICK s : s = ChildIndex(nodes[at], asked)
  OBVIOUS
<1>8. /\ s \in 1..n /\ (s = 1 \/ nodes[at].ent[s].key <= asked)
      /\ \A t \in (s+1)..n : asked < nodes[at].ent[t].key
  BY <1>1, <1>4, <1>5, <1>7, ChildIndexFacts
<1>9. CASE Holds(nodes[at], asked)
  <2>1. PICK i \in 1..n : nodes[at].ent[i].key = asked
    BY <1>5, <1>9 DEF Holds
  <2>2. ~(i \in (s+1)..n)
    BY <1>1, <1>8, <2>1
  <2>3. i <= s
    BY <1>5, <1>8, <2>2
  <2>4. ~(i < s)
    <3>1. ASSUME i < s PROVE FALSE
      <4>1. nodes[at].ent[i].key < nodes[at].ent[s].key
        BY <1>4, <1>5, <1>8, <3>1 DEF SortedNode
      <4>2. nodes[at].ent[s].key <= asked
        BY <1>8, <3>1
      <4> QED BY <1>1, <1>6, <1>8, <2>1, <4>1, <4>2
    <3> QED BY <3>1
  <2>5. i = s
    BY <1>8, <2>3, <2>4
  <2>6. /\ (at - 2) * K + s \in 1..Len(added)
        /\ nodes[at].ent[s] = added[(at - 2) * K + s]
    BY <1>2, <1>5, <1>8 DEF FileInv, IInv, EntriesInOrder
  <2>7. CountOf(asked) = nodes[at].ent[s].val
    BY <2>1, <2>5, <2>6, CountOfAdded
  <2> QED BY <1>7, <1>9, <2>7
<1>10. CASE ~Holds(nodes[at], asked)
  <2>1. ASSUME NEW e \in 1..Len(added), added[e].key = asked PROVE FALSE
    <3>1. PICK p \in 2..(leaves+1) : \E i \in 1..Len(nodes[p].ent) :
              e = (p - 2) * K + i /\ nodes[p].ent[i] = added[e]
      BY EntryInLeaf
    <3>2. PICK i \in 1..Len(nodes[p].ent) : nodes[p].ent[i] = added[e]
      BY <3>1
    <3>3. p # at
      BY <1>10, <2>1, <3>2 DEF Holds
    <3>4. ASSUME NEW q \in 2..(leaves+1), q > 2 PROVE First < FirstKey(nodes[q])
      <4>1. 2 \in 2..(leaves+1)
        BY <1>num
      <4> QED BY <3>4, <4>1, LeavesApart DEF First
    <3>5. ASSUME NEW q \in 2..(leaves+1) PROVE FirstKey(nodes[q]) \in Nat
      <4>1. nodes[q] \in Node
        BY <1>num
      <4> QED BY <4>1, FirstKeyNat
    <3>6. CASE p < at
      <4>1. asked < FirstKey(nodes[at])
        BY <1>2, <2>1, <3>2, <3>6, LeavesApart
      <4>2. at > 2
        BY <1>2, <3>6
      <4>3. First < FirstKey(nodes[at]) /\ FirstKey(nodes[at]) \in Nat /\ First \in Nat
        <5>1. 2 \in 2..(leaves+1)
          BY <1>num
        <5> QED BY <1>2, <3>4, <3>5, <4>2, <5>1 DEF First
      <4> QED BY <1>1, <1>3, <4>1, <4>3
    <3>7. CASE at < p
      <4>1. at + 1 \in 2..(leaves+1) /\ at + 1 > 2 /\ at # Len(nodes)
        BY <1>2, <1>num, <3>7
      <4>2. First < FirstKey(nodes[at + 1]) /\ FirstKey(nodes[at + 1]) \in Nat /\ First \in Nat
        <5>1. 2 \in 2..(leaves+1)
          BY <1>num
        <5> QED BY <3>4, <3>5, <4>1, <5>1 DEF First
      <4>3. asked < FirstKey(nodes[at + 1])
        BY <1>3, <4>1, <4>2
      <4>4. FirstKey(nodes[p]) <= asked
        <5>1. p \in 1..Len(nodes) /\ nodes[p] \in Node
          BY <1>num
        <5>2. SortedNode(nodes[p]) /\ nodes[p].ent \in Seq(Entry)
          BY <5>1, SortedFile DEF FileInv, Node
        <5>3. nodes[p].ent # <<>> /\ 1 \in 1..Len(nodes[p].ent) /\ (i = 1 \/ 1 < i)
          BY <5>2
        <5>4. 1 < i => nodes[p].ent[1].key < nodes[p].ent[i].key
          BY <5>2, <5>3 DEF SortedNode
        <5>5. nodes[p].ent[1].key \in Nat
          BY <3>5, <5>3 DEF FirstKey
        <5>6. FirstKey(nodes[p]) = nodes[p].ent[1].key /\ nodes[p].ent[i].key = asked
          BY <2>1, <3>2, <5>3 DEF FirstKey
        <5> QED BY <1>1, <5>3, <5>4, <5>5, <5>6
      <4>5. FirstKey(nodes[at + 1]) <= FirstKey(nodes[p])
        <5>1. CASE p = at + 1
          BY <3>5, <5>1
        <5>2. CASE p # at + 1
          <6>1. at + 1 < p
            BY <1>2, <3>7, <5>2
          <6>2. FirstKey(nodes[at + 1]) < FirstKey(nodes[p])
            BY <4>1, <6>1, LeavesApart
          <6> QED BY <3>5, <4>1, <6>2
        <5> QED BY <5>1, <5>2
      <4> QED BY <1>1, <3>5, <4>2, <4>3, <4>4, <4>5
    <3> QED BY <1>2, <3>3, <3>6, <3>7
  <2>2. CountOf(asked) = 0
    BY <2>1 DEF CountOf
  <2> QED BY <1>10, <2>2
<1> QED BY <1>9, <1>10

\* A search meets a node without entries only when nothing was added.
LEMMA NothingAdded ==
    ASSUME FileInv, ReaderInv, mode = "searching", nodes[1] # Blank, nodes[at].ent = <<>>
    PROVE  \A k : CountOf(k) = 0
<1>1. at \in 1..Len(nodes)
  BY DEF ReaderInv, TreeTypeOK
<1>2. at \in 2..(leaves+1)
  BY <1>1, LeafOrInner, InnerNode
<1>3. leaves \in Nat /\ leaves >= 1 /\ phase \notin {"adding", "broken"}
  BY FewNodes, RootPhase DEF FileInv
<1>4. leaves = 1 /\ at = 2
  <2>1. ~(leaves > 1)
    BY <1>2, <1>3, SortedFile DEF FileInv
  <2> QED BY <1>2, <1>3, <2>1
<1>5. ASSUME NEW e \in 1..Len(added) PROVE FALSE
  <2>1. PICK p \in 2..(leaves+1) : \E i \in 1..Len(nodes[p].ent) :
            e = (p - 2) * K + i /\ nodes[p].ent[i] = added[e]
    BY EntryInLeaf
  <2>2. p = at
    BY <1>4
  <2>3. 1..Len(nodes[p].ent) = {}
    <3>1. Len(nodes[p].ent) = 0
      BY <2>2
    <3> QED BY <3>1
  <2> QED BY <2>1, <2>3
<1> QED BY <1>5 DEF CountOf

-----------------------------------------------------------------------------
(* Every step keeps the reader's invariant *)

\* Nothing on the stack.
LEMMA NoCalls == <<>> \in Seq(Calls) /\ Len(<<>>) = 0 /\ 1..Len(<<>>) = {}
  OBVIOUS

\* A reader that was not opened has the types of one.
LEMMA ShutTypes ==
    ASSUME ReaderInit, Len(nodes) \in Nat, Len(nodes) >= 1, leaves \in Nat
    PROVE  TreeTypeOK
<1>1. \A d \in 1..Len(todo) : FALSE
  BY NoCalls DEF ReaderInit
<1>2. linked \subseteq cached /\ cached \subseteq 1..Len(nodes) /\ reachable \in 0..leaves
  BY DEF ReaderInit
<1>3. at \in 1..Len(nodes)
  BY DEF ReaderInit
<1> QED BY <1>1, <1>2, <1>3 DEF ReaderInit, TreeTypeOK

\* Before a file is opened, whatever its writer does.
LEMMA ShutInv == FileInv /\ ReaderInit => ReaderInv
<1> SUFFICES ASSUME FileInv, ReaderInit PROVE ReaderInv
  OBVIOUS
<1>1. TreeTypeOK
  BY Numbers, ShutTypes DEF FileInv, IInv
<1>2. ModeInv
  BY NoCalls DEF ReaderInit, ModeInv
<1>3. StackInv /\ CacheInv /\ BlankInv /\ SearchInv /\ ReplyInv
  BY DEF ReaderInit, StackInv, CacheInv, BlankInv, SearchInv, ReplyInv
<1> QED BY <1>1, <1>2, <1>3 DEF ReaderInv

\* What the caching keeps is typed.
LEMMA CacheTypes ==
    ASSUME FileInv, nodes[1] # Blank, NEW stack, NEW begun, NEW done, NEW count,
           CacheOK(stack, begun, done, count)
    PROVE  /\ done \subseteq begun /\ begun \subseteq 1..Len(nodes) /\ count \in 0..leaves
           /\ StackOK(stack, begun) =>
                \A d \in 1..Len(stack) :
                   /\ stack[d].node \in 1..Len(nodes)
                   /\ stack[d].next \in 1..(Len(nodes[stack[d].node].ent) + 1)
                   /\ stack[d].kids \in 0..K
<1>1. done \subseteq begun /\ begun \subseteq 1..Len(nodes) /\ count \in 0..leaves
  BY InnerNode, SeenLeavesFinite DEF CacheOK
<1>2. ASSUME StackOK(stack, begun), NEW d \in 1..Len(stack)
      PROVE  /\ stack[d].node \in 1..Len(nodes)
             /\ stack[d].next \in 1..(Len(nodes[stack[d].node].ent) + 1)
             /\ stack[d].kids \in 0..K
  <2>1. PICK p : p = stack[d].node
    OBVIOUS
  <2>2. /\ p \in Inner /\ stack[d].next \in 1..(Len(nodes[p].ent) + 1)
        /\ stack[d].kids = IF first[p] <= leaves THEN 0 ELSE stack[d].next - 1
    BY <1>2, <2>1 DEF StackOK
  <2>3. Len(nodes[p].ent) \in 1..K /\ p \in 1..Len(nodes)
    BY <2>2, InnerNode
  <2>4. stack[d].kids \in 0..K
    BY <2>2, <2>3, ConstantTypes
  <2> QED BY <2>1, <2>2, <2>3, <2>4
<1> QED BY <1>1, <1>2

\* The root is read.
LEMMA OpenReaderInv ==
    ASSUME FileInv, ReaderInv, UNCHANGED vars, OpenReader
    PROVE  ReaderInv'
<1>1. /\ mode = "shut" /\ phase \in {"closed", "failed"} /\ mode' = "caching"
      /\ todo' = <<Call(1)>> /\ cached' = {1} /\ linked' = {} /\ reachable' = 0
      /\ asked' = NoKey /\ at' = 1 /\ in_cache' = FALSE /\ mapped' = FALSE /\ reads' = 0
      /\ reply' = NoReply
  BY DEF OpenReader, ReaderInv, ModeInv, ReaderInit, searchVars
<1>2. /\ Call(1) \in Calls /\ Call(1).node = 1 /\ Call(1).next = 1 /\ Call(1).kids = 0
  BY DEF Call, Calls
<1>3. todo' \in Seq(Calls) /\ Len(todo') = 1 /\ todo'[1] = Call(1)
  BY <1>1, <1>2
<1>4. /\ Len(nodes) \in Nat /\ Len(nodes) >= 1 /\ leaves \in Nat
      /\ K \in Nat /\ Len(nodes[1].ent) \in Nat
  <2>1. Len(nodes) \in Nat /\ Len(nodes) >= 1 /\ leaves \in Nat /\ K \in Nat /\ nodes \in Seq(Node)
    BY Numbers DEF FileInv, IInv, TypeOK
  <2>2. nodes[1] \in Node
    BY <2>1
  <2> QED BY <2>1, <2>2 DEF Node
<1>5. TreeTypeOK'
  <2>1. ASSUME NEW d \in 1..Len(todo')
        PROVE  /\ todo'[d].node \in 1..Len(nodes)
               /\ todo'[d].next \in 1..(Len(nodes[todo'[d].node].ent) + 1)
               /\ todo'[d].kids \in 0..K
    <3>1. d = 1
      BY <1>3
    <3>2. 1 \in 1..Len(nodes) /\ 1 \in 1..(Len(nodes[1].ent) + 1) /\ 0 \in 0..K
      BY <1>4
    <3> QED BY <1>2, <1>3, <3>1, <3>2
  <2>2. linked' \subseteq cached' /\ cached' \subseteq 1..Len(nodes) /\ reachable' \in 0..leaves
    BY <1>1, <1>4
  <2>3. at' \in 1..Len(nodes) /\ reads' \in Nat
    BY <1>1, <1>4
  <2>4. mode' \in {"shut", "caching", "open", "searching", "refused", "aborted"}
    BY <1>1
  <2>5. asked' \in Keys \union {NoKey} /\ in_cache' \in BOOLEAN /\ mapped' \in BOOLEAN
    BY <1>1
  <2>6. (reply \in Counts \union {0, NoReply, Failed})'
    BY <1>1
  <2> QED BY <2>1, <2>2, <2>3, <2>4, <2>5, <2>6, FileStays DEF TreeTypeOK
<1>6. ModeInv'
  BY <1>1, <1>3, FileStays DEF ModeInv
<1>7. CASE nodes[1] # Blank
  <2>1. StackOK(todo', cached')
    BY <1>1, <1>2, <1>3, <1>4 DEF StackOK, Inner
  <2>2. ASSUME NEW i \in Places(1) PROVE ~Turn(todo', 1, i)
    BY <1>2, <1>3 DEF Turn, Places
  <2>3. Seen(todo', cached') = {}
    BY <1>1, <2>2 DEF Seen
  <2>4. SeenLeaves(todo', cached') = {}
    BY <2>3 DEF SeenLeaves
  <2>5. CacheOK(todo', cached', linked', reachable')
    <3>1. 1 \notin (leaves+2)..Len(nodes)
      BY <1>4
    <3>2. OnStack(todo', 1)
      BY <1>2, <1>3 DEF OnStack
    <3>3. {x \in cached' : ~OnStack(todo', x) /\ first[x] > leaves} = {}
      BY <1>1, <3>2
    <3>4. Cardinality({}) = 0
      BY FS_EmptySet
    <3> QED BY <1>1, <2>3, <2>4, <3>1, <3>3, <3>4 DEF CacheOK, Inner
  <2> QED BY <1>1, <1>5, <1>6, <1>7, <2>1, <2>5, FileStays
          DEF ReaderInv, StackInv, CacheInv, BlankInv, SearchInv, ReplyInv
<1>8. CASE nodes[1] = Blank
  BY <1>1, <1>5, <1>6, <1>8, FileStays
     DEF ReaderInv, StackInv, CacheInv, BlankInv, SearchInv, ReplyInv
<1> QED BY <1>7, <1>8

\* The cache after a step of the caching, in a file with a root.
LEMMA CachingStepInv ==
    ASSUME FileInv, ReaderInv, UNCHANGED vars, nodes[1] # Blank, mode = "caching",
           UNCHANGED searchVars, todo' \in Seq(Calls),
           CacheOK(todo', cached', linked', reachable'),
           \/ mode' = "caching" /\ StackOK(todo', cached')
           \/ mode' = "open" /\ todo' = <<>>
    PROVE  ReaderInv'
<1>1. phase \in {"closed", "failed"}
  BY DEF ReaderInv, ModeInv
<1>2. /\ asked' = asked /\ at' = at /\ in_cache' = in_cache /\ mapped' = mapped
      /\ reads' = reads /\ reply' = reply
  BY DEF searchVars
<1>3. /\ linked' \subseteq cached' /\ cached' \subseteq 1..Len(nodes) /\ reachable' \in 0..leaves
      /\ \A d \in 1..Len(todo') :
           /\ todo'[d].node \in 1..Len(nodes)
           /\ todo'[d].next \in 1..(Len(nodes[todo'[d].node].ent) + 1)
           /\ todo'[d].kids \in 0..K
  BY CacheTypes
<1>4. TreeTypeOK'
  BY <1>2, <1>3, FileStays DEF ReaderInv, TreeTypeOK
<1>5. ModeInv'
  BY <1>1, FileStays DEF ModeInv
<1>6. StackInv'
  BY FileStays DEF StackInv
<1>7. CacheInv'
  BY FileStays DEF CacheInv
<1>8. BlankInv' /\ SearchInv'
  BY FileStays DEF BlankInv, SearchInv
<1>9. ReplyInv'
  <2>1. reads = 0 /\ reply = -1
    BY DEF ReaderInv, ReplyInv, NoReply
  <2> QED BY <1>2, <2>1 DEF ReplyInv, NoReply
<1> QED BY <1>4, <1>5, <1>6, <1>7, <1>8, <1>9 DEF ReaderInv

\* A child is counted or cached.
LEMMA CacheChildInv ==
    ASSUME FileInv, ReaderInv, UNCHANGED vars, CacheChild
    PROVE  ReaderInv'
<1>1. mode = "caching" /\ mode' = "caching" /\ UNCHANGED searchVars
  BY DEF CacheChild
<1>2. CASE nodes[1] # Blank
  <2>1. /\ StackOK(todo', cached') /\ CacheOK(todo', cached', linked', reachable')
        /\ todo' \in Seq(Calls)
    BY <1>2, CountLeaf, CacheInner
  <2> QED BY <1>1, <1>2, <2>1, CachingStepInv
<1>3. CASE nodes[1] = Blank
  <2>1. todo = <<Call(1)>>
    BY <1>1, <1>3 DEF ReaderInv, BlankInv
  <2>2. Top.node = 1 /\ Top.next = 1
    BY <2>1 DEF Top, Call
  <2>3. Len(nodes[1].ent) = 0
    BY <1>3 DEF Blank
  <2> QED BY <2>2, <2>3 DEF CacheChild
<1> QED BY <1>2, <1>3

\* A file without a root is opened at once: its one call finds no child.
LEMMA BlankOpened ==
    ASSUME FileInv, ReaderInv, nodes[1] = Blank, CacheNodeDone
    PROVE  mode' = "open" /\ todo' = <<>> /\ linked' \subseteq {1}
<1>1. mode = "caching"
  BY DEF CacheNodeDone
<1>2. todo = <<Call(1)>> /\ linked \subseteq {1}
  BY <1>1 DEF ReaderInv, BlankInv
<1>3. Len(todo) = 1 /\ Top.node = 1 /\ Top.kids = 0
  BY <1>2 DEF Top, Call
<1>4. Below = <<>>
  <2>1. SubSeq(todo, 1, 0) = <<>>
    BY <1>2
  <2> QED BY <1>3, <2>1 DEF Below
<1>5. Len(nodes[1].ent) = 0
  BY DEF Blank
<1> QED BY <1>2, <1>3, <1>4, <1>5 DEF CacheNodeDone

\* The call on a node is over.
LEMMA CacheNodeDoneInv ==
    ASSUME FileInv, ReaderInv, UNCHANGED vars, CacheNodeDone
    PROVE  ReaderInv'
<1>1. mode = "caching" /\ UNCHANGED searchVars /\ cached' = cached /\ reachable' = reachable
  BY DEF CacheNodeDone
<1>2. CASE nodes[1] # Blank
  <2>1. CASE Below = <<>>
    <3>1. mode' = "open" /\ todo' = <<>> /\ CacheOK(todo', cached', linked', reachable')
      BY <1>2, <2>1, LastCallOver
    <3>2. todo' \in Seq(Calls)
      BY <3>1, NoCalls
    <3> QED BY <1>1, <1>2, <3>1, <3>2, CachingStepInv
  <2>2. CASE Below # <<>>
    <3>1. /\ mode' = "caching" /\ todo' \in Seq(Calls) /\ StackOK(todo', cached')
          /\ CacheOK(todo', cached', linked', reachable')
      BY <1>2, <2>2, CallReturns
    <3> QED BY <1>1, <1>2, <3>1, CachingStepInv
  <2> QED BY <2>1, <2>2
<1>3. CASE nodes[1] = Blank
  <2>1. mode' = "open" /\ todo' = <<>> /\ linked' \subseteq {1}
    BY <1>3, BlankOpened
  <2>2. cached' = {1} /\ reachable' = 0
    BY <1>1, <1>3 DEF ReaderInv, BlankInv
  <2>3. /\ asked' = asked /\ at' = at /\ in_cache' = in_cache /\ mapped' = mapped
        /\ reads' = reads /\ reply' = reply
    BY <1>1 DEF searchVars
  <2>4. TreeTypeOK'
    <3>1. \A d \in 1..Len(todo') : FALSE
      BY <2>1, NoCalls
    <3>2. 1 \in 1..Len(nodes) /\ 0 \in 0..leaves
      BY Numbers DEF FileInv, IInv
    <3> QED BY <2>1, <2>2, <2>3, <3>1, <3>2, FileStays DEF ReaderInv, TreeTypeOK
  <2>5. ModeInv'
    BY <1>1, <2>1, NoCalls, FileStays DEF ReaderInv, ModeInv
  <2>6. StackInv' /\ CacheInv'
    BY <1>3, FileStays DEF StackInv, CacheInv
  <2>7. BlankInv' /\ SearchInv'
    BY <2>1, <2>2 DEF BlankInv, SearchInv
  <2>8. ReplyInv'
    <3>1. reads = 0 /\ reply = -1
      BY <1>1 DEF ReaderInv, ReplyInv, NoReply
    <3> QED BY <2>1, <2>3, <3>1 DEF ReplyInv
  <2> QED BY <2>4, <2>5, <2>6, <2>7, <2>8 DEF ReaderInv
<1> QED BY <1>2, <1>3

\* The caching gives up.
LEMMA CacheFailsInv ==
    ASSUME FileInv, ReaderInv, UNCHANGED vars, CacheFails
    PROVE  ReaderInv'
<1>1. /\ mode = "caching" /\ mode' = "refused" /\ todo' = <<>> /\ cached' = {} /\ linked' = {}
      /\ reachable' = reachable /\ asked' = asked /\ at' = at /\ in_cache' = in_cache
      /\ mapped' = mapped /\ reads' = reads /\ reply' = reply
  BY DEF CacheFails, searchVars
<1>2. TreeTypeOK'
  <2>1. \A d \in 1..Len(todo') : FALSE
    BY <1>1, NoCalls
  <2> QED BY <1>1, <2>1, FileStays DEF ReaderInv, TreeTypeOK
<1>3. ModeInv'
  BY <1>1, NoCalls, FileStays DEF ReaderInv, ModeInv
<1>4. BlankInv'
  BY <1>1, FileStays DEF ReaderInv, BlankInv
<1>5. StackInv' /\ CacheInv' /\ SearchInv' /\ ReplyInv'
  BY <1>1 DEF StackInv, CacheInv, SearchInv, ReplyInv
<1> QED BY <1>2, <1>3, <1>4, <1>5 DEF ReaderInv

-----------------------------------------------------------------------------
(* The steps of a search *)

\* A node with entries is met in a file with a root only.
LEMMA SearchHasRoot ==
    ASSUME ReaderInv, mode = "searching", nodes[at].ent # <<>>
    PROVE  nodes[1] # Blank
  BY DEF ReaderInv, SearchInv, Blank

\* A search leaves the cache as it is: what is left to show is about the search.
LEMMA SearchStepInv ==
    ASSUME FileInv, ReaderInv, UNCHANGED vars, UNCHANGED cacheVars,
           mode \in {"open", "searching"}, mode' \in {"open", "searching", "aborted"},
           at' \in 1..Len(nodes), asked' \in Keys \union {NoKey},
           in_cache' \in BOOLEAN, mapped' \in BOOLEAN, reads' \in Nat,
           reply' \in Counts \union {0, NoReply, Failed},
           SearchInv', ReplyInv'
    PROVE  ReaderInv'
<1>1. todo' = todo /\ cached' = cached /\ linked' = linked /\ reachable' = reachable
  BY DEF cacheVars
<1>2. todo = <<>>
  BY DEF ReaderInv, ModeInv
<1>3. TreeTypeOK'
  <2>1. \A d \in 1..Len(todo') : FALSE
    BY <1>1, <1>2, NoCalls
  <2>2. mode' \in {"shut", "caching", "open", "searching", "refused", "aborted"}
    OBVIOUS
  <2> QED BY <1>1, <2>1, <2>2, FileStays DEF ReaderInv, TreeTypeOK
<1>4. ModeInv'
  BY <1>1, <1>2, NoCalls, FileStays DEF ReaderInv, ModeInv
<1>5. StackInv'
  BY DEF StackInv
<1>6. CacheInv'
  BY <1>1, FileStays DEF ReaderInv, CacheInv
<1>7. BlankInv'
  BY <1>1, FileStays DEF ReaderInv, BlankInv
<1> QED BY <1>3, <1>4, <1>5, <1>6, <1>7 DEF ReaderInv

\* What a search starts from, whatever node it is at.
LEMMA SearchTypes ==
    ASSUME ReaderInv
    PROVE  /\ at \in 1..Len(nodes) /\ asked \in Keys \union {NoKey}
           /\ in_cache \in BOOLEAN /\ mapped \in BOOLEAN /\ reads \in Nat
           /\ reply \in Counts \union {0, NoReply, Failed}
  BY DEF ReaderInv, TreeTypeOK

\* It starts at the root, which is cached even when it is blank.
LEMMA SearchBeginInv ==
    ASSUME FileInv, ReaderInv, UNCHANGED vars, NEW k \in Keys, SearchBegin(k)
    PROVE  ReaderInv'
<1>1. /\ mode = "open" /\ mode' = "searching" /\ asked' = k /\ at' = 1 /\ in_cache' = TRUE
      /\ mapped' \in BOOLEAN /\ reads' = 0 /\ reply' = NoReply /\ UNCHANGED cacheVars
  BY DEF SearchBegin
<1>2. 1 \in cached
  <2>1. CASE nodes[1] = Blank
    BY <1>1, <2>1 DEF ReaderInv, BlankInv
  <2>2. CASE nodes[1] # Blank
    BY <1>1, <2>2 DEF ReaderInv, CacheInv, CacheOK
  <2> QED BY <2>1, <2>2
<1>3. SearchInv'
  BY <1>1, <1>2 DEF SearchInv, cacheVars
<1>4. ReplyInv'
  BY <1>1 DEF ReplyInv
<1>5. at' \in 1..Len(nodes)
  BY <1>1, Numbers DEF FileInv, IInv
<1>6. reads' \in Nat /\ asked' \in Keys \union {NoKey} /\ in_cache' \in BOOLEAN
  BY <1>1
<1>7. reply' \in Counts \union {0, NoReply, Failed}
  BY <1>1
<1>8. mode \in {"open", "searching"} /\ mode' \in {"open", "searching", "aborted"}
  BY <1>1
<1> QED BY <1>1, <1>3, <1>4, <1>5, <1>6, <1>7, <1>8, SearchStepInv

\* It stops at a node without entries.
LEMMA SearchAbortsInv ==
    ASSUME FileInv, ReaderInv, UNCHANGED vars, SearchAborts
    PROVE  ReaderInv'
<1>1. /\ mode = "searching" /\ mode' = "aborted" /\ UNCHANGED cacheVars
      /\ asked' = asked /\ at' = at /\ in_cache' = in_cache /\ mapped' = mapped
      /\ reads' = reads /\ reply' = reply
  BY DEF SearchAborts, searchVars
<1>2. SearchInv' /\ ReplyInv'
  BY <1>1 DEF SearchInv, ReplyInv
<1>3. mode \in {"open", "searching"} /\ mode' \in {"open", "searching", "aborted"}
  BY <1>1
<1> QED BY <1>1, <1>2, <1>3, SearchTypes, SearchStepInv

\* The child it goes on to: from a linked node to a cached one, from any other node with
\* children to a leaf.
LEMMA DescendsTo ==
    ASSUME FileInv, ReaderInv, UNCHANGED vars, mode = "searching", Descend,
           ~nodes[at].leaf, nodes[at].ent # <<>>
    PROVE  /\ nodes[1] # Blank /\ in_cache /\ at \in cached /\ reads = 0
           /\ at' \in 2..Len(nodes)
           /\ at \in linked => at' \in cached
           /\ at \notin linked => nodes[at'].leaf
           /\ FirstKey(nodes[at']) = First \/ FirstKey(nodes[at']) <= asked
           /\ \/ at' = Len(nodes)
              \/ FirstKey(nodes[at' + 1]) = First
              \/ asked < FirstKey(nodes[at' + 1])
<1>1. nodes[1] # Blank
  BY SearchHasRoot
<1>2. in_cache /\ at \in cached /\ reads = 0
  BY DEF ReaderInv, SearchInv
<1>3. PICK s : s = ChildIndex(nodes[at], asked)
  OBVIOUS
<1>4. PICK q : q = Child(at, s)
  OBVIOUS
<1>5. at' = q
  BY <1>3, <1>4 DEF Descend
<1>6. /\ at \in Inner /\ s \in Places(at) /\ q = first[at] + s /\ q \in 2..Len(nodes)
      /\ FirstKey(nodes[q]) = First \/ FirstKey(nodes[q]) <= asked
      /\ \/ q = Len(nodes)
         \/ FirstKey(nodes[q + 1]) = First
         \/ asked < FirstKey(nodes[q + 1])
  BY <1>1, <1>3, <1>4, DescendFacts
<1>7. CacheOK(todo, cached, linked, reachable) /\ todo = <<>>
  BY <1>1 DEF ReaderInv, CacheInv, ModeInv
<1>8. ~OnStack(todo, at) /\ Turn(todo, at, s)
  BY <1>7, NoCalls DEF OnStack, Turn
<1>9. at \in linked <=> first[at] > leaves
  BY <1>2, <1>7, <1>8 DEF CacheOK
<1>10. q \in Seen(todo, cached)
  BY <1>2, <1>6, <1>8 DEF Seen
<1>num. /\ leaves \in Nat /\ Len(nodes) \in Nat /\ first[at] \in Nat /\ s \in Nat
        /\ s <= Len(nodes[at].ent) /\ Len(nodes[at].ent) \in Nat
        /\ first[at] <= leaves => first[at] + Len(nodes[at].ent) <= leaves + 1
  <2>1. leaves \in Nat /\ Len(nodes) \in Nat
    BY <1>1, FewNodes
  <2>2. /\ first[at] \in Nat /\ Len(nodes[at].ent) \in Nat
        /\ first[at] <= leaves => first[at] + Len(nodes[at].ent) <= leaves + 1
    BY <1>1, <1>6, InnerNode, ConstantTypes
  <2> QED BY <1>6, <2>1, <2>2 DEF Places
<1>11. at \in linked => q \in cached
  <2> SUFFICES ASSUME at \in linked PROVE q \in cached
    OBVIOUS
  <2>1. q \in (leaves+2)..Len(nodes)
    <3>1. first[at] > leaves /\ s >= 1
      BY <1>6, <1>9 DEF Places
    <3> QED BY <1>6, <1>num, <3>1
  <2> QED BY <1>7, <1>10, <2>1 DEF CacheOK
<1>12. at \notin linked => nodes[q].leaf
  <2> SUFFICES ASSUME at \notin linked PROVE nodes[q].leaf
    OBVIOUS
  <2>1. first[at] + Len(nodes[at].ent) <= leaves + 1
    BY <1>9, <1>num
  <2>2. q \in 2..(leaves+1)
    BY <1>6, <1>num, <2>1
  <2>3. q \in 1..Len(nodes)
    BY <1>6
  <2> QED BY <2>2, <2>3, LeafOrInner
<1> QED BY <1>1, <1>2, <1>5, <1>6, <1>11, <1>12

\* From a cached node to a cached node.
LEMMA SearchCachedInv ==
    ASSUME FileInv, ReaderInv, UNCHANGED vars, SearchCached
    PROVE  ReaderInv'
<1>1. /\ mode = "searching" /\ mode' = mode /\ asked' = asked /\ in_cache' = in_cache
      /\ mapped' = mapped /\ reads' = reads /\ reply' = reply /\ UNCHANGED cacheVars
      /\ ~nodes[at].leaf /\ nodes[at].ent # <<>> /\ at \in linked /\ Descend
  BY DEF SearchCached
<1>2. /\ nodes[1] # Blank /\ in_cache /\ reads = 0 /\ at' \in 2..Len(nodes) /\ at' \in cached
      /\ FirstKey(nodes[at']) = First \/ FirstKey(nodes[at']) <= asked
      /\ \/ at' = Len(nodes)
         \/ FirstKey(nodes[at' + 1]) = First
         \/ asked < FirstKey(nodes[at' + 1])
  BY <1>1, DescendsTo
<1>3. SearchInv'
  <2>1. asked \in Keys
    BY <1>1 DEF ReaderInv, SearchInv
  <2>2. nodes' = nodes /\ First' = First /\ cached' = cached
    BY FileStays, <1>1 DEF cacheVars
  <2> QED BY <1>1, <1>2, <2>1, <2>2 DEF SearchInv, FirstKey
<1>4. ReplyInv'
  BY <1>1 DEF ReplyInv
<1>5. mode \in {"open", "searching"} /\ mode' \in {"open", "searching", "aborted"}
      /\ at' \in 1..Len(nodes)
  BY <1>1, <1>2
<1> QED BY <1>1, <1>3, <1>4, <1>5, SearchTypes, SearchStepInv

\* From the last cached node to a leaf.
LEMMA SearchLeafInv ==
    ASSUME FileInv, ReaderInv, UNCHANGED vars, SearchReads \/ SearchMaps
    PROVE  ReaderInv'
<1>1. /\ mode = "searching" /\ mode' = mode /\ asked' = asked /\ in_cache' = FALSE
      /\ mapped' = mapped /\ reply' = reply /\ UNCHANGED cacheVars
      /\ reads' = IF mapped THEN reads ELSE reads + 1
      /\ ~nodes[at].leaf /\ nodes[at].ent # <<>> /\ Descend
      /\ ~(in_cache /\ at \in linked)
  BY DEF SearchReads, SearchMaps, BelowCache
<1>2. /\ nodes[1] # Blank /\ in_cache /\ reads = 0 /\ at' \in 2..Len(nodes)
      /\ at \notin linked => nodes[at'].leaf
      /\ FirstKey(nodes[at']) = First \/ FirstKey(nodes[at']) <= asked
      /\ \/ at' = Len(nodes)
         \/ FirstKey(nodes[at' + 1]) = First
         \/ asked < FirstKey(nodes[at' + 1])
  BY <1>1, DescendsTo
<1>3. nodes[at'].leaf
  BY <1>1, <1>2
<1>4. SearchInv'
  <2>1. asked \in Keys
    BY <1>1 DEF ReaderInv, SearchInv
  <2>2. nodes' = nodes /\ First' = First
    BY FileStays
  <2>3. reads' = IF mapped' THEN 0 ELSE 1
    BY <1>1, <1>2
  <2> QED BY <1>1, <1>2, <1>3, <2>1, <2>2, <2>3 DEF SearchInv, FirstKey
<1>5. ReplyInv'
  BY <1>1 DEF ReplyInv
<1>6. /\ mode \in {"open", "searching"} /\ mode' \in {"open", "searching", "aborted"}
      /\ in_cache' \in BOOLEAN
  BY <1>1
<1>7. at' \in 1..Len(nodes) /\ reads' \in Nat
  BY <1>1, <1>2
<1> QED BY <1>1, <1>4, <1>5, <1>6, <1>7, SearchTypes, SearchStepInv

\* The leaf could not be read.
LEMMA SearchFailsInv ==
    ASSUME FileInv, ReaderInv, UNCHANGED vars, SearchFails
    PROVE  ReaderInv'
<1>1. /\ mode = "searching" /\ mode' = "open" /\ asked' = asked /\ at' = at
      /\ in_cache' = in_cache /\ mapped' = mapped /\ reads' = reads /\ reply' = Failed
      /\ UNCHANGED cacheVars /\ ~nodes[at].leaf
  BY DEF SearchFails, BelowCache
<1>2. reads = 0
  BY <1>1 DEF ReaderInv, SearchInv
<1>3. SearchInv' /\ ReplyInv'
  BY <1>1, <1>2 DEF SearchInv, ReplyInv, Failed
<1>4. /\ mode \in {"open", "searching"} /\ mode' \in {"open", "searching", "aborted"}
      /\ reply' \in Counts \union {0, NoReply, Failed}
  BY <1>1
<1> QED BY <1>1, <1>3, <1>4, SearchTypes, SearchStepInv

\* What a leaf holds was added.
LEMMA LeafCounts ==
    ASSUME FileInv, NEW p \in 2..(leaves+1), NEW s \in 1..Len(nodes[p].ent)
    PROVE  nodes[p].ent[s].val \in Counts
<1>1. /\ (p - 2) * K + s \in 1..Len(added)
      /\ nodes[p].ent[s] = added[(p - 2) * K + s]
  BY DEF FileInv, IInv, EntriesInOrder
<1>2. nodes[p].ent[s] \in Entries
  BY <1>1 DEF FileInv, ShapeInv, AddedFrom
<1> QED BY <1>2 DEF Counts

\* The leaf was searched.
LEMMA SearchEndsInv ==
    ASSUME FileInv, ReaderInv, UNCHANGED vars, SearchEnds
    PROVE  ReaderInv'
<1>1. /\ mode = "searching" /\ mode' = "open" /\ asked' = asked /\ at' = at
      /\ in_cache' = in_cache /\ mapped' = mapped /\ reads' = reads /\ UNCHANGED cacheVars
      /\ nodes[at].leaf /\ nodes[at].ent # <<>>
      /\ reply' = IF Holds(nodes[at], asked)
                  THEN nodes[at].ent[ChildIndex(nodes[at], asked)].val ELSE 0
  BY DEF SearchEnds
<1>2. nodes[1] # Blank
  BY <1>1, SearchHasRoot
<1>3. at \in 1..Len(nodes) /\ at \in 2..(leaves+1)
  BY <1>1, SearchTypes, LeafOrInner
<1>4. ~in_cache
  <2>1. cached \subseteq Inner
    BY <1>1, <1>2 DEF ReaderInv, CacheInv, CacheOK
  <2>2. at \notin cached
    BY <1>1, <1>3, <2>1, LeafOrInner
  <2> QED BY <1>1, <2>2 DEF ReaderInv, SearchInv
<1>5. reads = IF mapped THEN 0 ELSE 1
  BY <1>1, <1>4 DEF ReaderInv, SearchInv
<1>6. SearchInv' /\ ReplyInv'
  BY <1>1, <1>5 DEF SearchInv, ReplyInv
<1>7. reply' \in Counts \union {0, NoReply, Failed}
  <2>1. PICK s : s = ChildIndex(nodes[at], asked)
    OBVIOUS
  <2>2. nodes[at] \in Node /\ SortedNode(nodes[at]) /\ asked \in Nat
    <3>1. nodes \in Seq(Node)
      BY DEF FileInv, IInv, TypeOK
    <3>2. SortedNode(nodes[at])
      BY <1>3, SortedFile DEF FileInv
    <3>3. asked \in Nat
      BY <1>1, WriteAssumption DEF ReaderInv, SearchInv
    <3> QED BY <1>3, <3>1, <3>2, <3>3
  <2>3. s \in 1..Len(nodes[at].ent)
    BY <1>1, <2>1, <2>2, ChildIndexFacts
  <2>4. nodes[at].ent[s].val \in Counts
    BY <1>3, <2>3, LeafCounts
  <2> QED BY <1>1, <2>1, <2>4
<1>8. mode \in {"open", "searching"} /\ mode' \in {"open", "searching", "aborted"}
  BY <1>1
<1> QED BY <1>1, <1>6, <1>7, <1>8, SearchTypes, SearchStepInv

-----------------------------------------------------------------------------
(* The theorems about the reader *)

\* Every step of the reader keeps the invariant.
LEMMA ReaderStepInv == FileInv /\ ReaderInv /\ UNCHANGED vars /\ ReaderNext => ReaderInv'
<1> SUFFICES ASSUME FileInv, ReaderInv, UNCHANGED vars, ReaderNext PROVE ReaderInv'
  OBVIOUS
<1>1. CASE OpenReader
  BY <1>1, OpenReaderInv
<1>2. CASE CacheChild
  BY <1>2, CacheChildInv
<1>3. CASE CacheNodeDone
  BY <1>3, CacheNodeDoneInv
<1>4. CASE CacheFails
  BY <1>4, CacheFailsInv
<1>5. ASSUME NEW k \in Keys, SearchBegin(k) PROVE ReaderInv'
  BY <1>5, SearchBeginInv
<1>6. CASE SearchStep
  BY <1>6, SearchAbortsInv, SearchCachedInv, SearchLeafInv, SearchFailsInv, SearchEndsInv
     DEF SearchStep
<1> QED BY <1>1, <1>2, <1>3, <1>4, <1>5, <1>6 DEF ReaderNext

\* The writer runs only while no reader has the file.
LEMMA WriterBeforeReader == ModeInv /\ Next => ReaderInit
<1> SUFFICES ASSUME ModeInv, Next PROVE ReaderInit
  OBVIOUS
<1>1. phase \notin {"closed", "failed"}
  BY DEF Next, AddEntry, AddEntryFails, FinalizeBegin, CloseStep, CheckLastChildGen,
         WriteParentsBegin, WriteParent, WriteParentsEnd, WriteRoot, Close, FinalizeFails, Crash
<1> QED BY <1>1 DEF ModeInv

\* Any step, of the writer or the reader, keeps the invariants of both.
LEMMA TreeInvHolds ==
    /\ TreeInit => FileInv /\ ReaderInv
    /\ FileInv /\ ReaderInv /\ [TreeNext]_treeVars => FileInv' /\ ReaderInv'
<1>1. TreeInit => FileInv /\ ReaderInv
  BY FileInvHolds, ShutInv DEF TreeInit
<1>2. ASSUME FileInv, ReaderInv, [TreeNext]_treeVars PROVE FileInv' /\ ReaderInv'
  <2>1. FileInv'
    BY <1>2, FileInvHolds DEF TreeNext, treeVars
  <2>2. CASE Next /\ UNCHANGED readerVars
    <3>1. ReaderInit
      BY <1>2, <2>2, WriterBeforeReader DEF ReaderInv
    <3>2. ReaderInit'
      BY <2>2, <3>1 DEF ReaderInit, readerVars
    <3>3. FileInv' /\ ReaderInit' => ReaderInv'
      BY ShutInv, PTL
    <3> QED BY <2>1, <3>2, <3>3
  <2>3. CASE ReaderNext /\ UNCHANGED vars
    <3>1. ReaderInv'
      BY <1>2, <2>3, ReaderStepInv
    <3> QED BY <2>1, <3>1
  <2>4. CASE UNCHANGED treeVars
    <3>1. UNCHANGED vars /\ UNCHANGED readerVars
      BY <2>4 DEF treeVars
    <3>2. TreeTypeOK'
      BY <1>2, <3>1, FileStays DEF ReaderInv, TreeTypeOK, readerVars
    <3>3. ModeInv'
      BY <1>2, <3>1, FileStays DEF ReaderInv, ModeInv, ReaderInit, readerVars
    <3>4. StackInv' /\ CacheInv'
      BY <1>2, <3>1, FileStays DEF ReaderInv, StackInv, CacheInv, readerVars
    <3>5. BlankInv' /\ ReplyInv'
      BY <1>2, <3>1, FileStays DEF ReaderInv, BlankInv, ReplyInv, readerVars, Call
    <3>6. SearchInv'
      BY <1>2, <3>1, FileStays DEF ReaderInv, SearchInv, readerVars, FirstKey
    <3> QED BY <2>1, <3>2, <3>3, <3>4, <3>5, <3>6 DEF ReaderInv
  <2> QED BY <1>2, <2>1, <2>2, <2>3, <2>4 DEF TreeNext
<1> QED BY <1>1, <1>2

\* The invariants of the file and of its reader hold in every behaviour.
LEMMA TreeInvariant == TreeSpec => [](FileInv /\ ReaderInv)
<1>1. TreeInit => FileInv /\ ReaderInv
  BY TreeInvHolds
<1>2. (FileInv /\ ReaderInv) /\ [TreeNext]_treeVars => (FileInv /\ ReaderInv)'
  BY TreeInvHolds
<1> QED BY <1>1, <1>2, PTL DEF TreeSpec

\* Every variable of the reader has its type: in particular the stack of
\* sfbti_tar_cache_node_ab1 and the node of sfbti_tar_search never leave the file.
THEOREM ReaderTypeOK == TreeSpec => []TreeTypeOK
<1>1. FileInv /\ ReaderInv => TreeTypeOK
  BY DEF ReaderInv
<1> QED BY <1>1, TreeInvariant, PTL

\* A lookup reads one node of the file, or none by the mapping, and it is a leaf.
THEOREM TreeOneRead == TreeSpec => []OneReadPerLookup
<1>1. FileInv /\ ReaderInv => OneReadPerLookup
  <2> SUFFICES ASSUME FileInv, ReaderInv PROVE OneReadPerLookup
    OBVIOUS
  <2>1. mode \in {"open", "searching"} => reads <= 1
    BY DEF ReaderInv, TreeTypeOK, SearchInv, ReplyInv
  <2>2. mode = "open" /\ reply >= 0 => reads = (IF mapped THEN 0 ELSE 1)
    BY DEF ReaderInv, ReplyInv
  <2>3. mode = "searching" /\ ~in_cache => nodes[at].leaf
    BY DEF ReaderInv, SearchInv
  <2> QED BY <2>1, <2>2, <2>3 DEF OneReadPerLookup
<1> QED BY <1>1, TreeInvariant, PTL

\* A cache that is complete: a node above the leaves that is not cached would have a
\* parent that is not, and so on up to the root.
LEMMA AllCached ==
    ASSUME FileInv, ReaderInv, mode \in {"open", "searching"}, nodes[1] # Blank
    PROVE  cached = Inner
<1>1. todo = <<>> /\ CacheOK(todo, cached, linked, reachable)
  BY DEF ReaderInv, ModeInv, CacheInv
<1>2. 1 \in cached /\ cached \subseteq Inner
  BY <1>1 DEF CacheOK
<1>num. Len(nodes) \in Nat /\ leaves \in Nat
  BY FewNodes
<1> DEFINE Missing == Inner \ cached
           Above == {Len(nodes) - q : q \in Missing}
<1>3. ASSUME NEW x \in Missing PROVE FALSE
  <2>1. \A q \in Missing : q \in (leaves+2)..Len(nodes) /\ q \in Nat /\ Len(nodes) - q \in Nat
    BY <1>2, <1>num DEF Inner
  <2>2. Above \in SUBSET Nat /\ Len(nodes) - x \in Above
    BY <2>1
  <2>3. PICK m \in Above : \A a \in Above : m <= a
    <3> HIDE DEF Above
    <3> QED BY <2>2, LeastElement
  <2>4. PICK q \in Missing : m = Len(nodes) - q
    OBVIOUS
  <2>5. \A y \in Missing : y <= q
    <3> SUFFICES ASSUME NEW y \in Missing PROVE y <= q
      OBVIOUS
    <3>1. Len(nodes) - q <= Len(nodes) - y
      BY <2>3, <2>4
    <3>2. y \in Nat /\ q \in Nat
      BY <2>1
    <3> QED BY <1>num, <3>1, <3>2
  <2>6. q \in (leaves+2)..Len(nodes) /\ q \in 2..Len(nodes) /\ q \notin cached
    BY <1>num, <2>1
  <2>7. PICK p \in Inner : \E s \in Places(p) : q = first[p] + s
    BY <2>6, HasParent
  <2>8. PICK s \in Places(p) : q = first[p] + s
    BY <2>7
  <2>9. p \in cached
    <3>1. CASE p = 1
      BY <1>2, <3>1
    <3>2. CASE p # 1
      <4>1. q < p /\ p \in Nat
        BY <2>8, <3>2, InnerNode
      <4>2. ~(p <= q)
        BY <2>6, <4>1
      <4> QED BY <2>5, <4>2
    <3> QED BY <3>1, <3>2
  <2>10. Turn(todo, p, s)
    BY <1>1, NoCalls DEF Turn
  <2>11. q \in Seen(todo, cached)
    BY <2>6, <2>8, <2>9, <2>10 DEF Seen
  <2> QED BY <1>1, <2>6, <2>11 DEF CacheOK
<1> QED BY <1>2, <1>3

\* Opening caches every node above the leaves, links those whose children are no leaves,
\* and counts the leaves, which is what a random read draws from.
THEOREM TreeCacheComplete == TreeSpec => []CacheComplete
<1>1. FileInv /\ ReaderInv => CacheComplete
  <2> SUFFICES ASSUME FileInv, ReaderInv, mode \in {"open", "searching"}, nodes[1] # Blank
               PROVE  /\ cached = {p \in 1..Len(nodes) : ~nodes[p].leaf}
                      /\ linked = {p \in cached : ~nodes[Child(p, 1)].leaf}
                      /\ reachable = leaves
                      /\ \A leafno \in 0..(reachable - 1) : nodes[RandomLeaf(leafno)].leaf
    BY DEF CacheComplete
  <2>num. Len(nodes) \in Nat /\ leaves \in Nat /\ leaves >= 1 /\ leaves + 1 <= Len(nodes)
    BY FewNodes
  <2>1. todo = <<>> /\ CacheOK(todo, cached, linked, reachable) /\ cached = Inner
    BY AllCached DEF ReaderInv, ModeInv, CacheInv
  <2>2. \A p, s : Turn(todo, p, s) /\ ~OnStack(todo, p)
    BY <2>1, NoCalls DEF Turn, OnStack
  <2>3. cached = {p \in 1..Len(nodes) : ~nodes[p].leaf}
    <3>1. Inner \subseteq 1..Len(nodes)
      BY <2>num DEF Inner
    <3> QED BY <2>1, <3>1, LeafOrInner
  <2>4. ASSUME NEW p \in cached PROVE p \in linked <=> ~nodes[Child(p, 1)].leaf
    <3>1. p \in linked <=> first[p] > leaves
      BY <2>1, <2>2 DEF CacheOK
    <3>2. Child(p, 1) = first[p] + 1 /\ first[p] + 1 \in 2..Len(nodes) /\ first[p] \in Nat
      <4>1. 1 \in Places(p)
        BY <2>1, InnerNode, ConstantTypes DEF Places
      <4> QED BY <2>1, <4>1, InnerNode
    <3>3. nodes[first[p] + 1].leaf <=> first[p] + 1 \in 2..(leaves+1)
      BY <2>num, <3>2, LeafOrInner
    <3> QED BY <2>num, <3>1, <3>2, <3>3
  <2>5. linked = {p \in cached : ~nodes[Child(p, 1)].leaf}
    <3>1. linked \subseteq cached
      BY <2>1 DEF CacheOK
    <3> QED BY <2>4, <3>1
  <2>6. reachable = leaves
    <3>1. ASSUME NEW q \in 2..(leaves+1) PROVE q \in Seen(todo, cached)
      <4>1. q \in 2..Len(nodes)
        BY <2>num
      <4>2. \E p \in Inner : \E s \in Places(p) : q = first[p] + s
        BY <4>1, HasParent
      <4> QED BY <2>1, <2>2, <4>1, <4>2 DEF Seen
    <3>2. SeenLeaves(todo, cached) = 2..(leaves+1)
      BY <3>1 DEF SeenLeaves
    <3>3. Cardinality(2..(leaves+1)) = leaves
      <4>1. Cardinality(2..(leaves+1)) = IF 2 > leaves + 1 THEN 0 ELSE (leaves + 1) - 2 + 1
        BY <2>num, FS_Interval
      <4> QED BY <2>num, <4>1
    <3> QED BY <2>1, <3>2, <3>3 DEF CacheOK
  <2>7. ASSUME NEW leafno \in 0..(reachable - 1) PROVE nodes[RandomLeaf(leafno)].leaf
    <3>1. leafno + 2 \in 2..(leaves+1) /\ leafno + 2 \in 1..Len(nodes)
      BY <2>num, <2>6
    <3> QED BY <3>1, LeafOrInner DEF RandomLeaf
  <2> QED BY <2>3, <2>5, <2>6, <2>7
<1> QED BY <1>1, TreeInvariant, PTL

-----------------------------------------------------------------------------
(***************************************************************************)
(* The tree implements the store of CountStore, step by step.              *)
(***************************************************************************)

StoreStatus ==
    IF nodes[1] # Blank THEN "sealed"
    ELSE IF phase \in {"closed", "failed", "crashed", "broken"} THEN "lost"
    ELSE "filling"

StorePending == IF mode \in {"searching", "aborted"} THEN asked ELSE NoKey

\* The count of an entry that was added, for every entry at once.
LEMMA CountsOfAdded ==
    FileInv => \A k : \A e \in 1..Len(added) : added[e].key = k => CountOf(k) = added[e].val
  BY CountOfAdded

\* An entry more is a count more.
LEMMA AddEntryPuts ==
    ASSUME FileInv, FileInv', NEW entry \in Entries, AddEntry(entry.key, entry.val)
    PROVE  /\ CountOf(entry.key) = 0
           /\ entry.key \in Keys /\ entry.val \in Counts
           /\ \A k \in Keys :
                CountOf(k)' = IF k = entry.key THEN entry.val ELSE CountOf(k)
<1>1. /\ added \in Seq(Entry) /\ Len(added) \in Nat
      /\ entry.key \in Keys /\ entry.key \in Nat /\ entry.val \in Nat
  <2>1. added \in Seq(Entry)
    BY DEF FileInv, IInv, TypeOK
  <2>2. entry.key \in Keys /\ entry.val \in Nat
    BY WriteAssumption
  <2>3. entry.key \in Nat
    BY <2>2, WriteAssumption
  <2> QED BY <2>1, <2>2, <2>3
<1> DEFINE new == [key |-> entry.key, val |-> entry.val]
<1>2. new \in Entry
  BY <1>1 DEF Entry
<1>3. /\ Len(added') = Len(added) + 1 /\ added'[Len(added) + 1] = new
      /\ \A e \in 1..Len(added) : added'[e] = added[e]
      /\ \A e \in 1..Len(added) : added[e].key < entry.key
  <2>1. added' = Append(added, new) /\ \A e \in 1..Len(added) : added[e].key < entry.key
    BY DEF AddEntry
  <2> HIDE DEF new
  <2> QED BY <1>1, <1>2, <2>1, AppendFacts
<1>4. \A e \in 1..Len(added) : added[e].key # entry.key /\ e \in 1..Len(added')
  <2> SUFFICES ASSUME NEW e \in 1..Len(added)
               PROVE  added[e].key # entry.key /\ e \in 1..Len(added')
    OBVIOUS
  <2>1. added[e].key \in Nat
    <3>1. added[e] \in Entry
      BY <1>1
    <3> QED BY <3>1 DEF Entry
  <2> QED BY <1>1, <1>3, <2>1
<1>5. CountOf(entry.key) = 0
  BY <1>4 DEF CountOf
<1>6. FileInv' => (\A k : \A e \in 1..Len(added) :
                       added[e].key = k => CountOf(k) = added[e].val)'
  BY CountsOfAdded, PTL
<1>7. \A k : \A e \in 1..Len(added') : added'[e].key = k => CountOf(k)' = added'[e].val
  BY <1>6
<1>8. CountOf(entry.key)' = entry.val
  <2>1. Len(added) + 1 \in 1..Len(added')
    BY <1>1, <1>3
  <2>2. added'[Len(added) + 1].key = entry.key /\ added'[Len(added) + 1].val = entry.val
    BY <1>3
  <2> QED BY <1>7, <2>1, <2>2
<1>9. ASSUME NEW k \in Keys, k # entry.key PROVE CountOf(k)' = CountOf(k)
  <2>1. ASSUME NEW e \in 1..Len(added), added[e].key = k PROVE CountOf(k)' = CountOf(k)
    <3>1. CountOf(k) = added[e].val
      BY <2>1, CountsOfAdded
    <3>2. added'[e] = added[e] /\ e \in 1..Len(added')
      BY <1>3, <1>4
    <3>3. CountOf(k)' = added'[e].val
      BY <1>7, <2>1, <3>2
    <3> QED BY <3>1, <3>2, <3>3
  <2>2. CASE \A e \in 1..Len(added) : added[e].key # k
    <3>1. \A e \in 1..Len(added') : added'[e].key # k
      <4> SUFFICES ASSUME NEW e \in 1..Len(added') PROVE added'[e].key # k
        OBVIOUS
      <4>1. e \in 1..Len(added) \/ e = Len(added) + 1
        BY <1>1, <1>3
      <4>2. added'[Len(added) + 1].key = entry.key
        BY <1>3
      <4> QED BY <1>3, <1>9, <2>2, <4>1, <4>2
    <3>2. CountOf(k) = 0
      BY <2>2 DEF CountOf
    <3>3. CountOf(k)' = 0
      BY <3>1 DEF CountOf
    <3> QED BY <3>2, <3>3
  <2> QED BY <2>1, <2>2
<1>10. entry.val \in Counts
  BY DEF Counts
<1> QED BY <1>1, <1>5, <1>8, <1>9, <1>10

\* Of the writer's other steps none changes a count, none goes on after the file is
\* lost, and none takes a seal back without losing the file.
LEMMA WriterStatus ==
    ASSUME FileInv, Next, ~\E e \in Entries : AddEntry(e.key, e.val)
    PROVE  /\ added' = added
           /\ StoreStatus # "lost"
           /\ StoreStatus = "sealed" => StoreStatus' # "filling"
<1>1. nodes[1] = Blank \/ phase \in {"rooted", "closed"}
  BY RootPhase DEF FileInv
<1>2. /\ added' = added
      /\ phase \notin {"closed", "failed", "crashed", "broken"}
      /\ phase = "rooted" => phase' \in {"closed", "crashed"}
  BY DEF Next, AddEntryFails, FinalizeBegin, CloseStep, CheckLastChildGen, WriteParentsBegin,
         WriteParent, WriteParentsEnd, WriteRoot, Close, FinalizeFails, Crash
<1>3. StoreStatus # "lost"
  BY <1>2 DEF StoreStatus
<1>4. StoreStatus = "sealed" => StoreStatus' # "filling"
  BY <1>1, <1>2 DEF StoreStatus
<1> QED BY <1>2, <1>3, <1>4

\* While entries are added the store is filling.
LEMMA AddEntryStatus ==
    ASSUME FileInv, NEW entry \in Entries, AddEntry(entry.key, entry.val)
    PROVE  StoreStatus = "filling" /\ StoreStatus' = "filling"
<1>1. phase = "adding" /\ phase' = "adding"
  BY DEF AddEntry
<1>2. nodes[1] = Blank
  BY <1>1, RootPhase DEF FileInv
<1>3. nodes'[1] = nodes[1]
  <2>1. nodes \in Seq(Node) /\ Len(nodes) >= 1 /\ current \in Node
    BY DEF FileInv, IInv, TypeOK
  <2>2. nodes' = nodes \/ nodes' = Append(nodes, current)
    BY DEF AddEntry, Flush
  <2> QED BY <2>1, <2>2, AppendFacts
<1> QED BY <1>1, <1>2, <1>3 DEF StoreStatus

\* A step of the writer is an entry put in, a seal, a loss, or nothing to the store.
LEMMA WriterImplementsStore ==
    FileInv /\ FileInv' /\ ReaderInv /\ Next /\ UNCHANGED readerVars
        => [Store!Next]_(Store!storeVars)
<1> SUFFICES ASSUME FileInv, FileInv', ReaderInv, Next, UNCHANGED readerVars
             PROVE  Store!Next \/ UNCHANGED Store!storeVars
  OBVIOUS
<1>1. /\ mode = "shut" /\ mode' = "shut" /\ reply' = reply /\ asked' = asked
  BY WriterBeforeReader DEF ReaderInv, ReaderInit, readerVars
<1>2. CASE \E e \in Entries : AddEntry(e.key, e.val)
  <2>1. PICK entry \in Entries : AddEntry(entry.key, entry.val)
    BY <1>2
  <2>2. /\ CountOf(entry.key) = 0 /\ entry.key \in Keys /\ entry.val \in Counts
        /\ \A k \in Keys : CountOf(k)' = IF k = entry.key THEN entry.val ELSE CountOf(k)
    BY <2>1, AddEntryPuts
  <2>3. [k \in Keys |-> CountOf(k)]' = [[k \in Keys |-> CountOf(k)] EXCEPT ![entry.key] = entry.val]
    BY <2>2
  <2>4. StoreStatus = "filling" /\ StoreStatus' = "filling"
    BY <2>1, AddEntryStatus
  <2>5. Store!Put(entry.key, entry.val)
    BY <1>1, <2>2, <2>3, <2>4 DEF Store!Put, StoreStatus
  <2> QED BY <2>2, <2>5 DEF Store!Next
<1>3. CASE ~\E e \in Entries : AddEntry(e.key, e.val)
  <2>1. /\ added' = added /\ StoreStatus # "lost"
        /\ StoreStatus = "sealed" => StoreStatus' # "filling"
    BY <1>3, WriterStatus
  <2>2. [k \in Keys |-> CountOf(k)]' = [k \in Keys |-> CountOf(k)]
    BY <2>1 DEF CountOf
  <2>3. /\ StoreStatus \in {"sealed", "filling", "lost"}
        /\ StoreStatus' \in {"sealed", "filling", "lost"}
    BY DEF StoreStatus
  <2>4. CASE StoreStatus' = "lost"
    <3>1. Store!Lose
      BY <1>1, <2>1, <2>2, <2>4 DEF Store!Lose, StoreStatus
    <3> QED BY <3>1 DEF Store!Next
  <2>5. CASE StoreStatus' = StoreStatus
    BY <1>1, <2>2, <2>5 DEF Store!storeVars, StoreStatus
  <2>6. CASE StoreStatus = "filling" /\ StoreStatus' = "sealed"
    <3>1. Store!Seal
      BY <1>1, <2>2, <2>6 DEF Store!Seal, StoreStatus
    <3> QED BY <3>1 DEF Store!Next
  <2> QED BY <2>1, <2>3, <2>4, <2>5, <2>6
<1> QED BY <1>2, <1>3

\* A key asked for is not the mark of no question.
LEMMA KeyAsked ==
    ASSUME ReaderInv, mode = "searching"
    PROVE  asked \in Keys /\ asked # NoKey
<1>1. asked \in Keys
  BY DEF ReaderInv, SearchInv
<1>2. asked \in Nat
  BY <1>1, WriteAssumption
<1> QED BY <1>1, <1>2 DEF NoKey

\* Opening is nothing to the store: the assertion that a node has all its children cached
\* or none (sfbti.c:811) never fails.
LEMMA OpeningIsSilent ==
    ASSUME FileInv, ReaderInv, OpenReader \/ CacheChild \/ CacheNodeDone \/ CacheFails
    PROVE  /\ StorePending = NoKey /\ StorePending' = NoKey /\ reply' = reply
           /\ mode # "aborted" /\ mode' # "aborted"
<1>1. CASE OpenReader
  BY <1>1 DEF OpenReader, searchVars, StorePending
<1>2. CASE CacheChild
  BY <1>2 DEF CacheChild, searchVars, StorePending
<1>3. CASE CacheNodeDone
  <2>1. mode = "caching" /\ UNCHANGED searchVars
    BY <1>3 DEF CacheNodeDone
  <2>2. CASE nodes[1] = Blank
    <3>1. mode' = "open"
      BY <1>3, <2>2, BlankOpened
    <3> QED BY <2>1, <3>1 DEF searchVars, StorePending
  <2>3. CASE nodes[1] # Blank
    <3>1. mode' = "open" \/ mode' = "caching"
      BY <1>3, <2>3, LastCallOver, CallReturns
    <3> QED BY <2>1, <3>1 DEF searchVars, StorePending
  <2> QED BY <2>2, <2>3
<1>4. CASE CacheFails
  BY <1>4 DEF CacheFails, searchVars, StorePending
<1> QED BY <1>1, <1>2, <1>3, <1>4

\* A step of the reader is a question, its answer, a reported failure, the stop on a file
\* without entries, or nothing to the store.
LEMMA ReaderImplementsStore ==
    FileInv /\ ReaderInv /\ ReaderNext /\ UNCHANGED vars => [Store!Next]_(Store!storeVars)
<1> SUFFICES ASSUME FileInv, ReaderInv, ReaderNext, UNCHANGED vars
             PROVE  Store!Next \/ UNCHANGED Store!storeVars
  OBVIOUS
<1>1. /\ nodes' = nodes /\ phase' = phase /\ added' = added
      /\ StoreStatus' = StoreStatus
      /\ [k \in Keys |-> CountOf(k)]' = [k \in Keys |-> CountOf(k)]
  BY FileStays DEF StoreStatus, CountOf
<1>2. CASE OpenReader \/ CacheChild \/ CacheNodeDone \/ CacheFails
  <2>1. /\ StorePending = NoKey /\ StorePending' = NoKey /\ reply' = reply
        /\ mode # "aborted" /\ mode' # "aborted"
    BY <1>2, OpeningIsSilent
  <2> QED BY <1>1, <2>1 DEF Store!storeVars, StoreStatus, StorePending
<1>3. ASSUME NEW k \in Keys, SearchBegin(k) PROVE Store!Next
  <2>1. /\ mode = "open" /\ mode' = "searching" /\ asked' = k /\ reply' = NoReply
    BY <1>3 DEF SearchBegin
  <2>2. phase \in {"closed", "failed"}
    BY <2>1 DEF ReaderInv, ModeInv
  <2>3. StoreStatus # "filling"
    BY <2>2 DEF StoreStatus
  <2>4. Store!Ask(k)
    BY <1>1, <2>1, <2>3 DEF Store!Ask, StoreStatus
  <2> QED BY <2>4 DEF Store!Next
<1>4. CASE SearchAborts
  <2>1. /\ mode = "searching" /\ mode' = "aborted" /\ asked' = asked /\ reply' = reply
        /\ nodes[at].ent = <<>>
    BY <1>4 DEF SearchAborts, searchVars
  <2>2. asked # NoKey
    BY <2>1, KeyAsked
  <2>3. StoreStatus = "lost" \/ \A k \in Keys : CountOf(k) = 0
    <3>1. CASE nodes[1] = Blank
      <4>1. phase \in {"closed", "failed"}
        BY <2>1 DEF ReaderInv, ModeInv
      <4> QED BY <3>1, <4>1 DEF StoreStatus
    <3>2. CASE nodes[1] # Blank
      BY <2>1, <3>2, NothingAdded
    <3> QED BY <3>1, <3>2
  <2>4. Store!Stop
    BY <1>1, <2>1, <2>2, <2>3 DEF Store!Stop, StoreStatus
  <2> QED BY <2>4 DEF Store!Next, Store!Respond
<1>5. CASE SearchCached \/ SearchReads \/ SearchMaps
  <2>1. mode = "searching" /\ mode' = mode /\ asked' = asked /\ reply' = reply
    BY <1>5 DEF SearchCached, SearchReads, SearchMaps, BelowCache
  <2> QED BY <1>1, <2>1 DEF Store!storeVars, StoreStatus
<1>6. CASE SearchFails
  <2>1. /\ mode = "searching" /\ mode' = "open" /\ asked' = asked /\ reply' = Failed
        /\ nodes[at].ent # <<>>
    BY <1>6 DEF SearchFails, BelowCache
  <2>2. asked # NoKey
    BY <2>1, KeyAsked
  <2>3. StoreStatus = "sealed"
    BY <2>1, SearchHasRoot DEF StoreStatus
  <2>4. Store!Fail
    BY <1>1, <2>1, <2>2, <2>3 DEF Store!Fail, StoreStatus
  <2> QED BY <2>4 DEF Store!Next, Store!Respond
<1>7. CASE SearchEnds
  <2>1. /\ mode = "searching" /\ mode' = "open" /\ asked' = asked
        /\ nodes[at].leaf /\ nodes[at].ent # <<>>
        /\ reply' = IF Holds(nodes[at], asked)
                    THEN nodes[at].ent[ChildIndex(nodes[at], asked)].val ELSE 0
    BY <1>7 DEF SearchEnds
  <2>2. asked \in Keys /\ asked # NoKey
    BY <2>1, KeyAsked
  <2>3. nodes[1] # Blank
    BY <2>1, SearchHasRoot
  <2>4. StoreStatus = "sealed"
    BY <2>3 DEF StoreStatus
  <2>5. reply' = CountOf(asked)
    BY <2>1, <2>3, LeafAnswer
  <2>6. reply' = [k \in Keys |-> CountOf(k)][asked]
    BY <2>2, <2>5
  <2>7. Store!Answer
    BY <1>1, <2>1, <2>2, <2>4, <2>6 DEF Store!Answer, StoreStatus
  <2> QED BY <2>7 DEF Store!Next, Store!Respond
<1> QED BY <1>2, <1>3, <1>4, <1>5, <1>6, <1>7 DEF ReaderNext, SearchStep

\* An empty file that nobody reads is an empty store.
LEMMA EmptyStore == TreeInit => Store!Init
<1> SUFFICES ASSUME TreeInit PROVE Store!Init
  OBVIOUS
<1>1. /\ nodes = <<Blank>> /\ phase = "adding" /\ added = <<>> /\ mode = "shut"
      /\ reply = NoReply
  BY DEF TreeInit, Init, ReaderInit
<1>2. \A e \in 1..Len(added) : FALSE
  BY <1>1, NoCalls
<1>3. \A k \in Keys : CountOf(k) = 0
  BY <1>2 DEF CountOf
<1> QED BY <1>1, <1>3 DEF Store!Init

\* Whatever the number of keys and the size of a node, a file that its writer finished
\* answers every question with the count that was added, or 0, or reports a failure; the
\* process stops only on a file that holds nothing or lost its root, and no number is
\* ever answered from one. This is the step relation of ImplementsStore, without fairness.
THEOREM TreeImplementsStore == TreeSpec => Store!Init /\ [][Store!Next]_(Store!storeVars)
<1>1. TreeInit => Store!Init
  BY EmptyStore
<1>2. FileInv /\ ReaderInv /\ FileInv' /\ ReaderInv' /\ [TreeNext]_treeVars
        => [Store!Next]_(Store!storeVars)
  <2> SUFFICES ASSUME FileInv, ReaderInv, FileInv', ReaderInv', [TreeNext]_treeVars
               PROVE  [Store!Next]_(Store!storeVars)
    OBVIOUS
  <2>1. CASE Next /\ UNCHANGED readerVars
    BY <2>1, WriterImplementsStore
  <2>2. CASE ReaderNext /\ UNCHANGED vars
    BY <2>2, ReaderImplementsStore
  <2>3. CASE UNCHANGED treeVars
    <3>1. nodes' = nodes /\ phase' = phase /\ added' = added
          /\ mode' = mode /\ asked' = asked /\ reply' = reply
      BY <2>3 DEF treeVars, vars, readerVars
    <3>2. [k \in Keys |-> CountOf(k)]' = [k \in Keys |-> CountOf(k)]
      BY <3>1 DEF CountOf
    <3> QED BY <3>1, <3>2 DEF Store!storeVars
  <2> QED BY <2>1, <2>2, <2>3 DEF TreeNext
<1> QED BY <1>1, <1>2, TreeInvariant, PTL DEF TreeSpec

=============================================================================
