----------------------------- MODULE SfbtiWrite ------------------------------
(***************************************************************************)
(* Building one tree file: the writing half of src/src/sfbti.c, from       *)
(* sfbti_new_wctx over sfbti_add_entry to sfbti_close_wctx.                *)
(*                                                                         *)
(* A file is a sequence of nodes of one size.  Node 1 is the gap that      *)
(* sfbti_new_wctx seeks over; it reads as zero bytes until the root is     *)
(* written there, last of all.  Leaves follow, written as entries arrive;  *)
(* closing appends one generation of parents after the other until one     *)
(* generation fits under the root.  File offsets (gen, next_gen,           *)
(* last_gen_cur) are counted in nodes: node p starts at offset p - 1.      *)
(* Keys are numbers: only their order matters here, and FindIndex shows    *)
(* that comparing token by token is an order.                              *)
(***************************************************************************)
EXTENDS Integers, Sequences

CONSTANTS
    K,              \* KEYS_PER_RECORD
    Keys,           \* the n-grams, 0 being the one whose tokens are all 0
    Entries,        \* the entries the caller may add, n-grams with their counts
    NodeSize,       \* sfbti_w_sizeofnode, in bytes
    OffsetModulus   \* 2^32: a child's offset is kept in a uint32_t

ASSUME WriteAssumption ==
    /\ K \in Nat /\ K >= 2
    /\ Keys \subseteq Nat
    /\ Entries \subseteq [key : Keys, val : Nat]
    /\ NodeSize \in Nat \ {0}
    /\ OffsetModulus \in Nat \ {0}

VARIABLES
    phase,          \* where the caller and sfbti_finalize are
    nodes,          \* the file, as the stream sees it
    current,        \* current_record
    gen,            \* current_generation_foffset
    next_gen,       \* next_gen_foffset of sfbti_write_parents
    last_gen_cur,   \* last_gen_cur of sfbti_write_parents
    collected,      \* child_first_key, child_offset and collected_children
    added,          \* history: the entries whose sfbti_add_entry returned 0
    leaves,         \* history: the number of leaves written
    first           \* history: per node, the offset its batch of children starts at

vars == <<phase, nodes, current, gen, next_gen, last_gen_cur, collected,
          added, leaves, first>>

Entry == [key : Nat, val : Nat]
Node == [leaf : BOOLEAN, ent : Seq(Entry)]

\* A zeroed record: no flags, no entries.
Blank == [leaf |-> FALSE, ent |-> <<>>]

\* sfbti_new_leaf_record
EmptyLeaf == [leaf |-> TRUE, ent |-> <<>>]

\* Mutated form of FirstKey: the record was not zeroed.
FirstKeyUnset(nd) == IF nd.ent = <<>> THEN -1 ELSE nd.ent[1].key

\* The first key of a record; a record without entries has zero bytes there.
FirstKey(nd) == IF nd.ent = <<>> THEN 0 ELSE nd.ent[1].key

\* Mutated form of ByteOffset: the offset counts from the first leaf.
ByteOffsetFromLeaves(o) == ((o - 1) * NodeSize) % OffsetModulus

\* wctx->child_offset[..] = foffset
ByteOffset(o) == (o * NodeSize) % OffsetModulus

Lesser(a, b) == IF a < b THEN a ELSE b

\* Mutated form of Collect: the batch runs past stop into the next generation.
CollectPastStop(file, from, stop) ==
    [s \in 1..Lesser(K, Len(file) - from) |->
        [key |-> FirstKey(file[from + s]), val |-> ByteOffset(from + s - 1)]]

\* sfbti_collect_children: up to K children of the file from offset from on,
\* before offset stop.
Collect(file, from, stop) ==
    [s \in 1..Lesser(K, stop - from) |->
        [key |-> FirstKey(file[from + s]), val |-> ByteOffset(from + s - 1)]]

\* sfbti_new_wctx
Init ==
    /\ phase = "adding"
    /\ nodes = <<Blank>>
    /\ current = EmptyLeaf
    /\ gen = 1
    /\ next_gen = 0
    /\ last_gen_cur = 0
    /\ collected = <<>>
    /\ added = <<>>
    /\ leaves = 0
    /\ first = <<0>>

-----------------------------------------------------------------------------

Flush(nd, start) ==
    /\ nodes' = Append(nodes, nd)
    /\ first' = Append(first, start)

\* Mutated form of AddEntry: the full record is replaced without being flushed.
AddEntryUnflushed(k, c) ==
    /\ phase = "adding"
    /\ \A e \in 1..Len(added) : added[e].key < k
    /\ LET entry == [key |-> k, val |-> c] IN
         /\ added' = Append(added, entry)
         /\ current' = IF Len(current.ent) = K
                       THEN [EmptyLeaf EXCEPT !.ent = <<entry>>]
                       ELSE [current EXCEPT !.ent = Append(@, entry)]
    /\ UNCHANGED <<phase, nodes, first, leaves, gen, next_gen, last_gen_cur, collected>>

\* sfbti_add_entry: a full record is flushed only when the next entry arrives.
\* The caller (mertap_loop) hands over keys in ascending order.
AddEntry(k, c) ==
    /\ phase = "adding"
    /\ \A e \in 1..Len(added) : added[e].key < k
    /\ LET entry == [key |-> k, val |-> c] IN
         /\ added' = Append(added, entry)
         /\ IF Len(current.ent) = K
            THEN /\ Flush(current, 0)
                 /\ leaves' = leaves + 1
                 /\ current' = [EmptyLeaf EXCEPT !.ent = <<entry>>]
            ELSE /\ current' = [current EXCEPT !.ent = Append(@, entry)]
                 /\ UNCHANGED <<nodes, first, leaves>>
    /\ UNCHANGED <<phase, gen, next_gen, last_gen_cur, collected>>

\* The flush inside sfbti_add_entry fails and the call returns 1.  When nothing was
\* written, nothing has changed; otherwise a part of a node is in the stream, and
\* this model promises nothing about the file from here.
AddEntryFails ==
    /\ phase = "adding"
    /\ Len(current.ent) = K
    /\ phase' = "broken"
    /\ UNCHANGED <<nodes, current, gen, next_gen, last_gen_cur, collected,
                   added, leaves, first>>

\* sfbti_finalize starts: the pending record is flushed, even when it is empty.
FinalizeBegin ==
    /\ phase = "adding"
    /\ Flush(current, 0)
    /\ leaves' = leaves + 1
    /\ current' = Blank
    /\ phase' = "check"
    /\ UNCHANGED <<gen, next_gen, last_gen_cur, collected, added>>

\* Mutated form of CheckLastChildGen: one node more than the root can hold.
CheckLastChildGenLax ==
    /\ phase = "check"
    /\ phase' = IF Len(nodes) - gen <= K + 1 THEN "root" ELSE "parents_begin"
    /\ UNCHANGED <<nodes, current, gen, next_gen, last_gen_cur, collected,
                   added, leaves, first>>

\* sfbti_check_last_child_gen_at: does the generation fit under the root?
CheckLastChildGen ==
    /\ phase = "check"
    /\ phase' = IF Len(nodes) - gen <= K THEN "root" ELSE "parents_begin"
    /\ UNCHANGED <<nodes, current, gen, next_gen, last_gen_cur, collected,
                   added, leaves, first>>

\* Mutated form of WriteParentsBegin: the end of the file is asked for after the
\* seek to the old generation.
WriteParentsBeginTellAfterSeek ==
    /\ phase = "parents_begin"
    /\ next_gen' = gen
    /\ collected' = Collect(nodes, gen, gen)
    /\ last_gen_cur' = gen + Len(collected')
    /\ phase' = "parents"
    /\ UNCHANGED <<nodes, current, gen, added, leaves, first>>

\* sfbti_write_parents up to its loop: the first batch of children is collected.
WriteParentsBegin ==
    /\ phase = "parents_begin"
    /\ next_gen' = Len(nodes)
    /\ collected' = Collect(nodes, gen, Len(nodes))
    /\ last_gen_cur' = gen + Len(collected')
    /\ phase' = "parents"
    /\ UNCHANGED <<nodes, current, gen, added, leaves, first>>

\* Mutated form of WriteParent: no FSETPOS back to the end of the file.
WriteParentInPlace ==
    /\ phase = "parents"
    /\ collected # <<>>
    /\ IF last_gen_cur < Len(nodes)
       THEN /\ nodes' = [nodes EXCEPT ![last_gen_cur + 1] = [leaf |-> FALSE, ent |-> collected]]
            /\ UNCHANGED first
       ELSE Flush([leaf |-> FALSE, ent |-> collected], last_gen_cur - Len(collected))
    /\ collected' = Collect(nodes, last_gen_cur, next_gen)
    /\ last_gen_cur' = last_gen_cur + Len(collected')
    /\ UNCHANGED <<phase, current, gen, next_gen, added, leaves>>

\* One iteration of its loop: write the parent of the collected batch at the end
\* of the file, then collect the next batch.
WriteParent ==
    /\ phase = "parents"
    /\ collected # <<>>
    /\ Flush([leaf |-> FALSE, ent |-> collected], last_gen_cur - Len(collected))
    /\ collected' = Collect(nodes, last_gen_cur, next_gen)
    /\ last_gen_cur' = last_gen_cur + Len(collected')
    /\ UNCHANGED <<phase, current, gen, next_gen, added, leaves>>

\* Mutated form of WriteParentsEnd: the next round starts over on the old generation.
WriteParentsEndKeepGen ==
    /\ phase = "parents"
    /\ collected = <<>>
    /\ phase' = "check"
    /\ UNCHANGED <<nodes, current, gen, next_gen, last_gen_cur, collected,
                   added, leaves, first>>

WriteParentsEnd ==
    /\ phase = "parents"
    /\ collected = <<>>
    /\ gen' = next_gen
    /\ phase' = "check"
    /\ UNCHANGED <<nodes, current, next_gen, last_gen_cur, collected,
                   added, leaves, first>>

\* sfbti_write_root: the root overwrites the gap at the start of the file, unless
\* there is nothing to put under it.
WriteRoot ==
    /\ phase = "root"
    /\ collected' = Collect(nodes, gen, Len(nodes))
    /\ IF collected' = <<>>
       THEN UNCHANGED <<nodes, first>>
       ELSE /\ nodes' = [nodes EXCEPT ![1] = [leaf |-> FALSE, ent |-> collected']]
            /\ first' = [first EXCEPT ![1] = gen]
    /\ phase' = "rooted"
    /\ UNCHANGED <<current, gen, next_gen, last_gen_cur, added, leaves>>

\* The root is still in the stream's buffer: everything else was flushed by the
\* seeks and reads that came before it.
RootLost ==
    /\ nodes' = [nodes EXCEPT ![1] = Blank]
    /\ first' = [first EXCEPT ![1] = 0]

\* sfbti_close_wctx closes the stream and ignores whether the buffer was written:
\* it returns sfbti_finalize's 0 either way.
Close ==
    /\ phase = "rooted"
    /\ phase' = "closed"
    /\ RootLost \/ UNCHANGED <<nodes, first>>
    /\ UNCHANGED <<current, gen, next_gen, last_gen_cur, collected, added, leaves>>

\* A read, write or seek fails inside sfbti_finalize, which returns 1.
FinalizeFails ==
    /\ phase \in {"adding", "check", "parents_begin", "parents", "root"}
    /\ phase' = "failed"
    /\ UNCHANGED <<nodes, current, gen, next_gen, last_gen_cur, collected,
                   added, leaves, first>>

\* The process dies: what the stream still buffers is gone.
Crash ==
    /\ phase \in {"adding", "check", "parents_begin", "parents", "root", "rooted"}
    /\ phase' = "crashed"
    /\ IF phase = "rooted" THEN RootLost ELSE UNCHANGED <<nodes, first>>
    /\ UNCHANGED <<current, gen, next_gen, last_gen_cur, collected, added, leaves>>

\* The steps of sfbti_close_wctx.
CloseStep ==
    \/ CheckLastChildGen
    \/ WriteParentsBegin
    \/ WriteParent
    \/ WriteParentsEnd
    \/ WriteRoot
    \/ Close

Next ==
    \/ \E e \in Entries : AddEntry(e.key, e.val)
    \/ AddEntryFails
    \/ FinalizeBegin
    \/ CloseStep
    \/ FinalizeFails
    \/ Crash

Spec == Init /\ [][Next]_vars

\* sfbti_close_wctx is one call: once begun it keeps running.
FairSpec == Spec /\ WF_vars(CloseStep)

-----------------------------------------------------------------------------

Phases == {"adding", "check", "parents_begin", "parents", "root", "rooted",
           "closed", "failed", "crashed", "broken"}

\* Every variable has its type.
TypeOK ==
    /\ phase \in Phases
    /\ nodes \in Seq(Node) /\ Len(nodes) >= 1
    /\ current \in Node
    /\ gen \in Nat
    /\ next_gen \in Nat
    /\ last_gen_cur \in Nat
    /\ collected \in Seq(Entry)
    /\ added \in Seq(Entry)
    /\ leaves \in Nat
    /\ first \in Seq(Nat) /\ Len(first) = Len(nodes)

\* One root node, then all the leaves, then the other nodes: the layout that
\* sfbti_tar_random_read assumes (sfbti.c:602).
LeafLayout ==
    /\ ~nodes[1].leaf
    /\ leaves + 1 <= Len(nodes)
    /\ \A p \in 2..Len(nodes) : nodes[p].leaf <=> p <= leaves + 1

\* No entry is lost, doubled or moved on its way into the leaves: entry e of the
\* input sits in leaf (e-1) \div K at place (e-1) % K, or in the pending record
\* while that is not flushed, and nothing else sits in a leaf.
EntriesInOrder ==
    /\ \A e \in 1..Len(added) :
         \/ \E p \in 2..(leaves+1) : \E s \in 1..Len(nodes[p].ent) :
              e = (p - 2) * K + s /\ nodes[p].ent[s] = added[e]
         \/ \E s \in 1..Len(current.ent) : e = leaves * K + s /\ current.ent[s] = added[e]
    /\ \A p \in 2..(leaves+1) : \A s \in 1..Len(nodes[p].ent) :
         /\ (p - 2) * K + s \in 1..Len(added)
         /\ nodes[p].ent[s] = added[(p - 2) * K + s]

NodesSorted ==
    \A p \in 1..Len(nodes) : \A s, t \in 1..Len(nodes[p].ent) :
        s < t => nodes[p].ent[s].key < nodes[p].ent[t].key

\* What the reader takes for granted of any file: the leaves lie where a random read
\* looks for them, and every record is sorted, as sfbti_find_index needs it.
ReadableLayout == LeafLayout /\ NodesSorted

\* Node p is the parent of its batch: the nodes from offset first[p] on, each with
\* its first key and its offset, and all of them leaves or none
\* (assert( children_cached == 0 ), sfbti.c:811).
ParentOfBatch(p) ==
    LET n == Len(nodes[p].ent) IN
    /\ n \in 1..K
    /\ first[p] >= 1
    /\ nodes[p].ent = Collect(nodes, first[p], first[p] + n)
    /\ first[p] + n <= Len(nodes)
    /\ first[p] <= leaves => first[p] + n <= leaves + 1

\* Where the batch behind the one of node p starts.
BatchEnd(p) == first[p] + Len(nodes[p].ent)

\* The batches of the parents follow each other without gap or overlap from the
\* first leaf on, across all generations: no node gets two parents, and none
\* between two nodes that have one is left out.  A parent follows its children.
ParentsChain ==
    \A p \in (leaves+2)..Len(nodes) :
        /\ ParentOfBatch(p)
        /\ first[p] = IF p = leaves + 2 THEN 1 ELSE BatchEnd(p - 1)
        /\ BatchEnd(p) <= p - 1

\* The root commits the tree: when it is in the file, its batch takes up the chain
\* of parents where that ends and runs to the end of the file, so every node has
\* exactly one parent.  A crash, a failed call or a failed fclose at any point
\* leaves the gap blank instead.
RootCommits ==
    nodes[1] # Blank =>
        /\ phase \in {"rooted", "closed"}
        /\ ParentOfBatch(1)
        /\ first[1] = IF Len(nodes) = leaves + 1 THEN 1 ELSE BatchEnd(Len(nodes))
        /\ BatchEnd(1) = Len(nodes)

\* What a lookup that follows the stored offsets answers, 0 when k has no entry.
\* NoAnswer: an offset leads to no node below, or a node has no entries (the
\* assertion of sfbti_find_index stops the process there).
NoAnswer == -1

Lookup(k) ==
    LET follow[p \in 1..Len(nodes)] ==
          LET nd == nodes[p]
              at == {s \in 1..Len(nd.ent) :
                        /\ s = 1 \/ nd.ent[s].key <= k
                        /\ \A t \in (s+1)..Len(nd.ent) : k < nd.ent[t].key}
          IN IF at = {} THEN NoAnswer
             ELSE LET e == nd.ent[CHOOSE s \in at : TRUE]
                      child == e.val \div NodeSize + 1
                  IN CASE nd.leaf /\ e.key = k -> e.val
                       [] nd.leaf /\ e.key # k -> 0
                       [] ~nd.leaf -> IF /\ e.val % NodeSize = 0
                                         /\ child \in 2..Len(nodes)
                                         /\ p = 1 \/ child < p
                                      THEN follow[child] ELSE NoAnswer
    IN follow[1]

AllAnswersRight ==
    /\ \A e \in 1..Len(added) : Lookup(added[e].key) = added[e].val
    /\ \A k \in Keys : (\A e \in 1..Len(added) : added[e].key # k) => Lookup(k) = 0

\* A file with a root is a correct search tree for what was added (every key added
\* is found with its count, every other key is answered 0) exactly when its last
\* node starts below the limit of the 32-bit offsets, which
\* sfbti_collect_children stores without a check.
TreeAnswersBelowLimit ==
    nodes[1] # Blank /\ added # <<>> =>
        (AllAnswersRight <=> (Len(nodes) - 1) * NodeSize < OffsetModulus)

\* Nothing a node's place in the file held is overwritten, except that the root
\* takes the gap.
WrittenOnce ==
    [][/\ Len(nodes') >= Len(nodes)
       /\ \A p \in 2..Len(nodes) : nodes'[p] = nodes[p]
       /\ nodes[1] # Blank => Len(nodes') = Len(nodes) /\ nodes'[1] \in {nodes[1], Blank}]_vars

\* Closing ends: each generation of parents is smaller than the last.
CloseEnds == phase = "check" ~> phase \in {"closed", "failed", "crashed"}

\* sfbti.c:270: "warning: %s is empty and is left invalid".
EmptyLeftInvalid == phase = "closed" /\ added = <<>> => nodes[1] = Blank

=============================================================================
