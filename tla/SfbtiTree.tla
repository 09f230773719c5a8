------------------------------ MODULE SfbtiTree -------------------------------
(***************************************************************************)
(* A tree file from its first entry to its last lookup: the writer of      *)
(* SfbtiWrite, and the reader of the file it leaves behind.                *)
(*                                                                         *)
(* sfbti_tar_open_rctx caches every node above the leaves                  *)
(* (sfbti_tar_cache_node_ab1, a recursion: todo is its stack).             *)
(* sfbti_tar_search then descends from the cached root, through cached     *)
(* nodes while there are any and by reading from the file below them;      *)
(* sfbti_maptar_search takes them from the mapped file instead (NodeLayout *)
(* says for which n-grams it can).                                         *)
(* Node p of the file is what a seek to offset (p - 1) * NodeSize and a    *)
(* read bring in; the runs of SfbtiWrite check offsets that wrap.           *)
(***************************************************************************)
EXTENDS SfbtiWrite, FiniteSets

\* No offset of a file over Keys wraps: it has at most this many nodes.
ASSUME TreeAssumption ==
    /\ IsFiniteSet(Keys)
    /\ OffsetModulus >= NodeSize * 2 * (Cardinality(Keys) + 1)
    /\ \A e \in Entries : e.val # 0

VARIABLES
    mode,       \* "shut", "caching", "open", "searching", "refused", "aborted"
    todo,       \* the calls of sfbti_tar_cache_node_ab1 that are under way
    cached,     \* the nodes that have a cached record
    linked,     \* those flagged FLAG_ENTRIES_ARE_CACHED
    reachable,  \* leaves_reachable_by_cache
    asked,      \* the key being looked up
    at,         \* node of sfbti_tar_search
    in_cache,   \* is its `cache' pointer set?
    mapped,     \* is it sfbti_maptar_search?
    reads,      \* nodes this search read from the file
    reply       \* what the last search gave

readerVars == <<mode, todo, cached, linked, reachable, asked, at, in_cache, mapped,
                reads, reply>>
searchVars == <<asked, at, in_cache, mapped, reads, reply>>
cacheVars == <<todo, cached, linked, reachable>>

Counts == {e.val : e \in Entries}

NoKey == -1
NoReply == -1
Failed == -2

\* One call of sfbti_tar_cache_node_ab1: its node, its loop index, its
\* children_cached.
Call(p) == [node |-> p, next |-> 1, kids |-> 0]

Child(p, s) == nodes[p].ent[s].val \div NodeSize + 1

\* sfbti_find_index, as FindIndex shows it to behave on a record with entries.
ChildIndex(nd, k) ==
    CHOOSE s \in 1..Len(nd.ent) :
        /\ s = 1 \/ nd.ent[s].key <= k
        /\ \A t \in (s+1)..Len(nd.ent) : k < nd.ent[t].key

Holds(nd, k) == \E s \in 1..Len(nd.ent) : nd.ent[s].key = k

Push(stack, call) == Append(stack, call)
Top == todo[Len(todo)]
Below == SubSeq(todo, 1, Len(todo) - 1)

ReaderInit ==
    /\ mode = "shut"
    /\ todo = <<>>
    /\ cached = {}
    /\ linked = {}
    /\ reachable = 0
    /\ asked = NoKey
    /\ at = 1
    /\ in_cache = FALSE
    /\ mapped = FALSE
    /\ reads = 0
    /\ reply = NoReply

-----------------------------------------------------------------------------

\* sfbti_tar_open_rctx reads the root of a finished file.
OpenReader ==
    /\ mode = "shut"
    /\ phase \in {"closed", "failed"}
    /\ mode' = "caching"
    /\ todo' = <<Call(1)>>
    /\ cached' = {1}
    /\ UNCHANGED <<linked, reachable, searchVars>>

\* Mutated form of CacheChild: every child counts as a reachable leaf.
CacheChildCountsAll ==
    /\ mode = "caching"
    /\ Top.next <= Len(nodes[Top.node].ent)
    /\ LET child == Child(Top.node, Top.next) IN
         IF nodes[child].leaf
         THEN /\ todo' = Push(Below, [Top EXCEPT !.next = @ + 1])
              /\ UNCHANGED cached
         ELSE /\ todo' = Push(todo, Call(child))
              /\ cached' = cached \union {child}
    /\ reachable' = reachable + 1
    /\ UNCHANGED <<mode, linked, searchVars>>

\* One iteration of the loop over the children: a leaf is only counted, any other
\* node is cached by a recursive call.
CacheChild ==
    /\ mode = "caching"
    /\ Top.next <= Len(nodes[Top.node].ent)
    /\ LET child == Child(Top.node, Top.next) IN
         IF nodes[child].leaf
         THEN /\ reachable' = reachable + 1
              /\ todo' = Push(Below, [Top EXCEPT !.next = @ + 1])
              /\ UNCHANGED cached
         ELSE /\ todo' = Push(todo, Call(child))
              /\ cached' = cached \union {child}
              /\ UNCHANGED reachable
    /\ UNCHANGED <<mode, linked, searchVars>>

\* Mutated form of CacheNodeDone: the node above any leaf counts as linked, too.
CacheNodeDoneLinksAll ==
    /\ mode = "caching"
    /\ Top.next > Len(nodes[Top.node].ent)
    /\ linked' = linked \union {Top.node}
    /\ IF Below = <<>>
       THEN mode' = "open" /\ todo' = <<>>
       ELSE /\ LET caller == Below[Len(Below)] IN
                 todo' = [Below EXCEPT ![Len(Below)] =
                            [caller EXCEPT !.next = @ + 1, !.kids = @ + 1]]
            /\ UNCHANGED mode
    /\ UNCHANGED <<cached, reachable, searchVars>>

\* The end of a call: the node is linked to its children when all of them were
\* cached; if only some were, assert( children_cached == 0 ) stops the process.
CacheNodeDone ==
    /\ mode = "caching"
    /\ Top.next > Len(nodes[Top.node].ent)
    /\ linked' = IF Top.kids = Len(nodes[Top.node].ent)
                 THEN linked \union {Top.node} ELSE linked
    /\ IF Top.kids \notin {0, Len(nodes[Top.node].ent)}
       THEN mode' = "aborted" /\ UNCHANGED todo
       ELSE IF Below = <<>>
       THEN mode' = "open" /\ todo' = <<>>
       ELSE /\ LET caller == Below[Len(Below)] IN
                 todo' = [Below EXCEPT ![Len(Below)] =
                            [caller EXCEPT !.next = @ + 1, !.kids = @ + 1]]
            /\ UNCHANGED mode
    /\ UNCHANGED <<cached, reachable, searchVars>>

\* A read or an allocation fails: every call frees what it cached and gives up,
\* and opening returns 1.
CacheFails ==
    /\ mode = "caching"
    /\ mode' = "refused"
    /\ todo' = <<>>
    /\ cached' = {}
    /\ linked' = {}
    /\ UNCHANGED <<reachable, searchVars>>

\* Either search begins at the cached root.
SearchBegin(k) ==
    /\ mode = "open"
    /\ mode' = "searching"
    /\ asked' = k
    /\ at' = 1
    /\ in_cache' = TRUE
    /\ mapped' \in BOOLEAN
    /\ reads' = 0
    /\ reply' = NoReply
    /\ UNCHANGED cacheVars

\* sfbti_find_index asserts that the record has entries.
SearchAborts ==
    /\ mode = "searching"
    /\ nodes[at].ent = <<>>
    /\ mode' = "aborted"
    /\ UNCHANGED <<cacheVars, searchVars>>

Descend == at' = Child(at, ChildIndex(nodes[at], asked))

\* CACHED_CHILD: the child is reached by a pointer.
SearchCached ==
    /\ mode = "searching"
    /\ ~nodes[at].leaf /\ nodes[at].ent # <<>>
    /\ in_cache /\ at \in linked
    /\ Descend
    /\ UNCHANGED <<mode, asked, in_cache, mapped, reads, reply, cacheVars>>

\* The child is not cached.
BelowCache ==
    /\ mode = "searching"
    /\ ~nodes[at].leaf /\ nodes[at].ent # <<>>
    /\ ~(in_cache /\ at \in linked)

\* It is read from the file into rctx->buffer; from here on nothing is cached.
SearchReads ==
    /\ BelowCache /\ ~mapped
    /\ Descend
    /\ in_cache' = FALSE
    /\ reads' = reads + 1
    /\ UNCHANGED <<mode, asked, mapped, reply, cacheVars>>

\* It is a place in the mapping.
SearchMaps ==
    /\ BelowCache /\ mapped
    /\ Descend
    /\ in_cache' = FALSE
    /\ UNCHANGED <<mode, asked, mapped, reads, reply, cacheVars>>

\* The read fails: the search returns 1.
SearchFails ==
    /\ BelowCache /\ ~mapped
    /\ mode' = "open"
    /\ reply' = Failed
    /\ UNCHANGED <<asked, at, in_cache, mapped, reads, cacheVars>>

\* Mutated form of SearchEnds: the leaf is searched as an inner node is.
SearchEndsInexact ==
    /\ mode = "searching"
    /\ nodes[at].leaf /\ nodes[at].ent # <<>>
    /\ mode' = "open"
    /\ reply' = nodes[at].ent[ChildIndex(nodes[at], asked)].val
    /\ UNCHANGED <<asked, at, in_cache, mapped, reads, cacheVars>>

\* The exact search of the leaf gives the count or 0.
SearchEnds ==
    /\ mode = "searching"
    /\ nodes[at].leaf /\ nodes[at].ent # <<>>
    /\ mode' = "open"
    /\ reply' = IF Holds(nodes[at], asked)
                THEN nodes[at].ent[ChildIndex(nodes[at], asked)].val
                ELSE 0
    /\ UNCHANGED <<asked, at, in_cache, mapped, reads, cacheVars>>

\* The node sfbti_tar_random_read seeks to, for one draw of rand().
RandomLeaf(leafno) == leafno + 2

SearchStep ==
    \/ SearchAborts \/ SearchCached \/ SearchReads \/ SearchMaps
    \/ SearchFails \/ SearchEnds

ReaderNext ==
    \/ OpenReader
    \/ CacheChild
    \/ CacheNodeDone
    \/ CacheFails
    \/ \E k \in Keys : SearchBegin(k)
    \/ SearchStep

TreeInit == Init /\ ReaderInit

TreeNext ==
    \/ Next /\ UNCHANGED readerVars
    \/ ReaderNext /\ UNCHANGED vars

treeVars == <<vars, readerVars>>

TreeSpec == TreeInit /\ [][TreeNext]_treeVars

\* A search is one call: once begun it runs to its return.
FairTreeSpec == TreeSpec /\ WF_treeVars(SearchStep /\ UNCHANGED vars)

-----------------------------------------------------------------------------

\* Every variable has its type.
TreeTypeOK ==
    /\ mode \in {"shut", "caching", "open", "searching", "refused", "aborted"}
    /\ \A d \in 1..Len(todo) :
         /\ todo[d].node \in 1..Len(nodes)
         /\ todo[d].next \in 1..(Len(nodes[todo[d].node].ent) + 1)
         /\ todo[d].kids \in 0..K
    /\ linked \subseteq cached
    /\ cached \subseteq 1..Len(nodes)
    /\ reachable \in 0..leaves
    /\ asked \in Keys \union {NoKey}
    /\ at \in 1..Len(nodes)
    /\ in_cache \in BOOLEAN /\ mapped \in BOOLEAN
    /\ reads \in Nat
    /\ reply \in Counts \union {0, NoReply, Failed}

\* What opening leaves behind is complete: every node above the leaves is cached,
\* one is linked to cached children exactly when its children are no leaves, and
\* the count that sfbti_tar_random_read draws from is the number of leaves, so that
\* it reads a leaf whatever it draws.
CacheComplete ==
    mode \in {"open", "searching"} /\ nodes[1] # Blank =>
        /\ cached = {p \in 1..Len(nodes) : ~nodes[p].leaf}
        /\ linked = {p \in cached : ~nodes[Child(p, 1)].leaf}
        /\ reachable = leaves
        /\ \A leafno \in 0..(reachable - 1) : nodes[RandomLeaf(leafno)].leaf

\* Caching everything above the leaves pays: a lookup reads exactly one node, or none
\* by the mapping, and what it takes from the file is a leaf.
OneReadPerLookup ==
    /\ mode \in {"open", "searching"} => reads <= 1
    /\ mode = "open" /\ reply >= 0 => reads = (IF mapped THEN 0 ELSE 1)
    /\ mode = "searching" /\ ~in_cache => nodes[at].leaf

\* The counts that were put in.
CountOf(k) ==
    IF \E e \in 1..Len(added) : added[e].key = k
    THEN added[CHOOSE e \in 1..Len(added) : added[e].key = k].val
    ELSE 0

Store == INSTANCE CountStore WITH
    counts <- [k \in Keys |-> CountOf(k)],
    status <- IF nodes[1] # Blank THEN "sealed"
              ELSE IF phase \in {"closed", "failed", "crashed", "broken"} THEN "lost"
              ELSE "filling",
    pending <- IF mode \in {"searching", "aborted"} THEN asked ELSE NoKey,
    stopped <- mode = "aborted"

\* The tree implements the store: every question about a sealed file gets the
\* count that was added or 0, or a reported failure, always some reply; the process
\* stops only on a file that is empty or has lost its root, and never gives a
\* number for one.
ImplementsStore == Store!Spec

=============================================================================
