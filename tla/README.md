# TLA+ models of lib1tquery

lib1tquery answers the question "how often does this n-gram occur in the
corpus?" for n-grams of one to five tokens, any of which may be a wildcard.
Programs written in C sort the counts (`judysort-prepare-tapes`), merge them and
build one B-tree file per hash bin (`mergetapes-to-sfbtin`); the files go into
one tar archive, and the library (`lib1tquery`) looks counts up in it with about
one disk read per question.

This directory holds TLA+ modules of that code, TLC configurations that check
them on small instances, and proofs, checked by TLAPS, of what holds for every
instance. Paths below are relative to the repository's `src/`.

## The system: parts, state, operations

| part | file | state | operations | hard about it |
|---|---|---|---|---|
| tape preparation | `judysort-prepare-tapes.c`, `judysort.c` | dictionary, sorted table of counts, size of the table, tape being written | read a line, insert it and its 2^N wildcard patterns, dump the table when it is full and at the end | dumps in the middle of a line, counts of 0, writes nobody checks, which dictionary is consulted |
| tape merge | `mergetapes.c` | one record read ahead per tape, heap of tapes, record being summed up | fill the heap, pop and push, hand over a record | heap order with ties and one-child nodes, read errors, torn tapes |
| tree build | `mergetapes-to-sfbtin.c` | open tree writers by hash bin, current pass, children | passes over batches of bins, one process or one child per pass | processes that write side by side, failing forks and children, unchecked results |
| tree writer | `sfbti.c` (`sfbti_w_*`, `sfbti_add_entry`, `sfbti_finalize`) | pending record, position, current generation | add, flush, write parents level by level, write the root, close | reading and appending through one stream, off-by-one at full nodes, crash before the root, 32-bit offsets |
| tree reader | `sfbti.c` (`sfbti_tar_*`, `sfbti_find_index`) | cached nodes, read buffer | open (cache everything above the leaves), search, random read | binary search edges, cached and uncached children, layout assumptions shared with the writer |
| semifile | `semifile.c` | buffer, its place in the file, position | stdio's calls without keeping the file open | every call reopens the file and can fail half way |
| tar binding | `tarbind.c` | table from member name to offset and length, descriptor, mapping | scan, seek, map, free | where the archive ends, names that come twice, torn and damaged archives |
| hash bins | `hashbin.c`, `lib1tquery.c`, `mergetapes-to-sfbtin.c` | none | bin of a key, name of its file, in the builder and in the library | the two sides have code of their own; the letters of the names run out |
| query library | `lib1tquery.c` | one static context: archive, dictionary, unigrams, trees of each n, table for random reads; "initialised" | init, quit, lookups, suspend and reopen, random reads | order of the calls, init that fails half way, what it frees, same bin as the builder |
| lines | `ngread.c` | line buffer and how much of it is filled | next line | lines across refills, the end of the file |
| dictionary | `jwordhash.c` | string table | read from a file, look up | files it was not made for |
| vocabulary | `util/transform_vocab.py` | numbering of the words | number the raw words, write both dictionary files | two files written by different rules must agree; the wildcard is number 0 |

How they interact: `judysort_dump_output_gzfile` writes tapes that are sorted and
hold every key once, which `mertap_loop` needs; `mertap_loop` hands over strictly
ascending records, which `sfbti_add_entry` needs; `sfbti_add_entry` and
`sfbti_finalize` leave a layout that `sfbti_tar_open_rctx`, `sfbti_tar_search` and
`sfbti_tar_random_read` rely on. Each of these interfaces is a property of the
module on one side and an assumption of the one on the other.

| promised | relied on |
|---|---|
| `PrepareTapes!TapesSorted` | `MergeTapes!MergeAssumption` |
| `MergeTapes!OutAscending` | the guard of `SfbtiWrite!AddEntry` |
| `SfbtiWrite!ReadableLayout` (`NodesSorted`) | `FindIndex!Sorted` |
| `SfbtiWrite!ParentsChain`, `ReadableLayout` (`LeafLayout`) | `SfbtiTree!CacheNodeDone`, `RandomLeaf` |
| `FindIndex!SearchResult` | `SfbtiTree!ChildIndex` |
| `StreamFile` (by `Semifile`) | the node-wise file of `SfbtiWrite` |
| `LineReader!LinesHandedOver` | the lines that `Vocabulary` takes |
| `Vocabulary!DictionariesAgree` (`<*>` is 0, `<PP_UNK>` is 1) | `PrepareTapes!STAR`, `PP_UNK` and its dictionary |
| `Vocabulary!UnigramsAreSums` (every id of the transformer's files has a counter) | `QueryLibrary!lib1tquery_lookup_1gram`, which misuses the table otherwise |
| `HashBins!NamedApart` | the bins of `BuildTrees` as files of their own; `QueryLibrary!OpenTree` |
| `TarBinding!BindingsExact` | `QueryLibrary!TreeAt` |
| `CountStore` (by `SfbtiTree`) | `QueryLibrary!CountIn` |
| `NodeLayout!SameLayout` | `QueryLibrary!SearchMap`, `SfbtiTree!SearchMaps` |

## Modules

`FindIndex` - one call of `sfbti_find_index`, one action per loop iteration. `mn`,
`mx`, `mp`, `i` are the C locals; `pc` says which loop runs; `pc = "abort"` is a
failed `assert`. A key is a tuple of tokens. `FindIndexProofs` proves about it.

`SfbtiWrite` - building one file. The file is a sequence of nodes, `nodes[1]` the
gap for the root. `current` is `current_record`, `gen`
`current_generation_foffset`; `next_gen`, `last_gen_cur`, `collected` belong to
`sfbti_write_parents` and `sfbti_collect_children`. `added`, `leaves` and `first`
are history: what was added, how many leaves were written, where the children of
each node begin. One action per call of `sfbti_add_entry` and per step of
`sfbti_finalize`. Keys are numbers, since only their order matters here.
Offsets are counted in nodes, and only what `sfbti_collect_children` stores is
turned into bytes and cut to the width of `uint32_t` (`ByteOffset`). A crash, a
failing call and an `fclose` that loses the buffered root are actions.

`SfbtiTree` - extends `SfbtiWrite` with a reader of the finished file. The recursion
`sfbti_tar_cache_node_ab1` is a stack of calls (`todo`), one loop iteration per
action; a search descends one node per action, through the cache or by reading.
`CountStore` is what all of this promises a caller, in six lines of state: counts
are put in, the file is sealed, questions are answered; `Store == INSTANCE
CountStore WITH ...` is the refinement mapping. `mapped` says that a search is one of
`sfbti_maptar_search`, which takes the leaf from the mapped file; `SfbtiTree` takes it
as it would be if the layout fits, and `NodeLayout` says when it does. `SfbtiProofs`
proves about writer and reader.

`NodeLayout` - where `sfbti_w_writenode` puts the entries of a node and where
`struct sfbti_record` has them, as arithmetic of the sizes.

`LineReader` - `ngr_open` and `ngr_next`, one action per refill and per line cut off;
`buffer` is the filled part of the C buffer, `past` is `gzeof`. It has no behaviour of
its own: `Vocabulary` extends it and says when a line is asked for.

`Vocabulary` - the way of a number from the raw vocabulary to an answer:
`transform_vocab.py` line by line (`seen`, `next_to_write`, both output files as
characters), then `read_wordhashes` and `initialize_unigrams` over the lines that
`LineReader` makes of those files again. The numbers are printed and parsed as digits,
because the agreement of the files goes through them.

`HashBins` - operators only: the bin of a key and the name of its file, on both sides.
`TarBinding` - the archive as blocks, the scan as one action per header or zero block.
`QueryLibrary` extends both and `NodeLayout`. A call of `lib1tquery_init` runs in
phases (`phase`, `gram`, `made`), all other calls are one action each, because the
library has no threads. A pointer of the context is `"null"`, `"live"` or `"freed"`
(or `"hollow"`: a tree context whose array could not be had); following one that is
not live sets `broken` to what it was and who did it, and ends the behaviour, as a
failed `assert` or an `exit` does by `stopped`. A tree is what `SfbtiTree` promises:
the counts of a build for the keys of one bin, so that an answer from the wrong tree
is a wrong answer. What the library computes in `int` is cut to its width (`ToInt`): the
number of trees of an n (`MaxIndex`) and the bytes of their array (`Size`, `Room`). A
lookup compares its index with the array that was allocated, and an id with the size of
the unigrams, although the code does not: what it would read there is a misuse of its
own. A configuration comes with the archive it names, and where its settings are those
of a builder the archive was packed with them (`PackedAssumption`). `QueryLibraryProofs`
proves about it, `TarBinding` and `NodeLayout`.

`MergeTapes` - `mertap_loop`, one action per read, sift iteration or step of the
loop. `heap[j]` is `heap->files[j-1]`; `Peek(f)` is the record a tape read ahead. Its
sums are those of the community modules over indices of sequences, which are functions
and not sequences built up step by step: that is what `Sums` has lemmas about.
`MergeTapesProofs` proves about it.

`PrepareTapes` - `judysort-prepare-tapes`: the table is a function from n-grams to
counts, dumped in key order through a cursor. It works on one instance of the
dictionary; `Source` says whether it came by `-T` or `-V`. With `-W` a line is inserted
under `Masks` = 2^N masks, without it once as it is. `PrepareTapesProofs` proves about it.

`BuildTrees` - the processes of `mergetapes-to-sfbtin`, each with a merge of its own.
The records of all tapes are numbered by their keys; `tapes_of` says which tapes have
each, `torn` which tapes end inside a record. One action takes one record through
`mertap_loop`: it is summed up from the tapes that still give it, these are read on, and
the sum goes into its bin if the pass has that open. A read error drops the rest of a
tape, from which place on `cut` remembers per pass; a torn tape leaves the process
`"hung"` in `mertap_file_read_peek`, or ended where the compiler makes no loop of that
recursion and the stack runs full. A tree file is a state and the sequence of its entries,
each a record and the tapes it was summed from: `Share(b, n, c)` is what bin `b` is to
get of the first `n` records when the tapes are read up to `c`, and a file `Holds` it if
these are its entries, in ascending order. `BuildTreesProofs` proves about it.

`Semifile` and `StreamFile` - the buffered stream the writer can be built with
(`USE_SEMIFILES`), and the plain stream it is to behave as. Every call has one
action for success and one per way to fail. `trusted` turns false when a call
gives its caller a result that is not true (an `fclose` that failed, or a 1 where
one block was asked for and the file could not even be opened); the abstract
stream promises nothing from there on. `SemifileProofs` proves about both.

A definition named like another one with a suffix, and commented as "Mutated form
of", is a plausible bug in that definition. It is not used; replacing the
definition by it must make a property fail.

## Runs

| run | instance | checks |
|---|---|---|
| `FindIndex.cfg` | nodes of up to 4 keys of 2 tokens from 0..2, queries from 0..3 | every sorted node, every query |
| `SfbtiWrite.cfg` | 2 keys per record, keys 0..8, a count of its own for each, nodes of 10 bytes, offsets modulo 65 | every set of up to nine keys, every stopping point, the limit of the offsets |
| `SfbtiEmpty.cfg` | as `SfbtiWrite.cfg` | a finding, see below |
| `SfbtiTree.cfg` | the same keys and counts, offsets that do not wrap | the reader, and the refinement of `CountStore` |
| `MergeTapes.cfg` | 5 tapes out of 3 contents with shared keys | the heap, the sums |
| `PrepareTapes.cfg` | bigrams over a known and an unknown word, counts 0 and 2, 3 lines, limit 5 | tapes and sums |
| `PrepareVoc.cfg` | the same with `-V` | a finding |
| `BuildTrees.cfg`, `BuildSuccess.cfg` | 3 bins, batches of 2; two tapes with two records, in 3 contents | the processes; a finding |
| `Vocabulary.cfg` | raw vocabularies of up to 3 lines out of 5 words; other dictionary files glued together from up to 3 out of 10 pieces; a buffer of 12 characters, 4 columns, 3 counters | lines, numbers, sums |
| `QueryLibrary.cfg` | n of 2 and 3, 0 to 4 bins, 23 pairs of settings and archive; 8 hashes, character codes below 8 with 3 letters; blocks of 2, a table of 9 slots, integers below 28, tree contexts of 3 bytes | the life cycle, the bins, the answers |
| `Semifile.cfg` | buffer of 3 cells, blocks of 1, 2 and 4, files of up to 6 | refinement of `StreamFile` |

Why the bounds are enough to meet the interesting cases. A node size of two makes
nine keys a tree of four levels, with generations that are full, that have one
node left over, and that fit under the root exactly; a search of four keys has
windows of every parity and probes on both sides. Five tapes make a heap with
three levels and a parent with one child. Three lines of four patterns each at a
limit of five let a dump fall at every place within a line. Three bins in batches
of two give a last pass that is shorter than the other; of the two tapes both have the
first record and one the second, so a read error takes a whole record or one tape's
part of it, and a tape is torn before, between or behind the records. A block of four cells
never fits the buffer of three, one of two fits only after a flush.  With offsets
modulo 65 trees of up to seven nodes keep theirs and larger ones do not, so both
sides of the limit occur; since each key has a count of its own, an answer taken
from the wrong entry is a wrong answer.

The pieces of the text files include a line that fills the buffer of 12 exactly, one that is a
character longer, one without its newline and one of too many columns, and three of them put
each at every place of the buffer; the words include two with the same transformation, one
equal to the wildcard, and more different ones than there are counters. The archives include
one with members behind a zero block, one behind two, one with a bin three times, one lacking
a bin, one damaged, one with too long a name, and one torn at each of its last blocks; its
trees have leaves for no share of the table, for a few, and for more than the table holds.
Characters are scaled down: 3 letters before the codes run out stand for the 159 that follow
from `'a'` in a byte, so names of all numbers of bins up to the last letter and of one more
are compared (`NamesMeet`). So are integers: with ints below 28 and contexts of 3 bytes, the
array for 27 trees wraps to one of 8, the size of the one for 16 is negative, and of 64 trees
the number itself wraps to 8. Other settings have no bins, a prefix longer than the name,
fewer unigrams than there are ids, or a negative number of them.

Deadlock checking is off in every run because every system modelled is a program
that ends.

Fairness. `SfbtiWrite` (from the call of `sfbti_close_wctx` on),
`SfbtiTree` (within a search) and `MergeTapes` are calls that wait for nothing, so
weak fairness of their steps says no more than that a running call keeps running.
`BuildTrees` assumes weak fairness of each process, which the operating system's
scheduler gives; it assumes nothing about calls succeeding. No fairness is
assumed of callers: nobody needs to add, close, open, ask or initialise.
`Vocabulary` and `QueryLibrary` are calls as well: `LoadStep` and `InitStep` leave out
what fails by accident (a read, `mmap`, `malloc`), so an initialisation may always
fail and need not.  `FindIndex` needs none:
that its loop ends is the action property `WindowShrinks`.

## What the runs show

- A file that has a root is a complete tree of what was added, whichever step the
  build stopped at (`RootCommits`, `EntriesInOrder`); before the root is written it
  reads as a node without entries.
- A search of that tree answers right for every key exactly as long as the last
  node starts below the width of the stored offsets (`TreeAnswersBelowLimit`).
- The reader's cache is complete, a lookup reads one node (`OneReadPerLookup`),
  and what the caller sees is the abstract store (`ImplementsStore`): a number is
  answered only if it is right.
- The merge loses and doubles nothing and its output is strictly ascending, also
  when a read error drops the rest of a tape. A tape that ends inside a record
  makes it hang: `MergeEnds` lists `"hung"` among the ends because the code does
  not leave that recursion.
- Dumping in the middle of a line loses no pattern, and a tape never outgrows the
  limit.
- No two processes of a build create the same file, and a file that was closed has all
  its records or its pass had a failed write or lost part of a tape to a read error
  (`BinsAreShares`). A read error is a warning and leaves the exit status 0
  (`mergetapes.c:54-56`), so a build whose statuses are all 0 is complete only if no
  write failed and no tape was dropped (`WellMeansComplete`).
- The parent ends last. A build ends unless a tape is torn; then the processes that read
  it may be stuck, and the parent of such a child waits for it (`BuildEnds`).
- The line reader hands over exactly the lines of a file, however they fall into its
  buffer. A last line without a newline is ignored, as its warning says, unless it
  fills the buffer: then the process exits with "line too long".
- Both dictionary files agree after they were printed and read again, every raw word
  has a counter, and a counter has grown by what it should -- from whatever `malloc`
  left in it, since nothing clears it (`UnigramsAreSums` has `start[i] +` for that, so it
  does not say that the memory was 0, and no property does). Dictionaries of another
  origin may have more words than counters.
- With settings a builder accepts, whose trees an int can count the bytes of (`Sound`),
  the library finds every key in the tree the builder put it in (`ReadyMeansComplete`),
  under the same name for every split into directory and file, up to 159 bins; with
  160 the names of two bins are the same (`NamesMeet`, at its scale).
- The scan binds a name to its last member and everything up to the second zero block
  (`BindingsExact`), so appending to an archive replaces trees and gluing two archives
  together loses the second.
- A lookup answers what was counted, or 0 with a warning when the archive cannot be
  read, as between suspend and reopen (`AnswersRight`) -- for the mapped archive with
  5-grams only.
- `OnlyKnownMisuse` lists what makes the library follow a bad pointer: calls after
  `lib1tquery_quit` (which leaves it marked as initialised), calls without an assertion
  before init, an id that is not below `unigrams:size`, an unreported `malloc` or `fstat`
  failure, more trees of an n than an int can count the bytes of (the array is then too
  short for them), no bins, a prefix of more letters than n, mapped lookups of another n,
  `rand() % 0`, and trees beyond the assumed total of leaves. A failed init, at whatever
  step and however often, frees nothing twice.
- A semifile is a plain stream until it misleads its caller; a flush that failed
  once and then worked loses nothing.

Three runs are expected to be violated; each shows the code doing something else
than one of its own messages says:

- `SfbtiEmpty`: an empty tree is not "left invalid" (`sfbti.c:270`). The pending
  record is flushed without a look at its size, so the root gets one child, a leaf
  without entries; the file opens, and the first lookup fails the assertion at
  `sfbti.c:418`.
- `PrepareVoc`: with `-V` every lookup fails, because the vocabulary is read into a
  variable that hides the one consulted, and the program stops on an assertion (with
  `-W` the one at `judysort-prepare-tapes.c:162`).
- `BuildSuccess`: "Success." is printed whatever became of the children, and after
  a merge that failed or dropped a tape.

## What is proved

The proofs hold for every value of the constants under the named assumptions
(`FindAssumption`, `WriteAssumption`, `TreeAssumption`, `LayoutAssumption`, `SemifileAssumption`,
`BuildAssumption`, `MergeAssumption`, `PrepareAssumption`, `HashAssumption`,
`TarAssumption`, `LibraryAssumption`, `ConfigsAssumption`, `PackedAssumption`), which the
runs also evaluate.
Most properties are not inductive alone; what follows says what has to be known besides.

`FindIndexProofs`: types, `SearchResult` (the assertions and both results of the search), and
that the window shrinks. The inductive invariant adds to the properties: the window stays
within the node (`WindowInv`); what lies left of it is not behind the key and what lies right
of it is (`BoundsInv`), which needs that comparing tokens is a strict order; an entry equal to
the key stays in it (`InsideInv`); while tokens are compared, those before `i` were equal and
the probe is inside the upper part of the window (`ProbeInv`).

`SfbtiProofs`, the writer: types, `LeafLayout`, `EntriesInOrder`, `ParentsChain`,
`RootCommits`, `WrittenOnce`. The inductive
invariant says, per phase, where the generations lie: `gen` is where the children
without a parent begin (`GenInv`); within a round the batches handled so far end at
`last_gen_cur` minus the batch in hand, and that batch is what the file holds
there (`ParentsInv`); the root is written only over a generation that fits
(`RootInv`); all leaves but the last are full, so the place of an entry follows
from its number (`AddingInv`, `PendingInv`).

`ReadableLayout` follows from a second invariant on top of the first.
Leaves are sorted because the entries arrive sorted and keep their order. A parent
is sorted because the first keys ascend along the generation its batch is cut from
(`GenOrder`), and they ascend along the generation being written because the batches
of its nodes follow each other (`ParentsOrder`). `Filled` says that no leaf is empty
but the only one of an empty tree, so that a node has a first key at all. None of this
needs `TreeAssumption`: the writer's theorems hold whether or not offsets wrap.

`SfbtiProofs`, the reader: `TreeTypeOK`, `OneReadPerLookup`, `CacheComplete`, and that
writer and reader implement `CountStore` (`TreeImplementsStore`: its initial states and
each of its steps; its fairness stays with TLC). Here `TreeAssumption` is used: the
offsets of all nodes are below the limit, and stored offsets are places in the file.
`FileInv` adds to the writer's invariants that a file has at most three nodes per leaf and
one more, because a generation has at most half the nodes of the one below it (`SizeInv`),
and that every generation starts with the first key of the file (`LeftInv`). The reader's
invariant `ReaderInv` is about a depth-first walk that is cut into single steps: a node has been
counted or cached exactly when its turn has come in the call on its parent (`Turn`,
`CacheInv`), where the calls under way are a path from the root each of which
waits for the next (`StackOK`); a call whose children are leaves has cached none of them, so the
assertion at `sfbti.c:811` never fails (`OpeningIsSilent`). When the stack is empty every
turn has come, and by a least counterexample along the file no node is missed
(`AllCached`). Within a search, `SearchInv` says that the key asked for belongs between
the first key of the node and that of the next one in its generation; at a leaf the sorted
entries then make the reply the one of the store.

`MergeTapesProofs`: types, the heap (`HeapSound`), the order of the output
(`OutAscending`) and the sums (`CountsKept`), for any number of tapes. `HeapSound` says
which one element may be out of order at each step of the sift loops, and between which
elements the order must hold around it for the next iteration to restore it; to that the
invariant adds that the index of a loop is in the heap (`IndexInHeap`) and what the heap
holds while it is filled (`Filling`). That the top of a heap is the least of it is not
immediate: an element earlier than the top would have a parent that is earlier too, so a
least such place leads to a smaller one. From there the order of the output follows
with `Least`: what was taken from the heap is not later than anything left, and `buf` is
not later than anything in the heap or at the tape to be read next. The sums
need, per step, one record moved from what a tape still holds to `buf` or the output
(`CountsMatch`), and that a tape that is neither in the heap nor in hand was read to
its end or failed (`Accounted`).

`PrepareTapesProofs`: types, `TapesSorted`, `LimitHolds` and `CountsKept`. `Progress` says
that the ids are known before the first line, that a line whose masks are not done is the
last one, and that nothing is written before. `Dumping` ties the cursor of a dump to the last
record on the tape, and bounds what is on the tape and what is still to come together by
the limit; with the order of n-grams being a strict one (`BeforeIsStrict`) the tape
ascends. For the sums, `CountsMatch` is `CountsKept` for every n-gram and not only
for those that lines gave: a record moves its count from table to tape
(`RecordAdds`), the next mask adds to the table what it adds to the expected sum (`MaskGives`),
and a line or tape that is new adds nothing.

`BuildTreesProofs`: `BinsAreShares`, `WellMeansComplete` and `ParentEndsLast`, for every
number of bins, batch size, set of tapes and contents of them, torn ones included, and
with read errors anywhere. The passes cover every bin (`BinsCovered`) and no
bin twice (`CoveredOnce`), which is arithmetic of the rounded quotient. The invariant says for
each pass which process works on it and how far (`Begun`, `InPass`): bins of passes not
begun are untouched, those of the pass at work are exactly as far as its loops, and those
left are closed. That a file follows the tapes as read survives a read error because
that cuts a tape behind the record in hand, and what a bin has got so far depends on the
tapes up to there only. `Waiting` counts the children that were reaped: after as many calls
of `wait` as there are passes there is no child left, also when forks failed.

`SemifileProofs`: `BufferTight`, and that `Semifile` implements `StreamFile`
(`ImplementsStream`), step by step: under the mapping every action is one of the abstract
stream or a stutter, and a flush changes where the bytes are but not what the stream
holds. The lemmas it rests on (`OverCells` and those after it) say what writing a block
over a file gives, cell by cell.

`QueryLibraryProofs`, the archive: `BindingsExact`, from `ConfigsAssumption`, which says
what an archive is made of. The archive is a flattening, which the library defines by a
fold; `FlattenJoins` gives it a start for each item, `LayoutLies` says what is behind the
start of an item, and `ScanInv` that the scan is always at a start, behind which item, and
that the bindings are those of the members in front of it.

`QueryLibraryProofs`, the library: `OnlyKnownMisuse`, `ReadyMeansComplete` and `AnswersRight`.
`LibInv` says what a call of `lib1tquery_init` has got in each phase (`PhaseInv`); that the
trees opened so far are those of the first bins, each bound under the name of its bin
(`GramsInv`, `MadeInv`); that the table of random reads leads to them (`WeightedInv`), and
that its length, times the assumed total, is within what their leaves allow (`TableInv`): so
when it overflows the leaves in the archive exceed that total. From there `ReadyInv` has what
a library keeps that is initialised, before `lib1tquery_quit` and after it. The last two
theorems are about an archive in which the builder's files have the names that the library
looks for, so they have `NamesMeet`, asked before the first call, as a hypothesis, and speak
of settings that are `Sound`; it and `PackedAssumption` lead from a key to the tree the
builder put it in (`LookupFinds`). That a mapped lookup is right for `NGRAM_SIZE` only comes
from the layout: the entries of a node adjoin (`EntriesAdjoin`), and the node of a file has
the layout of the struct exactly for keys of that many tokens (`MappedLayout`), which is
arithmetic of products. `OnlyKnownMisuse` is proved for all settings of `ConfigsAssumption`:
bins that wrap, no bins, prefixes too long, any number of unigrams. An index within the array
comes from `KeysHaveBins`, a part of `NamesMeet` and the hypothesis of that theorem: the
provers have no facts about powers, so that a number of n digits is below the nth power of its
base is left to TLC.

`Sums`: the sum of the community modules over a finite set of integers splits at an element
(`SumSplits`), depends on the values only (`SumSame`), and grows with one of them
(`SumGrows`), with one more index (`SumExtends`) or with the set (`SumOfSubset`). The library
defines this sum by recursion over sets. Its induction theorem takes a predicate as a
parameter, which the provers here cannot instantiate; in its place the proofs take a least
counterexample, whose existence is `WFMin` for the order of the naturals.

Checked by TLC only:

- liveness (`CloseEnds`, `MergeEnds`, `BuildEnds`, `LoadingEnds`, `InitReturns`, and the
  liveness of `CountStore`), which is out of TLAPS's reach here;
- `TreeAnswersBelowLimit`, whose meaning is a recursion over the tree, and which says what
  goes wrong beyond the limit as well (what holds below it is proved as `TreeImplementsStore`);
- `LinesHandedOver`, `DictionariesAgree` and `UnigramsAreSums`: what the reader and the
  printed numbers come to is a recursion over characters;
- `NamesMeet`: that two numbers with the same digits are equal, that names with
  different letters differ, and that the indices of keys are below the number of bins
  (`KeysHaveBins`), are inductions over digits and characters.

## What is not modelled, and limits

- What a write that failed half way left in the stream of a tree writer
  (`AddEntryFails` promises nothing from there on).
- What a mapped lookup with the wrong layout reads: `SearchMap` gives any count or ends
  the behaviour.
- Tokens of more than 24 bits, which `sfbti_add_entry` cuts; ids of 2^31 and more.
- `BuildTrees` takes a successful `sfbti_close_wctx` for a complete file;
  `SfbtiWrite!Close` shows that a failed `fclose` is one exception.
- Lines of fewer than N words on the input of `judysort-prepare-tapes`; words with
  spaces.
- The values of `murmur_hash` and of the patterns of `transformation()`: any function
  is allowed for the first; the second matters by which words it makes equal.
- Failing allocations while the dictionary and the unigrams are read (they end as a refused
  vocabulary does, which `QueryLibrary!LoadFails` has).
- A negative number of bins or prefix, more bins per token than a hash can be, a caller's n
  outside the configurable ones, a null key, locations of more characters than the fixed
  buffers for paths.
- An id of `lib1tquery_lookup_1gram` that is in the table is not answered in the model:
  what the table holds is `Vocabulary`'s.
- What a failed `lib1tquery_init` leaks (the archive, the unigrams), and the total of
  leaves, which it compares for a message only and never resets.
- `tarbind_read_at`, which takes the larger of two lengths where its name suggests the
  smaller, and `tarbind_random_read`: only tests call them. The result of
  `sfbti_tar_random_read`, which is a failure for every read of a whole node.
- The debugging leaf dump, and the stand-alone lookup tool
  `sfbtin-hashbins-lookup.c`, which uses an older reader.
- Command lines, printing, statistics, the tests and measuring tools.
- zlib, Judy and stdio are taken at their documented behaviour.

## Plan

1. Done: all modules above, and the proofs about `FindIndex`, `SfbtiWrite`, `SfbtiTree`,
   `NodeLayout`, `MergeTapes`, `PrepareTapes`, `BuildTrees`, `Semifile`, `TarBinding` and
   `QueryLibrary`.
2. `TapeBuffer` (`mertap_file_read_peek` at the level of bytes, refined by the whole
   records of `MergeTapes`); lines of fewer than N words in `PrepareTapes`.
