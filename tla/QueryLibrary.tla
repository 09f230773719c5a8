----------------------------- MODULE QueryLibrary -----------------------------
(***************************************************************************)
(* lib1tquery.c: the library that programs ask for counts.  A call of      *)
(* lib1tquery_init scans the archive (TarBinding), reads the dictionary    *)
(* and the unigrams (Vocabulary has what is in them) and opens the tree of *)
(* every bin (HashBins) of every n; a lookup picks a tree and searches it  *)
(* (SfbtiTree has how, NodeLayout when the mapped archive will do).        *)
(*                                                                         *)
(* The library keeps everything in one static context and promises little  *)
(* about the order of its calls, so every pointer of the context is "null",*)
(* "live" or "freed", and what a call does with one that is not live is    *)
(* recorded in broken: the behaviour of the process ends there.            *)
(***************************************************************************)
EXTENDS HashBins, TarBinding, NodeLayout, Integers

CONSTANTS
    Configs,        \* configuration files with the archives they name
    MaxGram,        \* 5: the largest n
    Counts,         \* what a build of the trees counted: [builds -> [keys -> Nat]]
    Leaves,         \* how many leaves each of its trees has: [builds -> Nat]
    AssumedLeaves,  \* assumed_total_leafs
    MaxSlots,       \* MAX_WEIGHTED_RCTX_PTRS
    IntBound,       \* 2^31: an int is below it
    RctxBytes,      \* sizeof *rctxs
    NoConfig

ASSUME LibraryAssumption ==
    /\ MaxGram >= 2
    /\ NgramSize = MaxGram
    /\ AssumedLeaves \in Nat \ {0} /\ MaxSlots \in Nat
    /\ IntBound \in Nat \ {0} /\ RctxBytes \in Nat \ {0}

Grams == 2..MaxGram

VARIABLES
    conf,           \* the configuration of the last lib1tquery_init
    phase,          \* how far a call of it is, "idle" between calls
    gram,           \* its n
    made,           \* rctxs of the tree context being made
    initialized,    \* library_initialized
    tar, wordhash, unigrams, grams,     \* the pointers of ctx
    rctxs,          \* per n: the bindings of its trees
    weighted,       \* leaf_weighted_tree_ptrs, up to no_weighted_tree_ptrs
    do_mmap,        \* ctx.do_mmap
    data,           \* tarbind_ctx->data is mapped
    descriptor,     \* tarbind_ctx->descriptor is open
    quitted,        \* history: lib1tquery_quit has freed the context
    asked,          \* history: the last lookup, <<>> when there was none
    reply,          \* what it returned
    warned,         \* it printed a warning
    broken,         \* history: [what, by] of the first misuse of a pointer
    stopped         \* an assertion or exit() stopped the process

pointers == <<tar, wordhash, unigrams, grams>>
context == <<pointers, rctxs, weighted, do_mmap, data, descriptor>>
answers == <<asked, reply, warned>>
loading == <<conf, phase, gram, made>>
history == <<quitted, broken, stopped>>
outside == <<initialized, answers, history>>
mapping == <<do_mmap, data>>
vars == <<tarVars, loading, initialized, context, answers, history>>

Fine == [what |-> "nothing", by |-> "none"]
Misuse(what, by) == broken' = [what |-> what, by |-> by]
Running == broken = Fine /\ ~stopped
Idle == Running /\ phase = "idle"

Init ==
    /\ TarInit
    /\ conf = NoConfig /\ phase = "idle" /\ gram = 2 /\ made = <<>>
    /\ initialized = FALSE
    /\ tar = "null" /\ wordhash = "null" /\ unigrams = "null"
    /\ grams = [n \in Grams |-> "null"]
    /\ rctxs = [n \in Grams |-> <<>>]
    /\ weighted = <<>>
    /\ do_mmap = FALSE /\ data = FALSE /\ descriptor = FALSE
    /\ asked = <<>> /\ reply = 0 /\ warned = FALSE
    /\ quitted = FALSE /\ broken = Fine /\ stopped = FALSE

-----------------------------------------------------------------------------
(* lib1tquery_init                                                          *)

\* Mutated form of InitCall: the context keeps what the last call left in it.
InitCallKeeps ==
    /\ Idle /\ ~initialized
    /\ \E c \in Configs :
         /\ conf' = c
         /\ TarOpen(c.items, c.torn)
    /\ descriptor' = TRUE
    /\ phase' = "scan" /\ gram' = 2 /\ made' = <<>>
    /\ UNCHANGED <<pointers, rctxs, weighted, mapping, outside>>

\* The context is cleared and the archive opened.  Once initialised the call returns
\* 1 at once, even after lib1tquery_quit.
InitCall ==
    /\ Idle /\ ~initialized
    /\ \E c \in Configs :
         /\ conf' = c
         /\ TarOpen(c.items, c.torn)
    /\ tar' = "null" /\ wordhash' = "null" /\ unigrams' = "null"
    /\ grams' = [n \in Grams |-> "null"]
    /\ rctxs' = [n \in Grams |-> <<>>]
    /\ weighted' = <<>> /\ do_mmap' = FALSE /\ data' = FALSE
    /\ descriptor' = TRUE
    /\ phase' = "scan" /\ gram' = 2 /\ made' = <<>>
    /\ UNCHANGED <<outside>>

\* The way out of every failure: the dictionary and the finished trees are freed
\* and their pointers kept; the archive and the unigrams are not freed.
Fail ==
    /\ phase' = "idle"
    /\ made' = <<>>
    /\ wordhash' = IF wordhash = "null" THEN "null" ELSE "freed"
    /\ grams' = [n \in Grams |-> IF grams[n] = "null" THEN "null" ELSE "freed"]
    /\ IF wordhash = "freed" \/ \E n \in Grams : grams[n] = "freed"
       THEN Misuse("freed", "init") ELSE UNCHANGED broken
    /\ UNCHANGED <<conf, gram, initialized, rctxs, weighted, do_mmap, answers,
                   quitted, stopped>>

Loading(at) == Running /\ phase = at

Scan ==
    /\ Loading("scan")
    /\ ScanZero \/ ScanHeader
    /\ IF scan' = "done" THEN tar' = "live" /\ phase' = "map" ELSE UNCHANGED <<tar, phase>>
    /\ UNCHANGED <<conf, gram, made, wordhash, unigrams, grams, rctxs, weighted,
                   mapping, descriptor, outside>>

NoArchive ==
    /\ Loading("scan") /\ ScanFails
    /\ descriptor' = FALSE
    /\ Fail
    /\ UNCHANGED <<tar, unigrams, data>>

\* tarbind_prepare_mmap.  When fstat fails it returns 0 all the same.
Map ==
    /\ Loading("map")
    /\ do_mmap' = conf.mmap
    /\ data' \in (IF conf.mmap THEN BOOLEAN ELSE {FALSE})
    /\ phase' = "words"
    /\ UNCHANGED <<tarVars, conf, gram, made, pointers, rctxs, weighted, descriptor,
                   outside>>

ReadWords ==
    /\ Loading("words")
    /\ wordhash' = "live"
    /\ phase' = "unigrams"
    /\ UNCHANGED <<tarVars, conf, gram, made, tar, unigrams, grams, rctxs, weighted,
                   mapping, descriptor, outside>>

\* A negative unigrams:size is more than malloc has, and LoadFails is left.
InitUnigrams ==
    /\ Loading("unigrams") /\ conf.words >= 0
    /\ unigrams' = "live"
    /\ phase' = "trees"
    /\ UNCHANGED <<tarVars, conf, gram, made, tar, wordhash, grams, rctxs, weighted,
                   mapping, descriptor, outside>>

\* The reader of the dictionary files calls exit().
LoadStops ==
    /\ Running /\ phase \in {"words", "unigrams"}
    /\ stopped' = TRUE
    /\ UNCHANGED <<tarVars, loading, initialized, context, answers, quitted,
                   broken>>

Configured(n) == n \in DOMAIN conf.grams
Bins(n) == conf.grams[n].bins
TreeName(n, j) ==
    LibraryName(conf.grams[n].dir, Digits(Bins(n), n, j), conf.grams[n].prefix)

\* What an int holds of a larger number.
ToInt(x) == ((x + IntBound) % (2 * IntBound)) - IntBound

\* int maxindex and int sz: how many trees of n are opened, how many bytes malloc is
\* asked for, and how many of the trees have their room in these.
MaxIndex(n) == IF Bins(n) = 0 THEN 0 ELSE ToInt(Bins(n)^n)
Size(n) == ToInt(RctxBytes * MaxIndex(n))
Room(n) == Size(n) \div RctxBytes

\* Mutated form of SkipGram: the loop does not go on.
SkipGramStays ==
    /\ Loading("trees") /\ gram \in Grams /\ ~Configured(gram)
    /\ UNCHANGED vars

\* An n without a location is skipped.
SkipGram ==
    /\ Loading("trees") /\ gram \in Grams /\ ~Configured(gram)
    /\ gram' = gram + 1
    /\ UNCHANGED <<tarVars, conf, phase, made, context, outside>>

OpenNext == Loading("trees") /\ gram \in Grams /\ Configured(gram)

\* malloc fails for the array of trees, as it must for a negative size: the context
\* is returned without it.
NoRctxs ==
    /\ OpenNext /\ made = <<>>
    /\ grams' = [grams EXCEPT ![gram] = "hollow"]
    /\ gram' = gram + 1
    /\ UNCHANGED <<tarVars, conf, phase, made, tar, wordhash, unigrams, rctxs,
                   weighted, mapping, descriptor, outside>>

\* A tree is next, its name is made of digits that it has, and its context is inside
\* the array.
NextFits ==
    /\ OpenNext /\ Len(made) < MaxIndex(gram)
    /\ conf.grams[gram].prefix <= gram
    /\ Len(made) < Room(gram)

\* The name takes digits from behind the last one, or sfbti_tar_open_rctx clears a
\* context behind the end of the array.
OpenBeyond ==
    /\ OpenNext /\ Size(gram) >= 0 /\ Len(made) < MaxIndex(gram)
    /\ IF conf.grams[gram].prefix > gram
       THEN Misuse("digits", "init")
       ELSE Len(made) >= Room(gram) /\ Misuse("array", "init")
    /\ UNCHANGED <<tarVars, loading, initialized, context, answers, quitted, stopped>>

\* mmap fails or general:mmap is missing; a table is refused; a setting of an n is
\* missing, or a tree cannot be read.
LoadFails ==
    /\ \/ Running /\ phase \in {"map", "words", "unigrams"}
       \/ OpenNext /\ made = <<>>
       \/ NextFits
    /\ Fail
    /\ UNCHANGED <<tarVars, tar, unigrams, data, descriptor>>

\* The build and the bin of the tree that a binding leads to.
TreeAt(binding) == items[DataAt(binding)[1].item].holds

\* The share of the table that a tree gets.
Slots(binding) == (Leaves[TreeAt(binding).build] * MaxSlots) \div AssumedLeaves

\* One iteration of lib1tquery_make_tree_context: the tree of the next bin is bound
\* and cached, and its share of the table is filled without looking at its end.
OpenTree ==
    /\ NextFits
    /\ LET name == TreeName(gram, Len(made)) IN
         /\ name \in DOMAIN bindings
         /\ DataAt(bindings[name]) # <<>>
         /\ made' = Append(made, bindings[name])
         /\ LET filled == weighted \o [s \in 1..Slots(bindings[name]) |-> <<gram, Len(made')>>] IN
              IF Len(filled) > MaxSlots
              THEN Misuse("table", "init") /\ UNCHANGED weighted
              ELSE weighted' = filled /\ UNCHANGED broken
    /\ UNCHANGED <<tarVars, conf, phase, gram, initialized, pointers, rctxs,
                   mapping, descriptor, answers, quitted, stopped>>

TreesOpened ==
    /\ OpenNext /\ Size(gram) >= 0 /\ Len(made) >= MaxIndex(gram)
    /\ grams' = [grams EXCEPT ![gram] = "live"]
    /\ rctxs' = [rctxs EXCEPT ![gram] = made]
    /\ gram' = gram + 1
    /\ made' = <<>>
    /\ UNCHANGED <<tarVars, conf, phase, tar, wordhash, unigrams, weighted, mapping,
                   descriptor, outside>>

InitDone ==
    /\ Loading("trees") /\ gram \notin Grams
    /\ initialized' = TRUE
    /\ phase' = "idle"
    /\ UNCHANGED <<tarVars, conf, gram, made, context, answers, history>>

\* The tree of the next bin is not in the archive.
TreeMissing ==
    /\ NextFits
    /\ TreeName(gram, Len(made)) \notin DOMAIN bindings

\* What happens by itself, and what has to; elsewhere LoadFails and the others are
\* possible and never certain.
InitStep ==
    \/ Scan \/ (NoArchive /\ Unreadable)
    \/ Map \/ ReadWords
    \/ InitUnigrams \/ (LoadFails /\ phase = "unigrams" /\ conf.words < 0)
    \/ SkipGram \/ (NoRctxs /\ Size(gram) < 0)
    \/ OpenTree \/ OpenBeyond \/ (LoadFails /\ TreeMissing) \/ TreesOpened
    \/ InitDone

-----------------------------------------------------------------------------
(* The other calls                                                          *)

Unchanged == UNCHANGED <<tarVars, loading, initialized>>

\* assert( library_initialized ) fails.
Abort ==
    /\ stopped' = TRUE
    /\ Unchanged /\ UNCHANGED <<context, answers, quitted, broken>>

Breaks(what, by) ==
    /\ Misuse(what, by)
    /\ Unchanged /\ UNCHANGED <<context, answers, quitted, stopped>>

\* What following a pointer that is not live does.
Follow(pointer, by) == pointer # "live" /\ Breaks(pointer, by)

lib1tquery_dictionary ==
    /\ Idle
    /\ \/ ~initialized /\ Abort
       \/ initialized /\ Follow(wordhash, "dictionary")

Answer(key, count, warning) ==
    /\ asked' = key /\ reply' = count /\ warned' = warning
    /\ Unchanged /\ UNCHANGED <<context, history>>

Unknown(key) == \E i \in 1..Len(key) : key[i] < 0

\* What the tree of a build holds for a key: its count, if it is in that bin.
CountIn(tree, bins, key) ==
    IF tree.bin = BuilderIndex(bins, key) THEN Counts[tree.build][key] ELSE 0

AllCounts == UNION {{Counts[b][k] : k \in DOMAIN Counts[b]} : b \in DOMAIN Counts}

\* Mutated form of SearchArchive: a read that fails is a key that is not there.
SearchArchiveSilent(n, key, binding) ==
    \/ /\ descriptor
       /\ Answer(key, CountIn(TreeAt(binding), Bins(n), key), FALSE)
    \/ Answer(key, 0, FALSE)

\* sfbti_tar_search: the leaf is read through the descriptor.
SearchArchive(n, key, binding) ==
    \/ /\ descriptor
       /\ Answer(key, CountIn(TreeAt(binding), Bins(n), key), FALSE)
    \/ Answer(key, 0, TRUE)

\* sfbti_maptar_search takes the mapped bytes of the leaf for a struct sfbti_record.
SearchMap(n, key, binding) ==
    \/ ~data /\ Breaks("null", "mapped_lookup")
    \/ data /\ SameLayout(n) /\ Answer(key, CountIn(TreeAt(binding), Bins(n), key), FALSE)
    \/ /\ data /\ ~SameLayout(n)
       /\ \/ \E garbage \in AllCounts \union {0} : Answer(key, garbage, FALSE)
          \/ Breaks("layout", "mapped_lookup")

\* uint32_t index: the tree of a key among those that were opened.
IndexOf(n, key) == LibraryIndex(Bins(n), key) % (2 * IntBound)
Rctx(n, key) == rctxs[n][IndexOf(n, key) + 1]

\* classify_uint32 divides by the number of bins.
Divides(n, key) == Bins(n) = 0 /\ key[1] >= 0

lib1tquery_lookup_ngram(n, key) ==
    /\ Idle
    /\ \/ ~initialized /\ Abort
       \/ initialized /\ grams[n] = "null" /\ Abort
       \/ initialized /\ grams[n] = "freed" /\ Breaks("freed", "lookup")
       \/ /\ initialized /\ grams[n] \in {"live", "hollow"}
          /\ \/ Divides(n, key) /\ Breaks("division", "lookup")
             \/ ~Divides(n, key) /\ Unknown(key) /\ Answer(key, 0, FALSE)
             \/ /\ ~Divides(n, key) /\ ~Unknown(key)
                /\ grams[n] = "hollow" /\ Breaks("hollow", "lookup")
             \/ /\ ~Divides(n, key) /\ ~Unknown(key) /\ grams[n] = "live"
                /\ IF IndexOf(n, key) >= Len(rctxs[n]) THEN Breaks("array", "lookup")
                   ELSE IF do_mmap
                   THEN SearchMap(n, key, Rctx(n, key))
                   ELSE SearchArchive(n, key, Rctx(n, key))

\* A negative id has the count 0; the others are not compared with the size of the
\* table, and nothing asserts that the library is initialised.
lib1tquery_lookup_1gram(a) ==
    /\ Idle /\ a >= 0
    /\ \/ Follow(unigrams, "unigram")
       \/ unigrams = "live" /\ a >= conf.words /\ Breaks("index", "unigram")

\* close() and the descriptor is forgotten.
lib1tquery_suspend_tar ==
    /\ Idle
    /\ \/ Follow(tar, "suspend")
       \/ /\ tar = "live"
          /\ descriptor' = FALSE
          /\ Unchanged
          /\ UNCHANGED <<pointers, rctxs, weighted, mapping, answers, history>>

\* The archive is opened again by its name, which must succeed.
lib1tquery_reopen_tar ==
    /\ Idle
    /\ \/ Follow(tar, "reopen")
       \/ tar = "live" /\ Abort
       \/ /\ tar = "live"
          /\ descriptor' = TRUE
          /\ Unchanged
          /\ UNCHANGED <<pointers, rctxs, weighted, mapping, answers, history>>

\* rand() % ctx.no_weighted_tree_ptrs, and a read in the tree that it draws, whose
\* context was freed by a failed lib1tquery_init or by lib1tquery_quit.
lib1tquery_test_random_read ==
    /\ Idle
    /\ \/ weighted = <<>> /\ Breaks("division", "random_read")
       \/ \E r \in 1..Len(weighted) :
            grams[weighted[r][1]] # "live" /\ Breaks("freed", "random_read")

\* With no tree to dump, the array and the archive are not looked at.
lib1tquery_debug_leafdump(n) ==
    /\ Idle
    /\ grams[n] \in {"live", "hollow"} => MaxIndex(n) > 0
    /\ Follow(IF grams[n] = "live" THEN tar ELSE grams[n], "leafdump")

\* Everything is freed that a successful lib1tquery_init has left; initialized and
\* the pointers stay as they are, and a second call frees it all again.
lib1tquery_quit ==
    /\ Idle
    /\ initialized
    /\ IF quitted THEN Misuse("freed", "quit") ELSE UNCHANGED broken
    /\ quitted' = TRUE
    /\ tar' = "freed" /\ wordhash' = "freed" /\ unigrams' = "freed"
    /\ grams' = [n \in Grams |-> IF grams[n] = "null" THEN "null" ELSE "freed"]
    /\ data' = FALSE /\ descriptor' = FALSE
    /\ Unchanged
    /\ UNCHANGED <<rctxs, weighted, do_mmap, answers, stopped>>

Keys == UNION {DOMAIN Counts[b] : b \in DOMAIN Counts}
Asked == Keys \union UNION {{[k EXCEPT ![1] = -1]} : k \in Keys}
Ids == UNION {{key[i] : i \in DOMAIN key} : key \in Asked}

\* An int holds the number of bytes of the trees of an n.
Countable(bins, n) == RctxBytes * bins^n \in 0..(IntBound - 1)

\* Settings of an n that the builder takes as well, since every bin has a name of its
\* own, and whose trees have room.
Regular(g, n) == g.bins \in 1..LettersEnd /\ g.prefix <= n /\ Countable(g.bins, n)
Sound(n) == Regular(conf.grams[n], n)

\* An archive is made of zero blocks and of the trees of builds, the settings are those
\* that lib1tquery_init takes, an int being less than a hash can be, and the keys are
\* n-grams.
ASSUME ConfigsAssumption ==
    /\ \A b \in DOMAIN Leaves : Leaves[b] \in Nat
    /\ \A c \in Configs :
         /\ c.torn \in Nat /\ Len(c.items) \in Nat
         /\ \A i \in 1..Len(c.items) :
              \/ c.items[i].kind = "zero"
              \/ /\ c.items[i].kind = "member"
                 /\ c.items[i].size \in Nat
                 /\ c.items[i].holds.build \in DOMAIN Leaves
         /\ c.words \in Int
         /\ DOMAIN c.grams \subseteq Grams
         /\ \A n \in DOMAIN c.grams :
              c.grams[n].bins \in 0..(HashRange - 1) /\ c.grams[n].prefix \in Nat
    /\ \A key \in Keys : key \in Seq(Nat) /\ Len(key) \in Grams

\* The archive was packed from a build with the same settings: the file that the builder
\* named after a bin holds that bin.
ASSUME PackedAssumption ==
    \A c \in Configs : \A n \in DOMAIN c.grams :
      LET g == c.grams[n] IN
      \A j \in 0..(g.bins^n - 1), i \in 1..Len(c.items) :
        /\ Regular(g, n)
        /\ c.items[i].kind = "member"
        /\ c.items[i].name = MemberName(BuilderName(g.dir, Digits(g.bins, n, j), g.prefix))
        => c.items[i].holds.bin = j

Call ==
    \/ InitCall
    \/ lib1tquery_dictionary
    \/ \E key \in Asked : lib1tquery_lookup_ngram(Len(key), key)
    \/ \E a \in Ids : lib1tquery_lookup_1gram(a)
    \/ lib1tquery_suspend_tar \/ lib1tquery_reopen_tar
    \/ lib1tquery_test_random_read
    \/ \E n \in Grams : lib1tquery_debug_leafdump(n)
    \/ lib1tquery_quit

Next == Call \/ InitStep \/ NoArchive \/ LoadFails \/ LoadStops \/ NoRctxs

Spec == Init /\ [][Next]_vars

\* lib1tquery_init is one call that runs to its return.
FairSpec == Spec /\ WF_vars(InitStep)

-----------------------------------------------------------------------------

\* The indices of the keys are below the number of trees, for every number of bins that
\* the hashes can be divided by.
KeysHaveBins ==
    \A bins \in 1..(HashRange - 1), key \in Keys :
      LibraryIndex(bins, key) \in 0..(bins^Len(key) - 1)

\* For every number of bins up to the last letter, every n and every split into
\* directory and file, the files of the bins have names of their own, and the library
\* looks for each under the name that the builder gave it; with one bin more two
\* files have the same name.  Every hash and every key belong to a bin.  (It depends
\* on no state and is asked once, before the first call.)
NamesMeet ==
    conf = NoConfig =>
      /\ \A dir \in UNION {{c.grams[n].dir : n \in DOMAIN c.grams} : c \in Configs} :
           \A n \in Grams :
             /\ \A bins \in 1..LettersEnd, prefix \in 0..n : NamedApart(dir, bins, n, prefix)
             /\ Cardinality(Names(dir, LettersEnd + 1, n, 0)) < (LettersEnd + 1)^n
      /\ \A bins \in 1..(HashRange - 1), h \in 0..(HashRange - 1) :
           classify_uint32(bins, h) \in 0..(bins - 1)
      /\ KeysHaveBins

\* The tree the builder put a key in, as the archive has it.
BuiltTree(n, key) ==
    LET g == conf.grams[n]
        path == BuilderName(g.dir, Digits(g.bins, n, BuilderIndex(g.bins, key)), g.prefix)
    IN items[Latest(MemberName(path))].holds

\* A library that says it is initialised has a tree for every bin of every n that is
\* configured soundly, each the one that the builder wrote for that bin, all of one
\* archive; the pointers that random reads draw from lead to its trees.
ReadyMeansComplete ==
    initialized =>
      /\ \A n \in Grams : grams[n] = "null" <=> n \notin DOMAIN conf.grams
      /\ \A n \in DOMAIN conf.grams : Sound(n) /\ grams[n] = "live" =>
           /\ Len(rctxs[n]) = Bins(n)^n
           /\ \A key \in Keys : Len(key) = n => TreeAt(Rctx(n, key)) = BuiltTree(n, key)
      /\ \A r \in 1..Len(weighted) : weighted[r][2] \in 1..Len(rctxs[weighted[r][1]])

\* Of an n that is configured soundly, a lookup gives the count that the builder put
\* into the latest tree of the key's bin, or 0 with a warning when the archive cannot
\* be read, or 0 for a word that is not in the dictionary -- by the archive for every
\* n, by its mapping for NGRAM_SIZE only.
AnswersRight ==
    asked # <<>> /\ Sound(Len(asked)) /\ (do_mmap => Len(asked) = NgramSize) =>
      reply = IF Unknown(asked) \/ warned THEN 0
              ELSE Counts[BuiltTree(Len(asked), asked).build][asked]

\* The trees that the settings ask for and the archive has, and how many leaves they have.
TreesFound ==
    {t \in UNION {{n} \X (0..(MaxIndex(n) - 1)) : n \in DOMAIN conf.grams} :
        LET name == TreeName(t[1], t[2]) IN
        name \in DOMAIN bindings /\ DataAt(bindings[name]) # <<>>}
LeavesOf(t) == Leaves[TreeAt(bindings[TreeName(t[1], t[2])]).build]
LeavesFound == SumFunctionOnSet([t \in TreesFound |-> LeavesOf(t)], TreesFound)

\* The only ways to make the library follow a bad pointer or go beyond a table: a call
\* after lib1tquery_quit; one of the calls that do not assert that it is initialised;
\* an id that is not below unigrams:size; an array of trees or a mapping that could
\* not be had, which lib1tquery_init does not report; an n with more trees than an int
\* can count the bytes of, with no bins, or with a prefix of more letters than n; a
\* mapped lookup of an n for which the mapping has another layout; a random read when
\* every tree is too small for a share of the table; and trees that are larger than
\* the total the shares are computed from.  lib1tquery_init itself frees nothing
\* twice, however often it has failed before.
OnlyKnownMisuse ==
    broken # Fine =>
      \/ quitted
      \/ ~initialized /\ broken.by \in {"unigram", "suspend", "reopen", "random_read", "leafdump"}
      \/ broken.what = "hollow" /\ broken.by \in {"lookup", "leafdump"}
      \/ broken.what = "null" /\ broken.by = "leafdump" /\ DOMAIN conf.grams # Grams
      \/ broken.what = "null" /\ broken.by = "mapped_lookup" /\ do_mmap /\ ~data
      \/ broken.what = "layout" /\ \E n \in DOMAIN conf.grams : n # NgramSize
      \/ broken.what = "index" /\ \E id \in Ids : id >= conf.words
      \/ broken.what = "array" /\ \E n \in DOMAIN conf.grams : ~Countable(Bins(n), n)
      \/ broken.what = "digits" /\ \E n \in DOMAIN conf.grams : conf.grams[n].prefix > n
      \/ /\ broken.what = "division" /\ broken.by = "lookup"
         /\ \E n \in DOMAIN conf.grams : Bins(n) = 0
      \/ broken.what = "division" /\ broken.by = "random_read" /\ weighted = <<>>
      \/ broken.what = "table" /\ AssumedLeaves < LeavesFound

\* A call of lib1tquery_init returns, unless the process ends in it.
InitReturns == phase # "idle" ~> phase = "idle" \/ stopped \/ broken # Fine

=============================================================================
