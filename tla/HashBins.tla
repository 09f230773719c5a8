------------------------------- MODULE HashBins -------------------------------
(***************************************************************************)
(* Which tree an n-gram is in, and what the file of that tree is called.   *)
(* The builder (mergetapes-to-sfbtin.c) and the library (lib1tquery.c)     *)
(* each have code of their own for both, and the files only meet if the    *)
(* two agree.  Names are sequences of character codes, without the suffix  *)
(* that all of them end in.                                                *)
(***************************************************************************)
EXTENDS Naturals, Sequences, SequencesExt, FiniteSets

CONSTANTS
    HashRange,      \* 2^32
    Hash,           \* murmur_hash of a token: [tokens -> 0..HashRange - 1]
    CharRange,      \* 256
    LetterA,        \* 'a'
    Slash           \* '/'

ASSUME HashAssumption ==
    /\ HashRange \in Nat \ {0}
    /\ \A t \in DOMAIN Hash : Hash[t] \in 0..(HashRange - 1)
    /\ CharRange \in Nat \ {0}
    /\ LetterA \in 1..(CharRange - 1)
    /\ Slash \in 1..(CharRange - 1) /\ Slash < LetterA

\* bins shares of equal size; the hashes behind the last share start again at bin 0.
classify_uint32(bins, h) == (h \div ((HashRange - 1) \div bins)) % bins

\* output_to_sfbti: the index of a key among the files of the builder.
BuilderIndex(bins, key) ==
    FoldLeft(LAMBDA index, t : index * bins + classify_uint32(bins, Hash[t]), 0, key)

\* Mutated form of LibraryIndex: the first token counts least.
LibraryIndexReversed(bins, key) ==
    FoldLeft(LAMBDA index, t : index * bins + classify_uint32(bins, Hash[t]), 0, Reverse(key))

\* lib1tquery_lookup_ngram: the index of a key among the trees of the library.
LibraryIndex(bins, key) ==
    FoldLeft(LAMBDA index, t : index * bins + classify_uint32(bins, Hash[t]), 0, key)

\* xs: the digits of an index.
Digits(bins, n, index) == [k \in 1..n |-> (index \div bins^(n - k)) % bins]

\* sprintf( buf, "%c", x + 'a' ) and strcat: one character, but none if that is the
\* one that ends a string.
Letter(x) ==
    LET c == (x + LetterA) % CharRange IN IF c = 0 THEN <<>> ELSE <<c>>
Letters(xs) == FlattenSeq([k \in 1..Len(xs) |-> Letter(xs[k])])

\* The name of the file: the first digits are the directory, the others the file.
BuilderName(dir, xs, prefix) ==
    dir \o (IF prefix > 0 THEN <<Slash>> \o Letters(SubSeq(xs, 1, prefix)) ELSE <<>>)
        \o <<Slash>> \o Letters(SubSeq(xs, prefix + 1, Len(xs)))

EndedBySlash(s) == IF s # <<>> /\ Last(s) # Slash THEN Append(s, Slash) ELSE s

\* Mutated form of LibraryName: a directory is taken to end in a slash.
LibraryNameBare(dir, xs, prefix) ==
    LET path == IF prefix > 0
                THEN EndedBySlash(dir) \o Letters(SubSeq(xs, 1, prefix)) ELSE dir
    IN path \o Letters(SubSeq(xs, prefix + 1, Len(xs)))

LibraryName(dir, xs, prefix) ==
    LET path == IF prefix > 0
                THEN EndedBySlash(dir) \o Letters(SubSeq(xs, 1, prefix)) ELSE dir
    IN EndedBySlash(path) \o Letters(SubSeq(xs, prefix + 1, Len(xs)))

\* What a file system and tar make of a path: slashes in a row are one, and a
\* leading one is dropped.
MemberName(path) ==
    LET kept == SelectSeq([i \in 1..Len(path) |-> i],
                          LAMBDA i : path[i] = Slash => i > 1 /\ path[i - 1] # Slash)
    IN [k \in 1..Len(kept) |-> path[kept[k]]]

-----------------------------------------------------------------------------

Names(dir, bins, n, prefix) ==
    {LibraryName(dir, Digits(bins, n, j), prefix) : j \in 0..(bins^n - 1)}

\* Every bin has a name of its own, and it is the one that the builder's file has
\* inside the archive, whether or not the builder's directory ends in a slash.
NamedApart(dir, bins, n, prefix) ==
    /\ Cardinality(Names(dir, bins, n, prefix)) = bins^n
    /\ \A j \in 0..(bins^n - 1) : \A built \in {dir, EndedBySlash(dir)} :
         LET xs == Digits(bins, n, j) IN
         MemberName(BuilderName(built, xs, prefix)) = LibraryName(dir, xs, prefix)

\* The letters run out: the next digit is the character that ends a string.
LettersEnd == CharRange - LetterA

=============================================================================
