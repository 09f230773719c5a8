------------------------------ MODULE NodeLayout ------------------------------
(***************************************************************************)
(* Where a node of a tree file keeps its entries (sfbti.c, built with      *)
(* USE_VARSIZESTORE): sfbti_w_writenode stores only as many tokens of a    *)
(* key as the n-grams of the file have, sfbti_tar_readnode puts them back  *)
(* where struct sfbti_record has them, and sfbti_maptar_search reads the   *)
(* bytes of the file as if they were that struct.                          *)
(***************************************************************************)
EXTENDS Integers

CONSTANTS
    KeysPerRecord,  \* KEYS_PER_RECORD
    TokenSize,      \* TOKEN_SIZE, the bytes of a token in a key
    SuffixSize,     \* SUFFIX_SIZE, the bytes of a count or an offset
    NgramSize       \* NGRAM_SIZE, the tokens that the struct has room for

ASSUME LayoutAssumption ==
    /\ KeysPerRecord \in Nat \ {0}
    /\ TokenSize \in Nat \ {0}
    /\ SuffixSize \in Nat \ {0}
    /\ NgramSize \in Nat \ {0}

Places == 0..(KeysPerRecord - 1)

\* Entry i in the file: its key, what is behind the key, and behind all of them the
\* number of entries and the flags.
FileKey(n, i) == i * (TokenSize * n + SuffixSize)
FileSuffix(n, i) == (i + 1) * (TokenSize * n) + i * SuffixSize
FileFlags(n) == KeysPerRecord * (TokenSize * n + SuffixSize)

\* The same in the struct, where a key has NGRAM_SIZE tokens.
StructKey(i) == i * (TokenSize * NgramSize + SuffixSize)
StructSuffix(i) == i * (TokenSize * NgramSize + SuffixSize) + TokenSize * NgramSize
StructFlags == KeysPerRecord * (TokenSize * NgramSize + SuffixSize)

\* A node of the file can be used without being read into a struct.
SameLayout(n) ==
    /\ \A i \in Places : FileKey(n, i) = StructKey(i) /\ FileSuffix(n, i) = StructSuffix(i)
    /\ FileFlags(n) = StructFlags

=============================================================================
