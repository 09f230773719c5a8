----------------------------- MODULE VocabularyMC -----------------------------
(***************************************************************************)
(* The model checking instance of Vocabulary: raw vocabularies of up to    *)
(* three lines, and dictionary files glued together from up to three       *)
(* pieces that hit every edge of a line buffer of twelve characters.       *)
(***************************************************************************)
EXTENDS Vocabulary

a == 97
x == 120

\* A word, two words with the same transformation, one too long for the buffer with
\* its number behind it, and the wildcard itself.
RawLines ==
    { [word |-> <<a>>, freq |-> 1],
      [word |-> <<x, 49>>, freq |-> 1],
      [word |-> <<x, 50>>, freq |-> 12],
      [word |-> [i \in 1..10 |-> a], freq |-> 1],
      [word |-> STAR, freq |-> 1] }
MCRawVocabularies == UNION {[1..n -> RawLines] : n \in 0..3}

\* Digits become 0.
MCNormal ==
    [w \in {l.word : l \in RawLines} |->
       IF w[1] = x THEN <<x, 48>> ELSE w]

As(n) == [i \in 1..n |-> a]
Chunks ==
    { <<NL>>, <<SPACE, NL>>,
      <<a, TAB, 53, NL>>, <<a, SPACE, NL>>, <<a, NL>>,
      <<a, SPACE, TAB, a, SPACE, a, NL>>,                   \* five columns
      As(2),                                                \* no newline behind it
      As(8) \o <<TAB, 55, 57, NL>>,                         \* fills the buffer
      As(9) \o <<TAB, 55, 57, NL>>, As(12) }                \* does not fit
MCTexts == {FlattenSeq(s) : s \in UNION {[1..n -> Chunks] : n \in 0..3}}

=============================================================================
