------------------------------ MODULE Vocabulary ------------------------------
(***************************************************************************)
(* The numbering of the words, from the raw vocabulary to the tables that  *)
(* the library answers from: util/transform_vocab.py writes the two        *)
(* dictionary files, read_wordhashes (jwordhash.c) and initialize_unigrams *)
(* (lib1tquery.c) read them line by line through LineReader.               *)
(*                                                                         *)
(* Characters are their ASCII codes and words sequences of them.  What     *)
(* transformation() does to a word is the constant Normal: all that        *)
(* matters is which words get the same result.                             *)
(***************************************************************************)
EXTENDS LineReader, TLC

CONSTANTS
    RawVocabularies,    \* sequences of records [word, freq]
    Normal,             \* transformation()
    Texts,              \* dictionary files of some other origin
    VocMaxSize,         \* unigrams:size
    Garbage             \* what malloc may leave in a counter

VARIABLES
    raw,            \* the raw vocabulary
    done,           \* its lines that are transformed
    seen,           \* transform_vocab's table of numbers
    next_to_write,
    trans_file, vocab_file,     \* its outputs
    stage,          \* "transform"; "words", "trans", "unigrams" of the library;
                    \* "loaded", "refused", "stopped" (assert or exit)
    taken,          \* how many of the lines handed over are processed
    words,          \* the table of ctx.wordhash
    trans,          \* the table trans_wh
    start,          \* what malloc left in the counters
    unigrams        \* ctx.unigrams

vocVars == <<raw, done, seen, next_to_write, trans_file, vocab_file>>
tableVars == <<words, trans, start, unigrams>>
vars == <<lineVars, vocVars, stage, taken, tableVars>>

STAR == <<60, 42, 62>>                          \* <*>
PP_UNK == <<60, 80, 80, 95, 85, 78, 75, 62>>    \* <PP_UNK>
None == <<>>                                    \* a table without entries

\* print "%s\t%d" and the line that atoll takes the number back from.
Digits[n \in Nat] ==
    IF n < 10 THEN <<48 + n>> ELSE Append(Digits[n \div 10], 48 + (n % 10))
PrintLine(word, n) == word \o <<TAB>> \o Digits[n] \o <<NL>>
Atoll(s) ==
    LET digits == SelectInSeq(s, LAMBDA c : c \notin 48..57)
        number == IF digits = 0 THEN s ELSE SubSeq(s, 1, digits - 1)
    IN FoldLeft(LAMBDA v, c : 10 * v + c - 48, 0, number)

\* lookup_wordhash.
Lookup(table, word) == IF word \in DOMAIN table THEN table[word] ELSE -1

\* transform_vocab.py after its first two addnewmapping calls.
Init ==
    /\ LineInit
    /\ raw \in RawVocabularies
    /\ done = 0
    /\ seen = (STAR :> 0) @@ (PP_UNK :> 1)
    /\ next_to_write = 2
    /\ trans_file = PrintLine(STAR, 0) \o PrintLine(PP_UNK, 1)
    /\ vocab_file = trans_file
    /\ stage = "transform"
    /\ taken = 0
    /\ words = None /\ trans = None /\ start = None /\ unigrams = None

-----------------------------------------------------------------------------

\* wordno: a word that is new gets the next number.
WordNo(word) == IF word \in DOMAIN seen THEN seen[word] ELSE Cardinality(DOMAIN seen)

\* Mutated form of Transform: every line goes into the vocabulary.
TransformListsAll ==
    /\ stage = "transform" /\ done < Len(raw)
    /\ LET key == raw[done + 1].word
           nkey == Normal[key]
           nkeyid == WordNo(nkey)
       IN /\ seen' = (nkey :> nkeyid) @@ seen
          /\ trans_file' = trans_file \o PrintLine(key, nkeyid)
          /\ vocab_file' = vocab_file \o PrintLine(key, nkeyid)
          /\ UNCHANGED next_to_write
    /\ done' = done + 1
    /\ UNCHANGED <<lineVars, raw, stage, taken, tableVars>>

\* One line of the raw vocabulary: the word itself goes into the transformer file,
\* what it is transformed to into the vocabulary, the first time it comes up.
Transform ==
    /\ stage = "transform" /\ done < Len(raw)
    /\ LET key == raw[done + 1].word
           nkey == Normal[key]
           nkeyid == WordNo(nkey)
       IN /\ seen' = (nkey :> nkeyid) @@ seen
          /\ trans_file' = trans_file \o PrintLine(key, nkeyid)
          /\ IF nkeyid >= next_to_write
             THEN /\ vocab_file' = vocab_file \o PrintLine(nkey, nkeyid)
                  /\ next_to_write' = nkeyid + 1
             ELSE UNCHANGED <<vocab_file, next_to_write>>
    /\ done' = done + 1
    /\ UNCHANGED <<lineVars, raw, stage, taken, tableVars>>

\* The raw vocabulary as the file that it is.
RawFile == FlattenSeq([i \in 1..Len(raw) |-> PrintLine(raw[i].word, raw[i].freq)])

\* lib1tquery_init reads the dictionary first: the one that was made, or some text.
LoadWords ==
    /\ stage = "transform" /\ done = Len(raw)
    /\ \/ Open(vocab_file)
       \/ raw = <<>> /\ \E t \in Texts : Open(t)
    /\ stage' = "words"
    /\ UNCHANGED <<vocVars, taken, tableVars>>

\* The loop of each table asks for a line, and the reader works on it.
NextLine ==
    /\ stage \in {"words", "trans", "unigrams"}
    /\ Len(handed) = taken
    /\ CallNext \/ ReadStep
    /\ UNCHANGED <<vocVars, stage, taken, tableVars>>

ReadFails ==
    /\ stage \in {"words", "trans", "unigrams"}
    /\ Len(handed) = taken
    /\ FillFails
    /\ UNCHANGED <<vocVars, stage, taken, tableVars>>

\* ngr_ll_col( f, 1 ) on a line of one column, or exit() within the reader.
Stops ==
    /\ stage \in {"words", "trans", "unigrams"}
    /\ reader \in {"exit", "failed"} \/ (Len(handed) > taken /\ Len(line) < 2)
    /\ stage' = "stopped"
    /\ UNCHANGED <<lineVars, vocVars, taken, tableVars>>

HasLine(at) == stage = at /\ Len(handed) > taken /\ Len(line) >= 2

\* read_wordhashes: the last line of a word decides.
TakeWord ==
    /\ HasLine("words")
    /\ words' = (line[1] :> Atoll(line[2])) @@ words
    /\ taken' = taken + 1
    /\ UNCHANGED <<lineVars, vocVars, stage, trans, start, unigrams>>

TakeTrans ==
    /\ HasLine("trans")
    /\ trans' = (line[1] :> Atoll(line[2])) @@ trans
    /\ taken' = taken + 1
    /\ UNCHANGED <<lineVars, vocVars, stage, words, start, unigrams>>

AtEnd(at) == stage = at /\ Len(handed) = taken /\ reader = "end"

\* A table without entries is a null pointer, and that is taken for a failure.
WordsRead ==
    /\ AtEnd("words")
    /\ IF words = None
       THEN stage' = "refused" /\ UNCHANGED <<lineVars, taken>>
       ELSE stage' = "trans" /\ Open(trans_file) /\ taken' = 0
    /\ UNCHANGED <<vocVars, tableVars>>

\* initialize_unigrams gets its counters from malloc and does not clear them.
TransRead ==
    /\ AtEnd("trans")
    /\ IF trans = None
       THEN stage' = "refused" /\ UNCHANGED <<lineVars, taken, start, unigrams>>
       ELSE /\ \E g \in Garbage : start' = [i \in 0..(VocMaxSize - 1) |-> g]
            /\ unigrams' = start'
            /\ stage' = "unigrams" /\ Open(RawFile) /\ taken' = 0
    /\ UNCHANGED <<vocVars, words, trans>>

\* Mutated form of InTable: the number behind the last counter is taken, too.
InTableOff(id) == id >= 0 /\ id <= VocMaxSize

InTable(id) == id >= 0 /\ id < VocMaxSize

\* A line of the raw vocabulary counts for its word and for the wildcard.
TakeUnigram ==
    /\ HasLine("unigrams")
    /\ LET wordid == Lookup(trans, line[1])
           freq == Atoll(line[2])
           one == [unigrams EXCEPT ![wordid] = @ + freq]
       IN IF InTable(wordid)
          THEN /\ unigrams' = [one EXCEPT ![0] = @ + freq]
               /\ taken' = taken + 1
               /\ UNCHANGED stage
          ELSE stage' = "refused" /\ UNCHANGED <<unigrams, taken>>
    /\ UNCHANGED <<lineVars, vocVars, words, trans, start>>

UnigramsRead ==
    /\ AtEnd("unigrams")
    /\ stage' = "loaded"
    /\ UNCHANGED <<lineVars, vocVars, taken, tableVars>>

LoadStep ==
    \/ NextLine \/ Stops
    \/ TakeWord \/ WordsRead
    \/ TakeTrans \/ TransRead
    \/ TakeUnigram \/ UnigramsRead

Next == Transform \/ LoadWords \/ LoadStep \/ ReadFails

Spec == Init /\ [][Next]_vars

\* Loading is one call of lib1tquery_init, which waits for nothing; a read
\* that fails is possible and never certain.
FairSpec == Spec /\ WF_vars(LoadStep)

-----------------------------------------------------------------------------

RawWords == {raw[i].word : i \in 1..Len(raw)}

\* The frequencies of the raw lines whose word has the number i.
FreqOf(i) ==
    FoldLeft(LAMBDA sum, l : sum + (IF trans[l.word] = i THEN l.freq ELSE 0), 0, raw)

\* The two files that the transformer writes still agree once they have been
\* through print, the line reader and atoll: the vocabulary numbers the transformed
\* words and the two special ones from 0 without a gap and without a number given
\* twice, <*> is 0 and <PP_UNK> 1, and every raw word has the number of what it is
\* transformed to.
DictionariesAgree ==
    raw # <<>> /\ stage \in {"unigrams", "loaded"} =>
      /\ DOMAIN words = {STAR, PP_UNK} \cup {Normal[w] : w \in RawWords}
      /\ {words[w] : w \in DOMAIN words} = 0..(Cardinality(DOMAIN words) - 1)
      /\ words[STAR] = 0 /\ words[PP_UNK] = 1
      /\ \A w \in RawWords : trans[w] = words[Normal[w]]

\* Once the library is loaded, the counter of a number has grown by the frequencies
\* of all raw words with that number and that of <*> by all frequencies -- from
\* whatever malloc left in it.  The counter that lib1tquery_lookup_1gram reads for a
\* word of the dictionary is in the table.  A vocabulary is refused only when it has
\* more numbers than the table has counters.
UnigramsAreSums ==
    /\ stage = "loaded" =>
         /\ raw # <<>> => \A w \in DOMAIN words : words[w] \in DOMAIN unigrams
         /\ \A w \in RawWords : trans[w] \in DOMAIN unigrams
         /\ \A i \in DOMAIN unigrams :
              unigrams[i] = start[i] + FreqOf(i)
                + (IF i = 0 THEN FoldLeft(LAMBDA sum, l : sum + l.freq, 0, raw) ELSE 0)
    /\ stage = "refused" /\ trans # None =>
         Cardinality({trans[w] : w \in DOMAIN trans}) > VocMaxSize

\* Loading comes to an end on every file, with the tables, a refusal or a stop.
LoadingEnds == stage = "words" ~> stage \in {"loaded", "refused", "stopped"}

=============================================================================
