----------------------------- MODULE PrepareTapes -----------------------------
(***************************************************************************)
(* judysort-prepare-tapes (src/src/judysort-prepare-tapes.c, judysort.c):  *)
(* n-gram lines go into a sorted table in memory, each also under its      *)
(* wildcard patterns when -W is given; whenever the table holds Limit      *)
(* n-grams, and at the end of the input, it is written out as one sorted   *)
(* tape.                                                                   *)
(***************************************************************************)
EXTENDS Integers, Sequences, FiniteSets, Functions

CONSTANTS
    N,              \* the length of the n-grams
    Dictionary,     \* the words of the -T or -V file, with their ids
    Words,          \* the words of the input
    Counts,         \* the counts of the input
    Limit,          \* -L
    AddWildcards,   \* -W
    Source,         \* "transformer" (-T) or "vocabulary" (-V)
    MaxLines        \* bound: lines of input

STAR == "<*>"
PP_UNK == "<PP_UNK>"

ASSUME PrepareAssumption ==
    /\ N \in Nat \ {0}
    /\ \A w \in DOMAIN Dictionary : Dictionary[w] \in Nat
    /\ Counts \subseteq Nat
    /\ Limit \in Nat \ {0}
    /\ AddWildcards \in BOOLEAN
    /\ Source \in {"transformer", "vocabulary"}
    /\ MaxLines \in Nat

VARIABLES
    lookup,         \* the table LOOKUP consults
    wildcard_id, pp_unk_id,
    isequence,      \* the ids of the line being inserted
    count,          \* its count
    mask,           \* j: bit i set means token i stays; without -W there is no loop
    table,          \* judy_ctx: n-gram -> count
    unique,         \* judy_ctx.count
    cursor,         \* the last n-gram that was dumped
    tapes,          \* the tapes written so far, the last one may be open
    ended,          \* the input is at its end
    lines,          \* history: the ids and counts of the lines read
    pc

vars == <<lookup, wildcard_id, pp_unk_id, isequence, count, mask, table, unique,
          cursor, tapes, ended, lines, pc>>

NGram == [1..N -> Nat]

\* How often a line is inserted.
Masks == IF AddWildcards THEN 2 ^ N ELSE 1
Bit(i, j) == (j \div 2 ^ (i - 1)) % 2 = 1

\* The order of the nested Judy tables: the first token that differs decides.
Before(a, b) == \E i \in 1..N : a[i] < b[i] /\ \A h \in 1..(i-1) : a[h] = b[h]

Empty == [k \in {} |-> 0]

CountIn(tab, key) == IF key \in DOMAIN tab THEN tab[key] ELSE 0

\* Mutated form of Added: a repeated n-gram gets the count of its last line.
AddedReplaces(tab, key, c) ==
    [k \in DOMAIN tab \union {key} |-> IF k = key THEN c ELSE tab[k]]

\* judysort_insert: a new value starts at 0, and counts are added up.
Added(tab, key, c) ==
    [k \in DOMAIN tab \union {key} |-> IF k = key THEN CountIn(tab, key) + c ELSE tab[k]]

\* LOOKUP; a word the table does not hold gives -1.
Id(tab, w) == IF w \in DOMAIN tab THEN tab[w] ELSE -1

\* The pattern of a line under mask j: the tokens it keeps, wildcards elsewhere;
\* without -W the n-gram itself.
Pattern(seq, j) ==
    [i \in 1..N |-> IF AddWildcards /\ ~Bit(i, j) THEN wildcard_id ELSE seq[i]]

Init ==
    /\ lookup = Empty
    /\ wildcard_id = -1
    /\ pp_unk_id = -1
    /\ isequence = [i \in 1..N |-> 0]
    /\ count = 0
    /\ mask = Masks
    /\ table = Empty
    /\ unique = 0
    /\ cursor = <<>>
    /\ tapes = <<>>
    /\ ended = FALSE
    /\ lines = <<>>
    /\ pc = "load"

-----------------------------------------------------------------------------

\* The dictionary is read.  With -V it goes into a second variable `words' that
\* hides the one LOOKUP uses, which stays empty.
Load ==
    /\ pc = "load"
    /\ lookup' = IF Source = "transformer" THEN Dictionary ELSE Empty
    /\ pc' = "ids"
    /\ UNCHANGED <<wildcard_id, pp_unk_id, isequence, count, mask, table, unique,
                   cursor, tapes, ended, lines>>

\* The ids of the two special words; the assertions stop the process without them.
FindIds ==
    /\ pc = "ids"
    /\ wildcard_id' = IF AddWildcards THEN Id(lookup, STAR) ELSE -1
    /\ pp_unk_id' = Id(lookup, PP_UNK)
    /\ pc' = IF pp_unk_id' < 0 \/ (AddWildcards /\ wildcard_id' < 0)
             THEN "aborted" ELSE "line"
    /\ UNCHANGED <<lookup, isequence, count, mask, table, unique, cursor, tapes,
                   ended, lines>>

\* Mutated form of ReadLine: an unknown word keeps the -1 of the lookup.
ReadLineKeepsUnknown(words, c) ==
    /\ pc = "line"
    /\ Len(lines) < MaxLines
    /\ isequence' = [i \in 1..N |-> Id(lookup, words[i])]
    /\ count' = c
    /\ mask' = 0
    /\ lines' = Append(lines, [seq |-> isequence', count |-> c])
    /\ pc' = "insert"
    /\ UNCHANGED <<lookup, wildcard_id, pp_unk_id, table, unique, cursor, tapes, ended>>

\* A line of N words and a count; a word that is not found becomes <PP_UNK>.
ReadLine(words, c) ==
    /\ pc = "line"
    /\ Len(lines) < MaxLines
    /\ isequence' = [i \in 1..N |->
                       IF Id(lookup, words[i]) < 0 THEN pp_unk_id ELSE Id(lookup, words[i])]
    /\ count' = c
    /\ mask' = 0
    /\ lines' = Append(lines, [seq |-> isequence', count |-> c])
    /\ pc' = "insert"
    /\ UNCHANGED <<lookup, wildcard_id, pp_unk_id, table, unique, cursor, tapes, ended>>

OpenTape ==
    /\ tapes' = Append(tapes, [recs |-> <<>>, damaged |-> FALSE])
    /\ cursor' = <<>>
    /\ pc' = "dump"

\* Mutated form of Insert: the limit is looked at once per line.
InsertChecksPerLine ==
    /\ pc = "insert"
    /\ LET key == Pattern(isequence, mask) IN
         /\ table' = Added(table, key, count)
         /\ unique' = IF CountIn(table, key) = 0 THEN unique + 1 ELSE unique
    /\ mask' = mask + 1
    /\ IF unique' >= Limit /\ mask' = Masks
       THEN OpenTape
       ELSE pc' = (IF mask' < Masks THEN "insert" ELSE "line") /\ UNCHANGED <<tapes, cursor>>
    /\ UNCHANGED <<lookup, wildcard_id, pp_unk_id, isequence, count, ended, lines>>

\* One pattern is inserted; an n-gram is new when its count is 0.  A full table is
\* dumped at once, even between two patterns of a line.
Insert ==
    /\ pc = "insert"
    /\ LET key == Pattern(isequence, mask) IN
         /\ table' = Added(table, key, count)
         /\ unique' = IF CountIn(table, key) = 0 THEN unique + 1 ELSE unique
    /\ mask' = mask + 1
    /\ IF unique' >= Limit
       THEN OpenTape
       ELSE pc' = (IF mask' < Masks THEN "insert" ELSE "line") /\ UNCHANGED <<tapes, cursor>>
    /\ UNCHANGED <<lookup, wildcard_id, pp_unk_id, isequence, count, ended, lines>>

EndOfInput ==
    /\ pc = "line"
    /\ ended' = TRUE
    /\ OpenTape
    /\ UNCHANGED <<lookup, wildcard_id, pp_unk_id, isequence, count, mask, table,
                   unique, lines>>

Undumped == {k \in DOMAIN table : cursor = <<>> \/ Before(cursor, k)}
Damaged == tapes[Len(tapes)].damaged

\* Mutated form of DumpRecord: any n-gram may come next.
DumpRecordUnsorted ==
    /\ pc = "dump" /\ ~Damaged
    /\ \E k \in Undumped :
         /\ tapes' = [tapes EXCEPT ![Len(tapes)].recs = Append(@, [key |-> k, count |-> table[k]])]
         /\ table' = [h \in DOMAIN table \ {k} |-> table[h]]
    /\ UNCHANGED <<lookup, wildcard_id, pp_unk_id, isequence, count, mask,
                   unique, cursor, ended, lines, pc>>

\* judysort_dump_free_st visits the n-grams in order; judysort_dump_output_gzfile
\* does not look whether the count was written.
DumpRecord ==
    /\ pc = "dump" /\ ~Damaged
    /\ \E k \in Undumped :
         /\ \A h \in Undumped : h = k \/ Before(k, h)
         /\ cursor' = k
         /\ \/ tapes' = [tapes EXCEPT ![Len(tapes)].recs = Append(@, [key |-> k, count |-> table[k]])]
            \/ tapes' = [tapes EXCEPT ![Len(tapes)].damaged = TRUE]
    /\ UNCHANGED <<lookup, wildcard_id, pp_unk_id, isequence, count, mask, table,
                   unique, ended, lines, pc>>

\* The tape cannot be written, or a failed write is noticed at the next n-gram.
DumpFails ==
    /\ pc = "dump" /\ Undumped # {}
    /\ pc' = "failed"
    /\ UNCHANGED <<lookup, wildcard_id, pp_unk_id, isequence, count, mask, table,
                   unique, cursor, tapes, ended, lines>>

\* The table is freed and the tape closed; whether gzclose could write the rest is
\* not looked at.
DumpEnd ==
    /\ pc = "dump" /\ Undumped = {}
    /\ table' = Empty
    /\ unique' = 0
    /\ \/ UNCHANGED tapes
       \/ tapes' = [tapes EXCEPT ![Len(tapes)].damaged = TRUE]
    /\ pc' = IF ended THEN "done" ELSE IF mask < Masks THEN "insert" ELSE "line"
    /\ UNCHANGED <<lookup, wildcard_id, pp_unk_id, isequence, count, mask, cursor,
                   ended, lines>>

Next ==
    \/ Load
    \/ FindIds
    \/ \E words \in [1..N -> Words], c \in Counts : ReadLine(words, c)
    \/ Insert
    \/ EndOfInput
    \/ DumpRecord
    \/ DumpFails
    \/ DumpEnd

Spec == Init /\ [][Next]_vars

-----------------------------------------------------------------------------

TapeRecord == [key : NGram, count : Nat]

\* Every variable has its type; what is inserted are tokens, never a lookup's -1.
TypeOK ==
    /\ lookup \in {Empty, Dictionary}
    /\ wildcard_id \in Nat \union {-1}
    /\ pp_unk_id \in Nat \union {-1}
    /\ isequence \in NGram
    /\ count \in Nat
    /\ mask \in 0..Masks
    /\ DOMAIN table \subseteq NGram
    /\ \A k \in DOMAIN table : table[k] \in Nat
    /\ unique \in Nat
    /\ cursor = <<>> \/ cursor \in NGram
    /\ tapes \in Seq([recs : Seq(TapeRecord), damaged : BOOLEAN])
    /\ ended \in BOOLEAN
    /\ lines \in Seq([seq : NGram, count : Nat])
    /\ Len(lines) <= MaxLines
    /\ pc \in {"load", "ids", "line", "insert", "dump", "done", "failed", "aborted"}

\* Every tape is strictly ascending: what mertap_loop relies on.
TapesSorted ==
    \A t \in 1..Len(tapes) : \A a, b \in 1..Len(tapes[t].recs) :
        a < b => Before(tapes[t].recs[a].key, tapes[t].recs[b].key)

\* No tape and no table outgrows the limit, whatever the counts: an n-gram whose
\* count is 0 is counted as new again and again, which only makes the dump earlier.
LimitHolds ==
    /\ Cardinality(DOMAIN table) <= unique
    /\ unique <= Limit
    /\ pc \in {"line", "insert"} => unique < Limit
    /\ \A t \in 1..Len(tapes) : Len(tapes[t].recs) <= Limit

\* What tape t holds for the n-gram k.
CountAt(t, k) == [r \in 1..Len(tapes[t].recs) |->
                    IF tapes[t].recs[r].key = k THEN tapes[t].recs[r].count ELSE 0]
OnTapes(k) == SumFunction([t \in 1..Len(tapes) |-> SumFunction(CountAt(t, k))])

InTable(k) ==
    IF pc = "dump" /\ k \notin Undumped THEN 0 ELSE CountIn(table, k)

\* How many masks of a line were inserted by now.
Inserted(l) == IF l = Len(lines) THEN mask ELSE Masks

\* What line l adds to the n-gram k: its count for every mask under which it is k,
\* so that a wildcard matches every word.
LineAt(l, k) == [j \in 0..(Masks - 1) |->
                   IF Pattern(lines[l].seq, j) = k THEN lines[l].count ELSE 0]
LineSum(l, k) == SumFunctionOnSet(LineAt(l, k), 0..(Inserted(l) - 1))

\* What an n-gram's count should be.
Expected(k) == SumFunction([l \in 1..Len(lines) |-> LineSum(l, k)])

\* Unless a tape was damaged, the tapes and the table together hold for every
\* n-gram and every wildcard pattern exactly the sum of its lines: dumping in the
\* middle of a line neither loses a pattern nor counts one twice.
CountsKept ==
    (pc # "failed" /\ \A t \in 1..Len(tapes) : ~tapes[t].damaged) =>
        \A k \in UNION {{Pattern(lines[l].seq, j) : j \in 0..(Masks - 1)}
                         : l \in 1..Len(lines)} :
            OnTapes(k) + InTable(k) = Expected(k)

\* judysort-prepare-tapes.c:96: "input arguments -V (vocabulary file) and -T
\* (transformer) both missing": one of the two is enough to start.
OneDictionarySuffices ==
    pc = "aborted" => {STAR, PP_UNK} \ DOMAIN Dictionary # {}

=============================================================================
