-------------------------- MODULE PrepareTapesProofs --------------------------
(***************************************************************************)
(* The preparation of the tapes for every length of the n-grams, every     *)
(* dictionary and every limit: the tapes are sorted, the limit holds, and  *)
(* no count is lost.                                                       *)
(***************************************************************************)
EXTENDS PrepareTapes, Sums, SequenceTheorems

-----------------------------------------------------------------------------
(* The inductive invariant                                                 *)

Tape == [recs : Seq(TapeRecord), damaged : BOOLEAN]
Line == [seq : NGram, count : Nat]

\* The ids are known before the first line, and nothing is written before it; a
\* line whose masks are not done is the last one.
Progress ==
    /\ pc \in {"load", "ids", "aborted"} =>
         lines = <<>> /\ tapes = <<>> /\ table = Empty /\ mask = Masks /\ unique = 0
    /\ pc \notin {"load", "ids", "aborted"} =>
         pp_unk_id \in Nat /\ (AddWildcards => wildcard_id \in Nat)
    /\ pc = "line" => mask = Masks
    /\ pc = "insert" => mask < Masks
    /\ mask < Masks => /\ Len(lines) >= 1
                       /\ lines[Len(lines)] = [seq |-> isequence, count |-> count]

\* The cursor of a dump is the last n-gram on the tape, and what is on the tape and
\* what is still to be dumped is not more than the limit.
Dumping ==
    pc = "dump" =>
        /\ Len(tapes) >= 1
        /\ LET recs == tapes[Len(tapes)].recs IN
             /\ ~Damaged => IF Len(recs) = 0 THEN cursor = <<>>
                            ELSE cursor = recs[Len(recs)].key
             /\ Len(recs) + Cardinality(Undumped) <= Limit

PrepareInv ==
    /\ TypeOK
    /\ Progress
    /\ IsFiniteSet(DOMAIN table)
    /\ Dumping
    /\ TapesSorted
    /\ LimitHolds

-----------------------------------------------------------------------------
(* The order, the masks and the table                                      *)

\* The order of the n-grams is a strict one.
LEMMA BeforeIsStrict ==
    ASSUME NEW a \in NGram, NEW b \in NGram, NEW c \in NGram
    PROVE  /\ ~Before(a, a)
           /\ Before(a, b) /\ Before(b, c) => Before(a, c)
<1>1. N \in Nat /\ \A i \in 1..N : a[i] \in Nat /\ b[i] \in Nat /\ c[i] \in Nat
  BY PrepareAssumption DEF NGram
<1>2. ~Before(a, a)
  BY <1>1 DEF Before
<1>3. ASSUME Before(a, b), Before(b, c) PROVE Before(a, c)
  <2>1. PICK i \in 1..N : a[i] < b[i] /\ \A h \in 1..(i-1) : a[h] = b[h]
    BY <1>3 DEF Before
  <2>2. PICK j \in 1..N : b[j] < c[j] /\ \A h \in 1..(j-1) : b[h] = c[h]
    BY <1>3 DEF Before
  <2>3. CASE i <= j
    <3>1. a[i] < c[i] /\ \A h \in 1..(i-1) : a[h] = c[h]
      BY <1>1, <2>1, <2>2, <2>3
    <3> QED BY <3>1 DEF Before
  <2>4. CASE j < i
    <3>1. a[j] < c[j] /\ \A h \in 1..(j-1) : a[h] = c[h]
      BY <1>1, <2>1, <2>2, <2>4
    <3> QED BY <3>1 DEF Before
  <2> QED BY <2>1, <2>2, <2>3, <2>4
<1> QED BY <1>2, <1>3

\* An n-gram is not empty.
LEMMA NGramNotEmpty == \A a \in NGram : a # <<>>
  BY PrepareAssumption DEF NGram

\* A line is inserted at least once.
LEMMA MasksType == Masks \in Nat /\ Masks >= 1
<1>1. CASE AddWildcards
  <2>1. N \in Nat
    BY PrepareAssumption
  <2>2. IsFiniteSet(1..N) /\ Cardinality(1..N) = N
    BY <2>1, FS_Interval
  <2>3. IsFiniteSet(SUBSET (1..N)) /\ Cardinality(SUBSET (1..N)) = 2 ^ N
    BY <2>2, FS_SUBSET
  <2>4. Cardinality(SUBSET (1..N)) \in Nat /\ Cardinality(SUBSET (1..N)) # 0
    BY <2>3, FS_CardinalityType, FS_EmptySet
  <2> QED BY <1>1, <2>3, <2>4 DEF Masks
<1>2. CASE ~AddWildcards
  BY <1>2 DEF Masks
<1> QED BY <1>1, <1>2

\* What is inserted for a line is an n-gram of ids.
LEMMA PatternType ==
    ASSUME NEW seq \in NGram, NEW j, AddWildcards => wildcard_id \in Nat
    PROVE  Pattern(seq, j) \in NGram
  BY DEF Pattern, NGram

\* Insertion adds to one count of the table.
LEMMA AddedProperties ==
    ASSUME DOMAIN table \subseteq NGram, \A k \in DOMAIN table : table[k] \in Nat,
           IsFiniteSet(DOMAIN table), NEW key \in NGram, NEW c \in Nat
    PROVE  /\ DOMAIN Added(table, key, c) = DOMAIN table \union {key}
           /\ \A k \in DOMAIN table \union {key} : Added(table, key, c)[k] \in Nat
           /\ \A k : CountIn(table, k) \in Nat
           /\ \A k : CountIn(Added(table, key, c), k) =
                       CountIn(table, k) + (IF k = key THEN c ELSE 0)
           /\ IsFiniteSet(DOMAIN Added(table, key, c))
           /\ Cardinality(DOMAIN Added(table, key, c)) <=
                Cardinality(DOMAIN table) + (IF CountIn(table, key) = 0 THEN 1 ELSE 0)
<1>1. DOMAIN Added(table, key, c) = DOMAIN table \union {key}
  BY DEF Added
<1>2. \A k : CountIn(table, k) \in Nat
  BY DEF CountIn
<1>3. \A k \in DOMAIN table \union {key} : Added(table, key, c)[k] =
         IF k = key THEN CountIn(table, key) + c ELSE table[k]
  BY DEF Added
<1>4. \A k \in DOMAIN table \union {key} : Added(table, key, c)[k] \in Nat
  BY <1>2, <1>3
<1>5. ASSUME NEW k
      PROVE  CountIn(Added(table, key, c), k) =
             CountIn(table, k) + (IF k = key THEN c ELSE 0)
  <2>1. CASE k = key
    BY <1>1, <1>2, <1>3, <2>1 DEF CountIn
  <2>2. CASE k # key
    BY <1>1, <1>2, <1>3, <2>2 DEF CountIn
  <2> QED BY <2>1, <2>2
<1>6. /\ IsFiniteSet(DOMAIN table \union {key})
      /\ Cardinality(DOMAIN table \union {key}) =
           (IF key \in DOMAIN table THEN Cardinality(DOMAIN table)
            ELSE Cardinality(DOMAIN table) + 1)
      /\ Cardinality(DOMAIN table) \in Nat
  BY FS_AddElement, FS_CardinalityType
<1>7. CountIn(table, key) # 0 => key \in DOMAIN table
  BY DEF CountIn
<1> QED BY <1>1, <1>2, <1>4, <1>5, <1>6, <1>7

\* A tape with one record more, or damaged, among the others.
LEMMA TapeChanges ==
    ASSUME tapes \in Seq(Tape), Len(tapes) >= 1
    PROVE  LET n == Len(tapes) IN
           /\ n \in Nat /\ n \in 1..n /\ tapes[n] \in Tape
           /\ tapes[n].recs \in Seq(TapeRecord) /\ Len(tapes[n].recs) \in Nat
           /\ \A t \in 1..n : tapes[t] \in Tape
           /\ \A r \in TapeRecord :
                LET new == [tapes EXCEPT ![n].recs = Append(@, r)] IN
                /\ new \in Seq(Tape) /\ Len(new) = n
                /\ \A t \in 1..n : t # n => new[t] = tapes[t]
                /\ new[n].recs = Append(tapes[n].recs, r)
                /\ new[n].damaged = tapes[n].damaged
           /\ LET new == [tapes EXCEPT ![n].damaged = TRUE] IN
                /\ new \in Seq(Tape) /\ Len(new) = n
                /\ \A t \in 1..n : t # n => new[t] = tapes[t]
                /\ new[n].recs = tapes[n].recs
                /\ new[n].damaged = TRUE
<1> DEFINE n == Len(tapes)
<1>1. n \in Nat /\ n \in 1..n /\ \A t \in 1..n : tapes[t] \in Tape
  BY ElementOfSeq
<1>2. tapes[n].recs \in Seq(TapeRecord) /\ Len(tapes[n].recs) \in Nat
  BY <1>1 DEF Tape
<1>3. ASSUME NEW r \in TapeRecord
      PROVE  LET new == [tapes EXCEPT ![n].recs = Append(@, r)] IN
                /\ new \in Seq(Tape) /\ Len(new) = n
                /\ \A t \in 1..n : t # n => new[t] = tapes[t]
                /\ new[n].recs = Append(tapes[n].recs, r)
                /\ new[n].damaged = tapes[n].damaged
  <2> DEFINE e == [tapes[n] EXCEPT !.recs = Append(@, r)]
             new == [tapes EXCEPT ![n] = e]
  <2>1. e \in Tape /\ e.recs = Append(tapes[n].recs, r) /\ e.damaged = tapes[n].damaged
    <3> DEFINE s == Append(tapes[n].recs, r)
    <3>1. s \in Seq(TapeRecord)
      BY <1>2
    <3>2. e = [tapes[n] EXCEPT !.recs = s]
      OBVIOUS
    <3> HIDE DEF s, e
    <3>3. e \in Tape /\ e.recs = s
      BY <1>1, <3>1, <3>2 DEF Tape
    <3>4. e.damaged = tapes[n].damaged
      BY <1>1, <3>2, Zenon DEF Tape
    <3> QED BY <3>3, <3>4 DEF s
  <2> HIDE DEF e
  <2>2. new \in Seq(Tape) /\ Len(new) = n
        /\ \A t \in 1..n : new[t] = IF t = n THEN e ELSE tapes[t]
    BY <1>1, <2>1, ExceptSeq
  <2> QED BY <1>1, <2>1, <2>2 DEF e
<1>4. LET new == [tapes EXCEPT ![n].damaged = TRUE] IN
                /\ new \in Seq(Tape) /\ Len(new) = n
                /\ \A t \in 1..n : t # n => new[t] = tapes[t]
                /\ new[n].recs = tapes[n].recs
                /\ new[n].damaged = TRUE
  <2> DEFINE e == [tapes[n] EXCEPT !.damaged = TRUE]
             new == [tapes EXCEPT ![n] = e]
  <2>1. e \in Tape /\ e.recs = tapes[n].recs /\ e.damaged = TRUE
    BY <1>1 DEF Tape
  <2> HIDE DEF e
  <2>2. new \in Seq(Tape) /\ Len(new) = n
        /\ \A t \in 1..n : new[t] = IF t = n THEN e ELSE tapes[t]
    BY <1>1, <2>1, ExceptSeq
  <2> QED BY <1>1, <2>1, <2>2 DEF e
<1> QED BY <1>1, <1>2, <1>3, <1>4

-----------------------------------------------------------------------------
(* Every step keeps the invariant                                          *)

\* A word's id, or -1.
LEMMA IdType ==
    ASSUME lookup \in {Empty, Dictionary}, NEW w
    PROVE  Id(lookup, w) \in Nat \union {-1}
  BY PrepareAssumption DEF Id, Empty

\* Before the program runs there is no line and no tape.
LEMMA PrepareInit == Init => PrepareInv
<1> SUFFICES ASSUME Init PROVE PrepareInv
  OBVIOUS
<1>1. N \in Nat /\ Limit \in Nat \ {0} /\ MaxLines \in Nat /\ Masks \in Nat
  BY PrepareAssumption, MasksType
<1>2. DOMAIN table = {} /\ IsFiniteSet(DOMAIN table) /\ Cardinality(DOMAIN table) = 0
  BY FS_EmptySet DEF Init, Empty
<1>3. TypeOK
  <2>1. isequence \in NGram /\ count \in Nat /\ mask \in 0..Masks /\ unique \in Nat
    BY <1>1 DEF Init, NGram
  <2>2. /\ tapes \in Seq([recs : Seq(TapeRecord), damaged : BOOLEAN])
        /\ lines \in Seq([seq : NGram, count : Nat]) /\ Len(lines) <= MaxLines
    BY <1>1 DEF Init
  <2>3. lookup \in {Empty, Dictionary} /\ DOMAIN table \subseteq NGram
    BY <1>2 DEF Init
  <2>4. \A k \in DOMAIN table : table[k] \in Nat
    BY <1>2
  <2> QED BY <2>1, <2>2, <2>3, <2>4 DEF Init, TypeOK
<1>4. Progress /\ Dumping /\ TapesSorted /\ LimitHolds
  BY <1>1, <1>2 DEF Init, Progress, Dumping, TapesSorted, LimitHolds
<1> QED BY <1>2, <1>3, <1>4 DEF PrepareInv

\* The dictionary is loaded, and the two special words are looked up.
LEMMA StartKeeps ==
    ASSUME PrepareInv, Load \/ FindIds
    PROVE  PrepareInv'
<1>1. /\ TypeOK /\ Progress /\ IsFiniteSet(DOMAIN table) /\ Dumping /\ TapesSorted
      /\ LimitHolds
  BY DEF PrepareInv
<1>2. /\ UNCHANGED <<isequence, count, mask, table, unique, cursor, tapes, ended, lines>>
      /\ pc \in {"load", "ids"}
  BY DEF Load, FindIds
<1>3. Limit \in Nat \ {0} /\ unique = 0
  BY <1>1, <1>2, PrepareAssumption DEF Progress
<1>4. CASE Load
  <2>1. /\ UNCHANGED <<wildcard_id, pp_unk_id>> /\ lookup' \in {Empty, Dictionary}
        /\ pc' = "ids" /\ pc = "load"
    BY <1>4 DEF Load
  <2>2. TypeOK'
    BY <1>1, <1>2, <2>1 DEF TypeOK
  <2>3. Progress' /\ Dumping' /\ TapesSorted' /\ LimitHolds'
    BY <1>1, <1>2, <2>1 DEF Progress, Dumping, TapesSorted, LimitHolds
  <2> QED BY <1>1, <1>2, <2>2, <2>3 DEF PrepareInv
<1>5. CASE FindIds
  <2>1. /\ pc = "ids" /\ lookup' = lookup
        /\ wildcard_id' = (IF AddWildcards THEN Id(lookup, STAR) ELSE -1)
        /\ pp_unk_id' = Id(lookup, PP_UNK)
        /\ pc' = (IF pp_unk_id' < 0 \/ (AddWildcards /\ wildcard_id' < 0)
                  THEN "aborted" ELSE "line")
    BY <1>5 DEF FindIds
  <2>2. wildcard_id' \in Nat \union {-1} /\ pp_unk_id' \in Nat \union {-1}
    <3>1. Id(lookup, STAR) \in Nat \union {-1} /\ Id(lookup, PP_UNK) \in Nat \union {-1}
      BY <1>1, IdType DEF TypeOK
    <3> QED BY <2>1, <3>1
  <2>3. TypeOK'
    BY <1>1, <1>2, <2>1, <2>2 DEF TypeOK
  <2>4. pc' = "line" => pp_unk_id' \in Nat /\ (AddWildcards => wildcard_id' \in Nat)
    BY <2>1, <2>2
  <2>5. Progress' /\ Dumping' /\ TapesSorted' /\ LimitHolds'
    BY <1>1, <1>2, <1>3, <2>1, <2>4 DEF Progress, Dumping, TapesSorted, LimitHolds
  <2> QED BY <1>1, <1>2, <2>3, <2>5 DEF PrepareInv
<1> QED BY <1>4, <1>5

\* A line is read: unknown words are replaced, so that only ids are inserted.
LEMMA ReadLineKeeps ==
    ASSUME PrepareInv, NEW words \in [1..N -> Words], NEW c \in Counts, ReadLine(words, c)
    PROVE  PrepareInv'
<1>1. /\ TypeOK /\ Progress /\ IsFiniteSet(DOMAIN table) /\ Dumping /\ TapesSorted
      /\ LimitHolds
  BY DEF PrepareInv
<1>2. /\ pc = "line" /\ pc' = "insert" /\ Len(lines) < MaxLines
      /\ isequence' = [i \in 1..N |->
                       IF Id(lookup, words[i]) < 0 THEN pp_unk_id ELSE Id(lookup, words[i])]
      /\ count' = c /\ mask' = 0
      /\ lines' = Append(lines, [seq |-> isequence', count |-> c])
      /\ UNCHANGED <<lookup, wildcard_id, pp_unk_id, table, unique, cursor, tapes, ended>>
  BY DEF ReadLine
<1>3. Masks \in Nat /\ Masks >= 1 /\ MaxLines \in Nat /\ c \in Nat
  BY MasksType, PrepareAssumption
<1>4. isequence' \in NGram
  <2>1. pp_unk_id \in Nat
    BY <1>1, <1>2 DEF Progress
  <2>2. \A w : Id(lookup, w) \in Nat \union {-1}
    BY <1>1, IdType DEF TypeOK
  <2> QED BY <1>2, <2>1, <2>2 DEF NGram
<1>5. /\ lines' \in Seq(Line) /\ Len(lines') = Len(lines) + 1 /\ Len(lines) \in Nat
      /\ lines'[Len(lines')] = [seq |-> isequence', count |-> count']
  <2>1. lines \in Seq(Line)
    BY <1>1 DEF TypeOK, Line
  <2>2. [seq |-> isequence', count |-> c] \in Line
    BY <1>3, <1>4 DEF Line
  <2> QED BY <1>2, <2>1, <2>2, AppendProperties
<1>6. TypeOK'
  BY <1>1, <1>2, <1>3, <1>4, <1>5 DEF TypeOK, Line
<1>7. Progress'
  BY <1>1, <1>2, <1>3, <1>5 DEF Progress
<1>8. Dumping' /\ TapesSorted' /\ LimitHolds'
  BY <1>1, <1>2 DEF Dumping, TapesSorted, LimitHolds
<1> QED BY <1>1, <1>2, <1>6, <1>7, <1>8 DEF PrepareInv

\* A new tape is opened for all that is in the table.
LEMMA OpenKeeps ==
    ASSUME tapes \in Seq(Tape), TapesSorted, OpenTape,
           \A t \in 1..Len(tapes) : Len(tapes[t].recs) <= Limit,
           IsFiniteSet(DOMAIN table'), Cardinality(DOMAIN table') <= Limit
    PROVE  /\ tapes' \in Seq(Tape) /\ Len(tapes') = Len(tapes) + 1 /\ Len(tapes) \in Nat
           /\ \A t \in 1..Len(tapes) : tapes'[t] = tapes[t]
           /\ tapes'[Len(tapes) + 1] = [recs |-> <<>>, damaged |-> FALSE]
           /\ cursor' = <<>> /\ pc' = "dump" /\ Dumping' /\ TapesSorted'
           /\ \A t \in 1..Len(tapes') : Len(tapes'[t].recs) <= Limit
<1> DEFINE n == Len(tapes)
           e == [recs |-> <<>>, damaged |-> FALSE]
<1>1. e \in Tape /\ e.recs = <<>> /\ e.damaged = FALSE /\ Len(e.recs) = 0
  BY DEF Tape
<1>2. cursor' = <<>> /\ pc' = "dump" /\ tapes' = Append(tapes, e)
  BY DEF OpenTape
<1> HIDE DEF e
<1>3. /\ tapes' \in Seq(Tape) /\ Len(tapes') = n + 1 /\ n \in Nat
      /\ \A t \in 1..n : tapes'[t] = tapes[t]
      /\ tapes'[n + 1] = e
  BY <1>1, <1>2, AppendProperties
<1>4. Limit \in Nat
  BY PrepareAssumption
<1>5. Undumped' = DOMAIN table'
  BY <1>2 DEF Undumped
<1>6. Cardinality(Undumped') <= Limit
  BY <1>5
<1>7. Dumping'
  <2>1. /\ Len(tapes') = n + 1 /\ Len(tapes') >= 1 /\ tapes'[n + 1].recs = <<>>
        /\ Len(tapes'[n + 1].recs) = 0
    BY <1>1, <1>3
  <2>2. 0 + Cardinality(Undumped') = Cardinality(Undumped')
    <3>1. Cardinality(DOMAIN table') \in Nat
      BY FS_CardinalityType
    <3> QED BY <1>5, <3>1
  <2>3. Len(tapes'[n + 1].recs) + Cardinality(Undumped') <= Limit
    BY <1>6, <2>1, <2>2
  <2> QED BY <1>2, <2>1, <2>3 DEF Dumping
<1>8. TapesSorted'
  <2> SUFFICES ASSUME NEW t \in 1..(n + 1), NEW a \in 1..Len(tapes'[t].recs),
                      NEW b \in 1..Len(tapes'[t].recs), a < b
               PROVE  Before(tapes'[t].recs[a].key, tapes'[t].recs[b].key)
    BY <1>3, Zenon DEF TapesSorted
  <2>1. t # n + 1
    BY <1>1, <1>3
  <2>2. t \in 1..n /\ tapes'[t] = tapes[t]
    BY <1>3, <2>1
  <2> QED BY <2>2 DEF TapesSorted
<1>9. \A t \in 1..Len(tapes') : Len(tapes'[t].recs) <= Limit
  BY <1>1, <1>3, <1>4
<1> QED BY <1>2, <1>3, <1>7, <1>8, <1>9 DEF e

\* One pattern is inserted: at most one n-gram is new, and a table that is full is
\* dumped at once.
LEMMA InsertKeeps ==
    ASSUME PrepareInv, Insert
    PROVE  PrepareInv'
<1>1. /\ TypeOK /\ Progress /\ IsFiniteSet(DOMAIN table) /\ Dumping /\ TapesSorted
      /\ LimitHolds
  BY DEF PrepareInv
<1>2. PICK key : key = Pattern(isequence, mask)
  OBVIOUS
<1>3. /\ pc = "insert" /\ table' = Added(table, key, count)
      /\ unique' = (IF CountIn(table, key) = 0 THEN unique + 1 ELSE unique)
      /\ mask' = mask + 1
      /\ UNCHANGED <<lookup, wildcard_id, pp_unk_id, isequence, count, ended, lines>>
  BY <1>2 DEF Insert
<1>4. \/ unique' >= Limit /\ OpenTape
      \/ /\ ~(unique' >= Limit) /\ UNCHANGED <<tapes, cursor>>
         /\ pc' = (IF mask' < Masks THEN "insert" ELSE "line")
  BY DEF Insert
<1>5. /\ Limit \in Nat \ {0} /\ Masks \in Nat /\ unique \in Nat /\ unique < Limit
      /\ mask \in Nat /\ mask < Masks /\ pp_unk_id \in Nat
      /\ (AddWildcards => wildcard_id \in Nat)
      /\ isequence \in NGram /\ count \in Nat
  BY <1>1, <1>3, PrepareAssumption, MasksType DEF TypeOK, Progress, LimitHolds
<1>6. key \in NGram
  BY <1>2, <1>5, PatternType
<1>7. /\ DOMAIN table' = DOMAIN table \union {key}
      /\ \A k \in DOMAIN table' : table'[k] \in Nat
      /\ IsFiniteSet(DOMAIN table')
      /\ Cardinality(DOMAIN table') <=
           Cardinality(DOMAIN table) + (IF CountIn(table, key) = 0 THEN 1 ELSE 0)
      /\ Cardinality(DOMAIN table') \in Nat /\ Cardinality(DOMAIN table) \in Nat
  <2>1. DOMAIN table \subseteq NGram /\ \A k \in DOMAIN table : table[k] \in Nat
    BY <1>1 DEF TypeOK
  <2> QED BY <1>1, <1>3, <1>5, <1>6, <2>1, AddedProperties, FS_CardinalityType
<1>8. unique' \in Nat /\ unique' <= Limit /\ Cardinality(DOMAIN table') <= unique'
  BY <1>1, <1>3, <1>5, <1>7 DEF LimitHolds
<1>9. tapes \in Seq(Tape) /\ \A t \in 1..Len(tapes) : Len(tapes[t].recs) <= Limit
  BY <1>1 DEF TypeOK, Tape, LimitHolds
<1>10. DOMAIN table' \subseteq NGram
  BY <1>1, <1>6, <1>7 DEF TypeOK
<1>11. mask' \in 0..Masks
  BY <1>3, <1>5
<1>12. CASE unique' >= Limit /\ OpenTape
  <2>1. Cardinality(DOMAIN table') <= Limit
    BY <1>5, <1>7, <1>8
  <2>2. /\ tapes' \in Seq(Tape) /\ cursor' = <<>> /\ pc' = "dump" /\ Dumping' /\ TapesSorted'
        /\ \A t \in 1..Len(tapes') : Len(tapes'[t].recs) <= Limit
    BY <1>1, <1>7, <1>9, <1>12, <2>1, OpenKeeps
  <2>3. TypeOK'
    BY <1>1, <1>3, <1>7, <1>8, <1>10, <1>11, <2>2 DEF TypeOK, Tape
  <2>4. Progress'
    BY <1>1, <1>3, <1>5, <2>2 DEF Progress
  <2>5. LimitHolds'
    BY <1>8, <2>2 DEF LimitHolds
  <2> QED BY <1>7, <2>2, <2>3, <2>4, <2>5 DEF PrepareInv
<1>13. CASE /\ ~(unique' >= Limit) /\ UNCHANGED <<tapes, cursor>>
            /\ pc' = (IF mask' < Masks THEN "insert" ELSE "line")
  <2>1. unique' < Limit
    BY <1>5, <1>8, <1>13
  <2>2. TypeOK'
    BY <1>1, <1>3, <1>7, <1>8, <1>10, <1>11, <1>13 DEF TypeOK
  <2>3. Progress'
    BY <1>1, <1>3, <1>5, <1>13 DEF Progress
  <2>4. LimitHolds' /\ Dumping' /\ TapesSorted'
    BY <1>1, <1>8, <1>9, <1>13, <2>1 DEF LimitHolds, Dumping, TapesSorted
  <2> QED BY <1>7, <2>2, <2>3, <2>4 DEF PrepareInv
<1> QED BY <1>4, <1>12, <1>13

\* The input ends, and what is left is dumped.
LEMMA EndOfInputKeeps ==
    ASSUME PrepareInv, EndOfInput
    PROVE  PrepareInv'
<1>1. /\ TypeOK /\ Progress /\ IsFiniteSet(DOMAIN table) /\ Dumping /\ TapesSorted
      /\ LimitHolds
  BY DEF PrepareInv
<1>2. /\ pc = "line" /\ ended' = TRUE /\ OpenTape
      /\ UNCHANGED <<lookup, wildcard_id, pp_unk_id, isequence, count, mask, table,
                     unique, lines>>
  BY DEF EndOfInput
<1>3. tapes \in Seq(Tape) /\ \A t \in 1..Len(tapes) : Len(tapes[t].recs) <= Limit
  BY <1>1 DEF TypeOK, Tape, LimitHolds
<1>4. Cardinality(DOMAIN table') <= Limit
  <2>1. /\ Cardinality(DOMAIN table) \in Nat /\ unique \in Nat /\ Limit \in Nat
        /\ Cardinality(DOMAIN table) <= unique /\ unique <= Limit
    BY <1>1, PrepareAssumption, FS_CardinalityType DEF TypeOK, LimitHolds
  <2> QED BY <1>2, <2>1
<1>5. /\ tapes' \in Seq(Tape) /\ cursor' = <<>> /\ pc' = "dump" /\ Dumping' /\ TapesSorted'
      /\ \A t \in 1..Len(tapes') : Len(tapes'[t].recs) <= Limit
  BY <1>1, <1>2, <1>3, <1>4, OpenKeeps
<1>6. TypeOK'
  BY <1>1, <1>2, <1>5 DEF TypeOK, Tape
<1>7. Progress' /\ LimitHolds'
  BY <1>1, <1>2, <1>5 DEF Progress, LimitHolds
<1> QED BY <1>1, <1>2, <1>5, <1>6, <1>7 DEF PrepareInv

\* The next n-gram of a dump is behind the cursor, and all others that are left are
\* behind it.
LEMMA NextNGram ==
    ASSUME DOMAIN table \subseteq NGram, IsFiniteSet(DOMAIN table),
           cursor = <<>> \/ cursor \in NGram,
           UNCHANGED table, NEW k \in Undumped,
           \A h \in Undumped : h = k \/ Before(k, h), cursor' = k
    PROVE  /\ k \in NGram /\ k \in DOMAIN table /\ cursor' # <<>>
           /\ cursor # <<>> => Before(cursor, k)
           /\ Undumped' = Undumped \ {k}
           /\ Cardinality(Undumped) \in Nat
           /\ Cardinality(Undumped') = Cardinality(Undumped) - 1
<1>1. k \in NGram /\ k \in DOMAIN table /\ k # <<>> /\ (cursor # <<>> => Before(cursor, k))
  BY NGramNotEmpty DEF Undumped
<1>2. Undumped' = {h \in DOMAIN table : Before(k, h)}
  <2>1. Undumped' = {h \in DOMAIN table : k = <<>> \/ Before(k, h)}
    BY DEF Undumped
  <2> QED BY <1>1, <2>1
<1>3. ASSUME NEW h PROVE h \in Undumped' <=> h \in Undumped \ {k}
  <2>1. ASSUME h \in Undumped' PROVE h \in Undumped \ {k}
    <3>1. h \in DOMAIN table /\ h \in NGram /\ Before(k, h)
      BY <1>2, <2>1
    <3>2. h # k
      BY <1>1, <3>1, BeforeIsStrict
    <3>3. cursor # <<>> => Before(cursor, h)
      BY <1>1, <3>1, BeforeIsStrict
    <3> QED BY <3>1, <3>2, <3>3 DEF Undumped
  <2>2. ASSUME h \in Undumped \ {k} PROVE h \in Undumped'
    <3>1. h \in DOMAIN table /\ Before(k, h)
      BY <2>2 DEF Undumped
    <3> QED BY <1>2, <3>1
  <2> QED BY <2>1, <2>2
<1>4. Undumped' = Undumped \ {k}
  BY <1>3
<1>5. IsFiniteSet(Undumped)
  BY FS_Subset DEF Undumped
<1>6. Cardinality(Undumped \ {k}) = Cardinality(Undumped) - 1 /\ Cardinality(Undumped) \in Nat
  BY <1>5, FS_RemoveElement, FS_CardinalityType
<1> QED BY <1>1, <1>4, <1>6

\* The tape grows by a record behind all it holds, or is damaged, and what is left
\* of the table shrinks.
LEMMA DumpRecordKeeps ==
    ASSUME PrepareInv, DumpRecord
    PROVE  PrepareInv'
<1>1. /\ TypeOK /\ Progress /\ IsFiniteSet(DOMAIN table) /\ Dumping /\ TapesSorted
      /\ LimitHolds
  BY DEF PrepareInv
<1>2. /\ pc = "dump" /\ pc' = "dump" /\ ~Damaged
      /\ UNCHANGED <<lookup, wildcard_id, pp_unk_id, isequence, count, mask, table,
                     unique, ended, lines>>
  BY DEF DumpRecord
<1>3. PICK k \in Undumped :
         /\ \A h \in Undumped : h = k \/ Before(k, h)
         /\ cursor' = k
         /\ \/ tapes' = [tapes EXCEPT ![Len(tapes)].recs = Append(@, [key |-> k, count |-> table[k]])]
            \/ tapes' = [tapes EXCEPT ![Len(tapes)].damaged = TRUE]
  BY DEF DumpRecord
<1>4. /\ k \in NGram /\ k \in DOMAIN table /\ cursor' # <<>>
      /\ cursor # <<>> => Before(cursor, k)
      /\ Cardinality(Undumped) \in Nat
      /\ Cardinality(Undumped') = Cardinality(Undumped) - 1
  BY <1>1, <1>2, <1>3, NextNGram DEF TypeOK
<1>5. tapes \in Seq(Tape) /\ Len(tapes) >= 1 /\ Limit \in Nat
  BY <1>1, <1>2, PrepareAssumption DEF TypeOK, Tape, Dumping
<1>6. PICK n : n = Len(tapes)
  OBVIOUS
<1>7. PICK recs : recs = tapes[n].recs
  OBVIOUS
<1>8. /\ recs \in Seq(TapeRecord) /\ Len(recs) \in Nat /\ n \in Nat /\ n \in 1..n
      /\ Len(recs) = 0 => cursor = <<>>
      /\ Len(recs) # 0 => cursor = recs[Len(recs)].key
      /\ Len(recs) + Cardinality(Undumped) <= Limit
  <2>1. recs \in Seq(TapeRecord) /\ Len(recs) \in Nat /\ n \in Nat /\ n \in 1..n
    BY <1>5, <1>6, <1>7, TapeChanges
  <2> QED BY <1>1, <1>2, <1>6, <1>7, <2>1 DEF Dumping
<1>9. \A r \in 1..Len(recs) : recs[r] \in TapeRecord /\ recs[r].key \in NGram
  <2>1. ASSUME NEW r \in 1..Len(recs) PROVE recs[r] \in TapeRecord
    BY <1>8, ElementOfSeq
  <2> QED BY <2>1 DEF TapeRecord
<1>10. CASE tapes' = [tapes EXCEPT ![Len(tapes)].recs = Append(@, [key |-> k, count |-> table[k]])]
  <2> DEFINE new == [key |-> k, count |-> table[k]]
  <2>1. new \in TapeRecord /\ new.key = k
    BY <1>1, <1>4 DEF TypeOK, TapeRecord
  <2> HIDE DEF new
  <2>2. /\ tapes' \in Seq(Tape) /\ Len(tapes') = n
        /\ \A t \in 1..n : t # n => tapes'[t] = tapes[t]
        /\ tapes'[n].recs = Append(recs, new)
    <3>1. tapes' = [tapes EXCEPT ![Len(tapes)].recs = Append(@, new)]
      BY <1>10 DEF new
    <3> QED BY <1>5, <1>6, <1>7, <2>1, <3>1, TapeChanges
  <2>3. /\ Len(tapes'[n].recs) = Len(recs) + 1
        /\ \A r \in 1..Len(recs) : tapes'[n].recs[r] = recs[r]
        /\ tapes'[n].recs[Len(recs) + 1] = new
    BY <1>8, <2>1, <2>2, AppendProperties
  <2>4. TypeOK'
    BY <1>1, <1>2, <1>3, <1>4, <2>2 DEF TypeOK, Tape
  <2>5. Dumping'
    BY <1>3, <1>4, <1>5, <1>6, <1>8, <2>1, <2>2, <2>3 DEF Dumping
  <2>6. ASSUME NEW a \in 1..Len(recs) PROVE Before(recs[a].key, k)
    <3>1. Len(recs) # 0 /\ Len(recs) \in 1..Len(recs)
      BY <1>8
    <3>2. cursor = recs[Len(recs)].key /\ cursor \in NGram /\ Before(cursor, k)
      BY <1>4, <1>8, <1>9, <3>1, NGramNotEmpty
    <3>3. CASE a = Len(recs)
      BY <3>2, <3>3
    <3>4. CASE a # Len(recs)
      <4>1. Before(recs[a].key, recs[Len(recs)].key)
        BY <1>1, <1>6, <1>7, <1>8, <3>1, <3>4 DEF TapesSorted
      <4> QED BY <1>4, <1>9, <3>2, <4>1, BeforeIsStrict
    <3> QED BY <3>3, <3>4
  <2>7. TapesSorted'
    <3> SUFFICES ASSUME NEW t \in 1..n, NEW a \in 1..Len(tapes'[t].recs),
                        NEW b \in 1..Len(tapes'[t].recs), a < b
                 PROVE  Before(tapes'[t].recs[a].key, tapes'[t].recs[b].key)
      BY <2>2, Zenon DEF TapesSorted
    <3>1. CASE t # n
      <4>1. tapes'[t] = tapes[t]
        BY <2>2, <3>1
      <4> QED BY <1>1, <1>6, <4>1 DEF TapesSorted
    <3>2. CASE t = n
      <4>1. a \in 1..Len(recs) /\ tapes'[t].recs[a] = recs[a]
        BY <1>8, <2>3, <3>2
      <4>2. CASE b = Len(recs) + 1
        BY <2>1, <2>3, <2>6, <3>2, <4>1, <4>2
      <4>3. CASE b # Len(recs) + 1
        <5>1. b \in 1..Len(recs) /\ tapes'[t].recs[b] = recs[b]
          BY <1>8, <2>3, <3>2, <4>3
        <5> QED BY <1>1, <1>6, <1>7, <1>8, <4>1, <5>1 DEF TapesSorted
      <4> QED BY <4>2, <4>3
    <3> QED BY <3>1, <3>2
  <2>8. LimitHolds'
    <3>1. Len(recs) + 1 <= Limit
      <4>1. Cardinality(Undumped) # 0
        <5>1. IsFiniteSet(Undumped)
          BY <1>1, FS_Subset DEF Undumped
        <5> QED BY <1>3, <5>1, FS_EmptySet
      <4> QED BY <1>4, <1>5, <1>8, <4>1
    <3>2. ASSUME NEW t \in 1..n PROVE Len(tapes'[t].recs) <= Limit
      BY <1>1, <1>6, <2>2, <2>3, <3>1 DEF LimitHolds
    <3> QED BY <1>1, <1>2, <2>2, <3>2 DEF LimitHolds
  <2>9. Progress'
    BY <1>1, <1>2 DEF Progress
  <2> QED BY <1>1, <1>2, <2>4, <2>5, <2>7, <2>8, <2>9 DEF PrepareInv
<1>11. CASE tapes' = [tapes EXCEPT ![Len(tapes)].damaged = TRUE]
  <2>1. /\ tapes' \in Seq(Tape) /\ Len(tapes') = n
        /\ \A t \in 1..n : t # n => tapes'[t] = tapes[t]
        /\ tapes'[n].recs = recs /\ tapes'[n].damaged = TRUE
    BY <1>5, <1>6, <1>7, <1>11, TapeChanges
  <2>2. \A t \in 1..n : tapes'[t].recs = tapes[t].recs
    BY <1>7, <2>1
  <2>3. TypeOK'
    BY <1>1, <1>2, <1>3, <1>4, <2>1 DEF TypeOK, Tape
  <2>4. Damaged'
    BY <2>1 DEF Damaged
  <2>5. Len(recs) + Cardinality(Undumped') <= Limit
    BY <1>4, <1>5, <1>8
  <2>6. Dumping'
    BY <1>5, <1>6, <2>1, <2>4, <2>5 DEF Dumping
  <2>7. TapesSorted'
    <3> SUFFICES ASSUME NEW t \in 1..n, NEW a \in 1..Len(tapes'[t].recs),
                        NEW b \in 1..Len(tapes'[t].recs), a < b
                 PROVE  Before(tapes'[t].recs[a].key, tapes'[t].recs[b].key)
      BY <2>1, Zenon DEF TapesSorted
    <3> QED BY <1>1, <1>6, <2>2 DEF TapesSorted
  <2>8. Progress' /\ LimitHolds'
    BY <1>1, <1>2, <1>6, <2>1, <2>2 DEF Progress, LimitHolds
  <2> QED BY <1>1, <1>2, <2>3, <2>6, <2>7, <2>8 DEF PrepareInv
<1> QED BY <1>3, <1>10, <1>11

\* A dump that fails changes nothing more.
LEMMA DumpFailsKeeps ==
    ASSUME PrepareInv, DumpFails
    PROVE  PrepareInv'
<1>1. /\ TypeOK /\ Progress /\ IsFiniteSet(DOMAIN table) /\ Dumping /\ TapesSorted
      /\ LimitHolds
  BY DEF PrepareInv
<1>2. /\ pc = "dump" /\ pc' = "failed"
      /\ UNCHANGED <<lookup, wildcard_id, pp_unk_id, isequence, count, mask, table,
                   unique, cursor, tapes, ended, lines>>
  BY DEF DumpFails
<1>3. TypeOK' /\ Progress'
  BY <1>1, <1>2 DEF TypeOK, Progress
<1>4. Dumping' /\ TapesSorted' /\ LimitHolds'
  BY <1>1, <1>2 DEF Dumping, TapesSorted, LimitHolds
<1> QED BY <1>1, <1>2, <1>3, <1>4 DEF PrepareInv

\* At the end of a dump the table is empty and the tape closed.
LEMMA DumpEndKeeps ==
    ASSUME PrepareInv, DumpEnd
    PROVE  PrepareInv'
<1>1. /\ TypeOK /\ Progress /\ IsFiniteSet(DOMAIN table) /\ Dumping /\ TapesSorted
      /\ LimitHolds
  BY DEF PrepareInv
<1>2. /\ pc = "dump" /\ table' = Empty /\ unique' = 0
      /\ UNCHANGED <<lookup, wildcard_id, pp_unk_id, isequence, count, mask, cursor,
                     ended, lines>>
      /\ pc' = (IF ended THEN "done" ELSE IF mask < Masks THEN "insert" ELSE "line")
  BY DEF DumpEnd
<1>3. DOMAIN table' = {} /\ IsFiniteSet(DOMAIN table') /\ Cardinality(DOMAIN table') = 0
  BY <1>2, FS_EmptySet DEF Empty
<1>4. /\ tapes' \in Seq(Tape) /\ Len(tapes') = Len(tapes)
      /\ \A t \in 1..Len(tapes) : tapes'[t].recs = tapes[t].recs
  <2>1. tapes \in Seq(Tape) /\ Len(tapes) >= 1
    BY <1>1, <1>2 DEF TypeOK, Tape, Dumping
  <2>2. CASE tapes' = tapes
    BY <2>1, <2>2
  <2>3. CASE tapes' = [tapes EXCEPT ![Len(tapes)].damaged = TRUE]
    <3>1. PICK n : n = Len(tapes)
      OBVIOUS
    <3>2. /\ tapes' \in Seq(Tape) /\ Len(tapes') = n
          /\ \A t \in 1..n : t # n => tapes'[t] = tapes[t]
          /\ tapes'[n].recs = tapes[n].recs
      BY <2>1, <2>3, <3>1, TapeChanges
    <3> QED BY <3>1, <3>2
  <2> QED BY <2>2, <2>3 DEF DumpEnd
<1>5. Limit \in Nat \ {0} /\ Masks \in Nat /\ mask \in 0..Masks
  BY <1>1, PrepareAssumption, MasksType DEF TypeOK
<1>6. TypeOK'
  BY <1>1, <1>2, <1>3, <1>4 DEF TypeOK, Tape
<1>7. Progress'
  BY <1>1, <1>2, <1>5 DEF Progress
<1>8. TapesSorted'
  <2> SUFFICES ASSUME NEW t \in 1..Len(tapes), NEW a \in 1..Len(tapes'[t].recs),
                      NEW b \in 1..Len(tapes'[t].recs), a < b
               PROVE  Before(tapes'[t].recs[a].key, tapes'[t].recs[b].key)
    BY <1>4, Zenon DEF TapesSorted
  <2> QED BY <1>1, <1>4 DEF TapesSorted
<1>9. LimitHolds' /\ Dumping'
  BY <1>1, <1>2, <1>3, <1>4, <1>5 DEF LimitHolds, Dumping
<1> QED BY <1>3, <1>6, <1>7, <1>8, <1>9 DEF PrepareInv

\* Every step keeps the invariant.
LEMMA PrepareStep == PrepareInv /\ [Next]_vars => PrepareInv'
<1> SUFFICES ASSUME PrepareInv, [Next]_vars PROVE PrepareInv'
  OBVIOUS
<1>1. CASE Next
  BY <1>1, StartKeeps, ReadLineKeeps, InsertKeeps, EndOfInputKeeps, DumpRecordKeeps,
     DumpFailsKeeps, DumpEndKeeps DEF Next
<1>2. CASE UNCHANGED vars
  <2>1. TypeOK' /\ Progress' /\ IsFiniteSet(DOMAIN table')
    BY <1>2 DEF PrepareInv, vars, TypeOK, Progress
  <2>2. Dumping' /\ LimitHolds' /\ TapesSorted'
    <3>1. (Damaged <=> Damaged') /\ Undumped' = Undumped
      BY <1>2 DEF vars, Damaged, Undumped
    <3> QED BY <1>2, <3>1 DEF PrepareInv, vars, Dumping, LimitHolds, TapesSorted
  <2> QED BY <2>1, <2>2 DEF PrepareInv
<1> QED BY <1>1, <1>2

\* The invariant holds in every behaviour.
LEMMA PrepareInvariance == Spec => []PrepareInv
  BY PrepareInit, PrepareStep, PTL DEF Spec

\* Every variable has its type: no lookup's -1 is ever inserted.
THEOREM PrepareTyped == Spec => []TypeOK
<1>1. PrepareInv => TypeOK
  BY DEF PrepareInv
<1> QED BY <1>1, PrepareInvariance, PTL

\* Every tape is strictly ascending, wherever its dump began and whatever the limit:
\* what the merge assumes of its tapes.
THEOREM TapesAreSorted == Spec => []TapesSorted
<1>1. PrepareInv => TapesSorted
  BY DEF PrepareInv
<1> QED BY <1>1, PrepareInvariance, PTL

\* No tape and no table outgrows the limit, although an n-gram whose count is 0 is
\* counted as new every time.
THEOREM LimitIsKept == Spec => []LimitHolds
<1>1. PrepareInv => LimitHolds
  BY DEF PrepareInv
<1> QED BY <1>1, PrepareInvariance, PTL

-----------------------------------------------------------------------------
(* No count is lost or doubled                                             *)

NoneDamaged == \A t \in 1..Len(tapes) : ~tapes[t].damaged

\* What the tapes and the table hold is what the lines gave.
CountsMatch ==
    pc # "failed" /\ NoneDamaged =>
        \A k \in NGram : OnTapes(k) + InTable(k) = Expected(k)

CountInv == PrepareInv /\ CountsMatch

TapeSum(t, k) == SumFunction(CountAt(t, k))

\* What a record adds to an n-gram.
Adds(r, k) == IF r.key = k THEN r.count ELSE 0

\* The counts on a tape and on all tapes are sums of naturals.
LEMMA OnTapesType ==
    ASSUME tapes \in Seq(Tape), NEW k
    PROVE  /\ Len(tapes) \in Nat
           /\ \A t \in 1..Len(tapes) :
                /\ Len(tapes[t].recs) \in Nat
                /\ \A r \in 1..Len(tapes[t].recs) : tapes[t].recs[r] \in TapeRecord
                /\ DOMAIN CountAt(t, k) = 1..Len(tapes[t].recs)
                /\ \A r \in 1..Len(tapes[t].recs) :
                     CountAt(t, k)[r] \in Int /\ CountAt(t, k)[r] = Adds(tapes[t].recs[r], k)
                /\ TapeSum(t, k) \in Int
           /\ OnTapes(k) \in Int
<1>1. Len(tapes) \in Nat
  OBVIOUS
<1>2. ASSUME NEW t \in 1..Len(tapes)
      PROVE  /\ Len(tapes[t].recs) \in Nat
             /\ \A r \in 1..Len(tapes[t].recs) : tapes[t].recs[r] \in TapeRecord
             /\ DOMAIN CountAt(t, k) = 1..Len(tapes[t].recs)
             /\ \A r \in 1..Len(tapes[t].recs) :
                  CountAt(t, k)[r] \in Int /\ CountAt(t, k)[r] = Adds(tapes[t].recs[r], k)
             /\ TapeSum(t, k) \in Int
  <2>1. tapes[t] \in Tape
    BY ElementOfSeq
  <2>2. tapes[t].recs \in Seq(TapeRecord)
    BY <2>1 DEF Tape
  <2>3. Len(tapes[t].recs) \in Nat /\ \A r \in 1..Len(tapes[t].recs) : tapes[t].recs[r] \in TapeRecord
    BY <2>2, ElementOfSeq
  <2>4. DOMAIN CountAt(t, k) = 1..Len(tapes[t].recs)
    BY DEF CountAt
  <2>5. ASSUME NEW r \in 1..Len(tapes[t].recs)
        PROVE  CountAt(t, k)[r] \in Int /\ CountAt(t, k)[r] = Adds(tapes[t].recs[r], k)
    BY <2>3 DEF CountAt, Adds, TapeRecord
  <2>6. IsFiniteSet(1..Len(tapes[t].recs))
    <3>1. Len(tapes[t].recs) \in Nat
      BY <2>3
    <3> QED BY <3>1, UpToIsFinite
  <2>7. TapeSum(t, k) = SumFunctionOnSet(CountAt(t, k), 1..Len(tapes[t].recs))
    BY <2>4 DEF TapeSum, SumFunction
  <2>8. TapeSum(t, k) \in Int
    BY <2>5, <2>6, <2>7, SumSplits
  <2> QED BY <2>3, <2>4, <2>5, <2>8
<1> DEFINE F == [t \in 1..Len(tapes) |-> TapeSum(t, k)]
<1>3. OnTapes(k) = SumFunctionOnSet(F, 1..Len(tapes))
  BY DEF OnTapes, TapeSum, SumFunction
<1>4. \A t \in 1..Len(tapes) : F[t] \in Int
  BY <1>2
<1>5. IsFiniteSet(1..Len(tapes))
  BY <1>1, UpToIsFinite
<1> HIDE DEF F
<1>6. OnTapes(k) \in Int
  BY <1>3, <1>4, <1>5, SumSplits
<1> QED BY <1>1, <1>2, <1>6

\* The sum of a tape depends on its records only.
LEMMA TapeSumSame ==
    ASSUME NEW t, NEW k, tapes'[t].recs = tapes[t].recs
    PROVE  TapeSum(t, k)' = TapeSum(t, k)
  BY DEF TapeSum, CountAt

\* An empty tape adds nothing.
LEMMA OpenAddsNothing ==
    ASSUME tapes \in Seq(Tape), tapes' \in Seq(Tape), Len(tapes') = Len(tapes) + 1,
           \A t \in 1..Len(tapes) : tapes'[t] = tapes[t],
           tapes'[Len(tapes) + 1].recs = <<>>, NEW k
    PROVE  OnTapes(k)' = OnTapes(k)
<1> PICK n, m : n = Len(tapes) /\ m = n + 1
  OBVIOUS
<1> DEFINE F == [t \in 1..n |-> TapeSum(t, k)]
           G == [t \in 1..m |-> TapeSum(t, k)']
<1>1. OnTapes(k) = SumFunctionOnSet(F, 1..n)
  BY DEF OnTapes, TapeSum, SumFunction
<1>2. OnTapes(k)' = SumFunctionOnSet(G, 1..m)
  BY DEF OnTapes, TapeSum, SumFunction
<1>3. n \in Nat
  OBVIOUS
<1>4. \A t \in 1..n : F[t] \in Int
  BY OnTapesType
<1>5. \A t \in 1..n : G[t] = F[t]
  <2>1. \A t \in 1..n : t \in 1..m /\ TapeSum(t, k)' = TapeSum(t, k)
    BY <1>3, TapeSumSame
  <2> QED BY <2>1
<1>6. G[m] = 0
  <2>1. m \in 1..m
    BY <1>3
  <2>2. G[m] = TapeSum(m, k)'
    BY <2>1
  <2>3. TapeSum(m, k)' = SumFunctionOnSet(CountAt(m, k)', {})
    <3>1. tapes'[m].recs = <<>>
      OBVIOUS
    <3>2. CountAt(m, k)' = [e \in 1..Len(<<>>) |-> IF <<>>[e].key = k THEN <<>>[e].count ELSE 0]
      BY <3>1 DEF CountAt
    <3>3. DOMAIN CountAt(m, k)' = {}
      BY <3>2
    <3> QED BY <3>3 DEF TapeSum, SumFunction
  <2> QED BY <2>2, <2>3, SumEmpty
<1> HIDE DEF F, G
<1>7. SumFunctionOnSet(G, 1..m) = SumFunctionOnSet(F, 1..n) + G[m]
      /\ SumFunctionOnSet(F, 1..n) \in Int
  <2>1. G[n + 1] \in Int /\ m = n + 1
    BY <1>6
  <2>2. \A y \in 1..n : F[y] \in Int /\ G[y] = F[y]
    BY <1>4, <1>5
  <2>3. /\ SumFunctionOnSet(G, 1..(n + 1)) = SumFunctionOnSet(F, 1..n) + G[n + 1]
        /\ SumFunctionOnSet(F, 1..n) \in Int
    BY <1>3, <2>1, <2>2, SumExtends
  <2> QED BY <2>1, <2>3
<1> QED BY <1>1, <1>2, <1>6, <1>7

\* A record adds its count to its n-gram.
LEMMA RecordAdds ==
    ASSUME tapes \in Seq(Tape), tapes' \in Seq(Tape), NEW n, n = Len(tapes), n >= 1,
           Len(tapes') = n, \A t \in 1..n : t # n => tapes'[t] = tapes[t],
           NEW r \in TapeRecord, tapes'[n].recs = Append(tapes[n].recs, r), NEW k
    PROVE  OnTapes(k)' = OnTapes(k) + Adds(r, k)
<1> DEFINE F == [t \in 1..n |-> TapeSum(t, k)]
           G == [t \in 1..n |-> TapeSum(t, k)']
<1>1. OnTapes(k) = SumFunctionOnSet(F, 1..n)
  BY DEF OnTapes, TapeSum, SumFunction
<1>2. OnTapes(k)' = SumFunctionOnSet(G, 1..n)
  BY DEF OnTapes, TapeSum, SumFunction
<1>3. n \in Nat /\ n \in 1..n /\ \A t \in 1..n : F[t] \in Int
  <2>1. n \in Nat /\ \A t \in 1..n : TapeSum(t, k) \in Int
    BY OnTapesType
  <2>2. \A t \in 1..n : F[t] \in Int
    BY <2>1
  <2> QED BY <2>1, <2>2
<1>4. \A t \in 1..n : t # n => G[t] = F[t]
  BY TapeSumSame
<1>5. G[n] = F[n] + Adds(r, k) /\ Adds(r, k) \in Int
  <2> DEFINE f == CountAt(n, k)
             g == [e \in 1..Len(tapes'[n].recs) |->
                     IF tapes'[n].recs[e].key = k THEN tapes'[n].recs[e].count ELSE 0]
             m == Len(tapes[n].recs)
  <2>1. tapes[n].recs \in Seq(TapeRecord) /\ m \in Nat
    <3>1. tapes[n] \in Tape
      BY <1>3, ElementOfSeq
    <3> QED BY <3>1 DEF Tape
  <2>2. /\ Len(tapes'[n].recs) = m + 1
        /\ \A e \in 1..m : tapes'[n].recs[e] = tapes[n].recs[e]
        /\ tapes'[n].recs[m + 1] = r
    BY <2>1, AppendProperties
  <2>3. /\ \A e \in 1..m : f[e] \in Int /\ f[e] = Adds(tapes[n].recs[e], k)
        /\ DOMAIN f = 1..m
    BY <1>3, OnTapesType
  <2>4. /\ \A e \in 1..m : g[e] = f[e]
        /\ g[m + 1] = Adds(r, k) /\ DOMAIN g = 1..(m + 1)
    BY <2>1, <2>2, <2>3 DEF Adds
  <2>5. Adds(r, k) \in Int
    BY DEF Adds, TapeRecord
  <2>6. F[n] = SumFunctionOnSet(f, 1..m)
    BY <1>3, <2>3 DEF TapeSum, SumFunction
  <2>7. G[n] = SumFunctionOnSet(g, 1..(m + 1))
    <3>1. TapeSum(n, k)' = SumFunction(g)
      BY DEF TapeSum, CountAt
    <3> QED BY <1>3, <2>4, <3>1 DEF SumFunction
  <2> HIDE DEF f, g, m, F, G
  <2>8. SumFunctionOnSet(g, 1..(m + 1)) = SumFunctionOnSet(f, 1..m) + g[m + 1]
    BY <2>1, <2>3, <2>4, <2>5, SumExtends
  <2> QED BY <2>4, <2>5, <2>6, <2>7, <2>8
<1> HIDE DEF F, G
<1>6. IsFiniteSet(1..n)
  BY <1>3, UpToIsFinite
<1>7. SumFunctionOnSet(G, 1..n) = SumFunctionOnSet(F, 1..n) + Adds(r, k)
  BY <1>3, <1>4, <1>5, <1>6, SumGrows
<1> QED BY <1>1, <1>2, <1>7

\* What the lines give is a sum of naturals.
LEMMA ExpectedType ==
    ASSUME lines \in Seq(Line), mask \in 0..Masks, NEW k
    PROVE  /\ Len(lines) \in Nat
           /\ \A l \in 1..Len(lines) :
                /\ \A j \in 0..(Masks - 1) : LineAt(l, k)[j] \in Int
                /\ Inserted(l) \in 0..Masks
                /\ LineSum(l, k) \in Int
           /\ Expected(k) \in Int
<1>1. Len(lines) \in Nat /\ Masks \in Nat
  BY MasksType
<1>2. ASSUME NEW l \in 1..Len(lines)
      PROVE  /\ \A j \in 0..(Masks - 1) : LineAt(l, k)[j] \in Int
             /\ Inserted(l) \in 0..Masks
             /\ LineSum(l, k) \in Int
  <2>1. lines[l] \in Line
    BY ElementOfSeq
  <2>2. \A j \in 0..(Masks - 1) : LineAt(l, k)[j] \in Int
    BY <2>1 DEF LineAt, Line
  <2>3. Inserted(l) \in 0..Masks
    BY <1>1 DEF Inserted
  <2>4. /\ IsFiniteSet(0..(Inserted(l) - 1))
        /\ \A j \in 0..(Inserted(l) - 1) : LineAt(l, k)[j] \in Int
    <3>1. Inserted(l) \in Nat /\ Inserted(l) <= Masks
      BY <1>1, <2>3
    <3>2. IsFiniteSet(0..(Inserted(l) - 1))
      BY <3>1, UpToIsFinite
    <3>3. \A j \in 0..(Inserted(l) - 1) : j \in 0..(Masks - 1)
      BY <1>1, <3>1
    <3> QED BY <2>2, <3>2, <3>3
  <2>5. LineSum(l, k) \in Int
    BY <2>4, SumSplits DEF LineSum
  <2> QED BY <2>2, <2>3, <2>5
<1> DEFINE F == [l \in 1..Len(lines) |-> LineSum(l, k)]
<1>3. Expected(k) = SumFunctionOnSet(F, 1..Len(lines))
  BY DEF Expected, SumFunction
<1>4. \A l \in 1..Len(lines) : F[l] \in Int
  BY <1>2
<1>5. IsFiniteSet(1..Len(lines))
  BY <1>1, UpToIsFinite
<1> HIDE DEF F
<1>6. Expected(k) \in Int
  BY <1>3, <1>4, <1>5, SumSplits
<1> QED BY <1>1, <1>2, <1>6

\* A line none of whose masks is inserted gives nothing yet.
LEMMA NewLineGivesNothing ==
    ASSUME lines \in Seq(Line), lines' \in Seq(Line), Len(lines') = Len(lines) + 1,
           \A l \in 1..Len(lines) : lines'[l] = lines[l],
           mask = Masks, mask' = 0, UNCHANGED wildcard_id, NEW k
    PROVE  Expected(k)' = Expected(k)
<1> PICK n, m : n = Len(lines) /\ m = n + 1
  OBVIOUS
<1> DEFINE F == [l \in 1..n |-> LineSum(l, k)]
           G == [l \in 1..m |-> LineSum(l, k)']
<1>1. Expected(k) = SumFunctionOnSet(F, 1..n)
  BY DEF Expected, SumFunction
<1>2. Expected(k)' = SumFunctionOnSet(G, 1..m)
  BY DEF Expected, SumFunction
<1>3. n \in Nat /\ m \in 1..m /\ Masks \in Nat
  BY MasksType
<1>4. \A l \in 1..n : F[l] \in Int
  <2>1. mask \in 0..Masks
    BY <1>3
  <2>2. \A l \in 1..n : LineSum(l, k) \in Int
    BY <2>1, ExpectedType
  <2> QED BY <2>2
<1>5. ASSUME NEW l \in 1..n PROVE G[l] = F[l]
  <2>1. Inserted(l) = Masks /\ Inserted(l)' = Masks
    BY <1>3 DEF Inserted
  <2>2. LineAt(l, k)' = LineAt(l, k)
    BY DEF LineAt, Pattern
  <2>3. LineSum(l, k)' = LineSum(l, k)
    BY <2>1, <2>2 DEF LineSum
  <2>4. l \in 1..m
    BY <1>3
  <2> QED BY <2>3, <2>4
<1>6. G[m] = 0
  <2>1. Inserted(m)' = 0
    BY <1>3 DEF Inserted
  <2>2. 0..(0 - 1) = {}
    OBVIOUS
  <2>3. LineSum(m, k)' = SumFunctionOnSet(LineAt(m, k)', {})
    BY <2>1, <2>2 DEF LineSum
  <2>4. G[m] = LineSum(m, k)'
    BY <1>3
  <2> QED BY <2>3, <2>4, SumEmpty
<1> HIDE DEF F, G
<1>7. SumFunctionOnSet(G, 1..m) = SumFunctionOnSet(F, 1..n) + G[m]
      /\ SumFunctionOnSet(F, 1..n) \in Int
  <2>1. G[n + 1] \in Int /\ m = n + 1
    BY <1>6
  <2>2. \A y \in 1..n : F[y] \in Int /\ G[y] = F[y]
    BY <1>4, <1>5
  <2>3. /\ SumFunctionOnSet(G, 1..(n + 1)) = SumFunctionOnSet(F, 1..n) + G[n + 1]
        /\ SumFunctionOnSet(F, 1..n) \in Int
    BY <1>3, <2>1, <2>2, SumExtends
  <2> QED BY <2>1, <2>3
<1> QED BY <1>1, <1>2, <1>6, <1>7

\* The next mask of the last line gives its count to the pattern under it.
LEMMA MaskGives ==
    ASSUME lines \in Seq(Line), UNCHANGED <<lines, wildcard_id>>, Len(lines) >= 1,
           mask \in 0..(Masks - 1), mask' = mask + 1, NEW k,
           lines[Len(lines)] = [seq |-> isequence, count |-> count]
    PROVE  Expected(k)' =
             Expected(k) + (IF k = Pattern(isequence, mask) THEN count ELSE 0)
<1> PICK n, m : n = Len(lines) /\ m = mask
  OBVIOUS
<1> DEFINE F == [l \in 1..n |-> LineSum(l, k)]
           G == [l \in 1..n |-> LineSum(l, k)']
           d == IF k = Pattern(isequence, mask) THEN count ELSE 0
<1>1. Expected(k) = SumFunctionOnSet(F, 1..n) /\ Expected(k)' = SumFunctionOnSet(G, 1..n)
  BY DEF Expected, SumFunction
<1>2. /\ n \in Nat /\ n \in 1..n /\ Masks \in Nat /\ m \in Nat /\ m + 1 <= Masks
      /\ \A l \in 1..n : F[l] \in Int
      /\ \A j \in 0..(Masks - 1) : LineAt(n, k)[j] \in Int
  <2>1. n \in Nat /\ n \in 1..n /\ Masks \in Nat /\ m \in Nat /\ m + 1 <= Masks
    BY MasksType
  <2>2. mask \in 0..Masks
    BY <2>1
  <2>3. \A l \in 1..n : LineSum(l, k) \in Int /\ \A j \in 0..(Masks - 1) : LineAt(l, k)[j] \in Int
    BY <2>2, ExpectedType
  <2>4. \A l \in 1..n : F[l] \in Int
    BY <2>3
  <2> QED BY <2>1, <2>3, <2>4
<1>3. ASSUME NEW l \in 1..n PROVE LineAt(l, k)' = LineAt(l, k)
  BY DEF LineAt, Pattern
<1>4. ASSUME NEW l \in 1..n, l # n PROVE G[l] = F[l]
  <2>1. Inserted(l) = Masks /\ Inserted(l)' = Masks
    BY <1>4 DEF Inserted
  <2>2. LineSum(l, k)' = LineSum(l, k)
    BY <1>3, <2>1 DEF LineSum
  <2> QED BY <2>2
<1>5. d \in Int /\ LineAt(n, k)[m] = d
  <2>1. lines[n] \in Line
    BY <1>2, ElementOfSeq
  <2>2. count \in Nat /\ lines[n].seq = isequence /\ lines[n].count = count
    BY <2>1 DEF Line
  <2>3. m \in 0..(Masks - 1)
    BY <1>2
  <2> QED BY <2>2, <2>3 DEF LineAt
<1>6. G[n] = F[n] + d
  <2> DEFINE f == LineAt(n, k)
  <2>1. F[n] = SumFunctionOnSet(f, 0..(m - 1))
    BY <1>2 DEF LineSum, Inserted
  <2>2. G[n] = SumFunctionOnSet(f, 0..m)
    <3>1. Inserted(n)' = m + 1 /\ (m + 1) - 1 = m
      BY <1>2 DEF Inserted
    <3>2. LineSum(n, k)' = SumFunctionOnSet(f, 0..m)
      BY <1>2, <1>3, <3>1 DEF LineSum
    <3> QED BY <1>2, <3>2
  <2>3. /\ IsFiniteSet(0..m) /\ m \in 0..m /\ (0..m) \ {m} = 0..(m - 1)
        /\ \A j \in 0..m : f[j] \in Int
    <3>1. IsFiniteSet(0..m) /\ m \in 0..m /\ (0..m) \ {m} = 0..(m - 1)
      BY <1>2, UpToIsFinite
    <3>2. \A j \in 0..m : j \in 0..(Masks - 1)
      BY <1>2
    <3>3. \A j \in 0..(Masks - 1) : f[j] \in Int
      BY <1>2
    <3> QED BY <3>1, <3>2, <3>3
  <2> HIDE DEF f, F, G
  <2>4. /\ SumFunctionOnSet(f, 0..m) = f[m] + SumFunctionOnSet(f, 0..(m - 1))
        /\ SumFunctionOnSet(f, 0..(m - 1)) \in Int
    <3> DEFINE S == 0..m
    <3>1. IsFiniteSet(S) /\ m \in S /\ (\A j \in S : f[j] \in Int) /\ S \ {m} = 0..(m - 1)
      BY <2>3
    <3> HIDE DEF S
    <3>2. \A x \in S : /\ SumFunctionOnSet(f, S \ {x}) \in Int
                       /\ SumFunctionOnSet(f, S) = f[x] + SumFunctionOnSet(f, S \ {x})
      <4>1. IsFiniteSet(S) /\ \A j \in S : f[j] \in Int
        BY <3>1
      <4> QED BY <4>1, SumSplits, Zenon
    <3> QED BY <3>1, <3>2, Zenon DEF S
  <2>5. f[m] = d
    BY <1>5 DEF f
  <2> QED BY <1>5, <2>1, <2>2, <2>3, <2>4, <2>5
<1> HIDE DEF F, G, d
<1>8. SumFunctionOnSet(G, 1..n) = SumFunctionOnSet(F, 1..n) + d
  <2> DEFINE S == 1..n
  <2>1. IsFiniteSet(S) /\ n \in S /\ \A y \in S : F[y] \in Int
    BY <1>2, UpToIsFinite
  <2>2. \A y \in S : y # n => G[y] = F[y]
    BY <1>4
  <2>3. d \in Int /\ G[n] = F[n] + d
    BY <1>5, <1>6
  <2> HIDE DEF S
  <2>4. SumFunctionOnSet(G, S) = SumFunctionOnSet(F, S) + d
    BY <2>1, <2>2, <2>3, SumGrows
  <2> QED BY <2>4, Zenon DEF S
<1> QED BY <1>1, <1>8 DEF d

\* While nothing of them changes, the sums stay.
LEMMA SumsStay ==
    ASSUME NEW k
    PROVE  /\ UNCHANGED tapes => OnTapes(k)' = OnTapes(k)
           /\ UNCHANGED <<lines, mask, wildcard_id>> => Expected(k)' = Expected(k)
<1>1. UNCHANGED tapes => OnTapes(k)' = OnTapes(k)
  BY DEF OnTapes, CountAt
<1>2. UNCHANGED <<lines, mask, wildcard_id>> => Expected(k)' = Expected(k)
  BY DEF Expected, LineSum, LineAt, Inserted, Pattern
<1> QED BY <1>1, <1>2

\* Without a line and a tape every sum is zero.
LEMMA NothingYet ==
    ASSUME tapes = <<>>, lines = <<>>, table = Empty, NEW k
    PROVE  OnTapes(k) = 0 /\ InTable(k) = 0 /\ Expected(k) = 0
<1>1. InTable(k) = 0
  BY DEF InTable, CountIn, Empty
<1>2. OnTapes(k) = SumFunctionOnSet([t \in 1..Len(tapes) |-> TapeSum(t, k)], {})
  <2>1. 1..Len(tapes) = {}
    OBVIOUS
  <2> QED BY <2>1 DEF OnTapes, TapeSum, SumFunction
<1>3. Expected(k) = SumFunctionOnSet([l \in 1..Len(lines) |-> LineSum(l, k)], {})
  <2>1. 1..Len(lines) = {}
    OBVIOUS
  <2> QED BY <2>1 DEF Expected, SumFunction
<1> QED BY <1>1, <1>2, <1>3, SumEmpty

\* At the start of a dump all of the table is still to come.
LEMMA OpenKeepsTheTable ==
    ASSUME NEW tab, table' = tab, cursor' = <<>>, NEW k
    PROVE  InTable(k)' = CountIn(tab, k)
<1>1. Undumped' = DOMAIN tab
  BY DEF Undumped
<1>2. CASE k \in DOMAIN tab
  BY <1>1, <1>2 DEF InTable
<1>3. CASE k \notin DOMAIN tab
  BY <1>1, <1>3 DEF InTable, CountIn
<1> QED BY <1>2, <1>3

\* Loading the dictionary and the ids moves no count.
LEMMA StartKeepsCounts ==
    ASSUME CountInv, Load \/ FindIds
    PROVE  CountsMatch'
<1>1. /\ tapes' = <<>> /\ lines' = <<>> /\ table' = Empty
  <2>1. UNCHANGED <<table, tapes, lines>> /\ pc \in {"load", "ids"}
    BY DEF Load, FindIds
  <2> QED BY <2>1 DEF CountInv, PrepareInv, Progress
<1>2. ASSUME NEW k PROVE OnTapes(k)' = 0 /\ InTable(k)' = 0 /\ Expected(k)' = 0
  <2>1. InTable(k)' = 0
    BY <1>1 DEF InTable, CountIn, Empty
  <2>2. OnTapes(k)' = 0
    <3>1. 1..Len(tapes') = {}
      BY <1>1
    <3>2. OnTapes(k)' = SumFunctionOnSet([t \in 1..Len(tapes') |-> TapeSum(t, k)'], {})
      BY <3>1 DEF OnTapes, TapeSum, SumFunction
    <3> QED BY <3>2, SumEmpty
  <2>3. Expected(k)' = 0
    <3>1. 1..Len(lines') = {}
      BY <1>1
    <3>2. Expected(k)' = SumFunctionOnSet([l \in 1..Len(lines') |-> LineSum(l, k)'], {})
      BY <3>1 DEF Expected, SumFunction
    <3> QED BY <3>2, SumEmpty
  <2> QED BY <2>1, <2>2, <2>3
<1> QED BY <1>2 DEF CountsMatch

\* A line that is read has given nothing yet.
LEMMA ReadLineKeepsCounts ==
    ASSUME CountInv, PrepareInv', NEW words \in [1..N -> Words], NEW c \in Counts,
           ReadLine(words, c)
    PROVE  CountsMatch'
<1>1. /\ pc = "line" /\ pc' = "insert" /\ mask' = 0 /\ mask = Masks
      /\ lines' = Append(lines, [seq |-> isequence', count |-> c])
      /\ UNCHANGED <<wildcard_id, table, cursor, tapes>>
  BY DEF ReadLine, CountInv, PrepareInv, Progress
<1>2. lines \in Seq(Line) /\ lines' \in Seq(Line)
  BY DEF CountInv, PrepareInv, TypeOK, Line
<1>3. Len(lines') = Len(lines) + 1 /\ \A l \in 1..Len(lines) : lines'[l] = lines[l]
  BY <1>1, <1>2
<1>4. ASSUME NEW k PROVE Expected(k)' = Expected(k)
  BY <1>1, <1>2, <1>3, NewLineGivesNothing
<1>5. ASSUME NEW k PROVE InTable(k)' = InTable(k)
  BY <1>1 DEF InTable
<1>6. ASSUME NEW k PROVE OnTapes(k)' = OnTapes(k)
  BY <1>1, SumsStay
<1>7. NoneDamaged' => NoneDamaged
  BY <1>1 DEF NoneDamaged
<1> QED BY <1>1, <1>4, <1>5, <1>6, <1>7 DEF CountInv, CountsMatch

\* What a pattern gets in the table is what its mask gives, and a tape that is
\* opened at once moves nothing.
LEMMA InsertKeepsCounts ==
    ASSUME CountInv, PrepareInv', Insert
    PROVE  CountsMatch'
<1>1. PICK key : key = Pattern(isequence, mask)
  OBVIOUS
<1>2. /\ pc = "insert" /\ table' = Added(table, key, count) /\ mask' = mask + 1
      /\ UNCHANGED <<wildcard_id, isequence, count, lines>>
      /\ OpenTape \/ (UNCHANGED <<tapes, cursor>> /\ pc' \in {"insert", "line"})
  BY <1>1 DEF Insert
<1>3. TypeOK /\ TypeOK' /\ Progress /\ IsFiniteSet(DOMAIN table) /\ CountsMatch
  BY DEF CountInv, PrepareInv
<1>4. /\ tapes \in Seq(Tape) /\ tapes' \in Seq(Tape) /\ lines \in Seq(Line)
      /\ DOMAIN table \subseteq NGram /\ \A k \in DOMAIN table : table[k] \in Nat
      /\ isequence \in NGram /\ count \in Nat /\ mask \in 0..Masks
  BY <1>3 DEF TypeOK, Tape, Line
<1>5. /\ Masks \in Nat /\ mask \in 0..(Masks - 1) /\ Len(lines) >= 1
      /\ lines[Len(lines)] = [seq |-> isequence, count |-> count]
      /\ AddWildcards => wildcard_id \in Nat
  BY <1>2, <1>3, <1>4, MasksType DEF Progress
<1>6. key \in NGram
  BY <1>1, <1>4, <1>5, PatternType
<1>7. ASSUME NEW k
      PROVE  /\ CountIn(table, k) \in Nat
             /\ CountIn(table', k) = CountIn(table, k) + (IF k = key THEN count ELSE 0)
  <2>1. /\ DOMAIN table \subseteq NGram /\ (\A g \in DOMAIN table : table[g] \in Nat)
        /\ IsFiniteSet(DOMAIN table) /\ key \in NGram /\ count \in Nat
    BY <1>3, <1>4, <1>6
  <2>2. CountIn(table, k) \in Nat
    BY <2>1 DEF CountIn
  <2>3. CountIn(Added(table, key, count), k) =
          CountIn(table, k) + (IF k = key THEN count ELSE 0)
    BY <2>2 DEF CountIn, Added
  <2> QED BY <1>2, <2>2, <2>3
<1>8. ASSUME NEW k
      PROVE  Expected(k)' = Expected(k) + (IF k = key THEN count ELSE 0)
  BY <1>1, <1>2, <1>4, <1>5, MaskGives
<1>9. ASSUME NEW k PROVE OnTapes(k) \in Int /\ Expected(k) \in Int
  BY <1>4, OnTapesType, ExpectedType
<1>10. ASSUME NEW k PROVE InTable(k) = CountIn(table, k)
  BY <1>2 DEF InTable
<1>11. /\ NoneDamaged' => NoneDamaged
       /\ \A k : OnTapes(k)' = OnTapes(k) /\ InTable(k)' = CountIn(table', k)
  <2>1. CASE OpenTape
    <3>1. /\ cursor' = <<>> /\ pc' = "dump"
          /\ tapes' = Append(tapes, [recs |-> <<>>, damaged |-> FALSE])
      BY <2>1 DEF OpenTape
    <3> DEFINE e == [recs |-> <<>>, damaged |-> FALSE]
    <3>2. e \in Tape /\ e.recs = <<>>
      BY DEF Tape
    <3> HIDE DEF e
    <3>3. /\ Len(tapes') = Len(tapes) + 1 /\ tapes'[Len(tapes) + 1] = e
          /\ \A t \in 1..Len(tapes) : tapes'[t] = tapes[t]
      BY <1>4, <3>1, <3>2, AppendProperties DEF e
    <3>4. ASSUME NEW k PROVE OnTapes(k)' = OnTapes(k)
      BY <1>4, <3>2, <3>3, OpenAddsNothing
    <3>5. ASSUME NEW k PROVE InTable(k)' = CountIn(table', k)
      <4>1. PICK tab : tab = table'
        OBVIOUS
      <4>2. InTable(k)' = CountIn(tab, k)
        BY <3>1, <4>1, OpenKeepsTheTable
      <4> QED BY <4>1, <4>2
    <3>6. NoneDamaged' => NoneDamaged
      <4>1. \A t \in 1..Len(tapes) : t \in 1..(Len(tapes) + 1)
        BY <1>4
      <4> QED BY <3>3, <4>1 DEF NoneDamaged
    <3> QED BY <3>4, <3>5, <3>6
  <2>2. CASE UNCHANGED <<tapes, cursor>> /\ pc' \in {"insert", "line"}
    <3>1. ASSUME NEW k PROVE OnTapes(k)' = OnTapes(k) /\ InTable(k)' = CountIn(table', k)
      BY <2>2, SumsStay DEF InTable
    <3>2. NoneDamaged' => NoneDamaged
      BY <2>2 DEF NoneDamaged
    <3> QED BY <3>1, <3>2
  <2> QED BY <1>2, <2>1, <2>2
<1>12. SUFFICES ASSUME NoneDamaged', NEW k \in NGram
                PROVE  OnTapes(k)' + InTable(k)' = Expected(k)'
  BY DEF CountsMatch
<1>13. OnTapes(k) + InTable(k) = Expected(k)
  BY <1>2, <1>3, <1>11, <1>12 DEF CountsMatch
<1> QED BY <1>4, <1>7, <1>8, <1>9, <1>10, <1>11, <1>13

\* The last tape is opened.
LEMMA EndKeepsCounts ==
    ASSUME CountInv, PrepareInv', EndOfInput
    PROVE  CountsMatch'
<1>1. /\ pc = "line" /\ pc' = "dump" /\ cursor' = <<>>
      /\ tapes' = Append(tapes, [recs |-> <<>>, damaged |-> FALSE])
      /\ UNCHANGED <<wildcard_id, mask, table, lines>>
  BY DEF EndOfInput, OpenTape
<1>2. tapes \in Seq(Tape) /\ tapes' \in Seq(Tape) /\ CountsMatch
  BY DEF CountInv, PrepareInv, TypeOK, Tape
<1> DEFINE e == [recs |-> <<>>, damaged |-> FALSE]
<1>3. e \in Tape /\ e.recs = <<>>
  BY DEF Tape
<1> HIDE DEF e
<1>4. /\ Len(tapes') = Len(tapes) + 1 /\ tapes'[Len(tapes) + 1] = e
      /\ \A t \in 1..Len(tapes) : tapes'[t] = tapes[t]
  BY <1>1, <1>2, <1>3, AppendProperties DEF e
<1>5. ASSUME NEW k PROVE OnTapes(k)' = OnTapes(k) /\ Expected(k)' = Expected(k)
  <2>1. OnTapes(k)' = OnTapes(k)
    BY <1>2, <1>3, <1>4, OpenAddsNothing
  <2> QED BY <1>1, <2>1, SumsStay
<1>6. ASSUME NEW k PROVE InTable(k)' = InTable(k)
  <2>1. PICK tab : tab = table
    OBVIOUS
  <2>2. InTable(k)' = CountIn(tab, k)
    BY <1>1, <2>1, OpenKeepsTheTable
  <2> QED BY <1>1, <2>1, <2>2 DEF InTable
<1>7. NoneDamaged' => NoneDamaged
  <2>1. \A t \in 1..Len(tapes) : t \in 1..(Len(tapes) + 1)
    BY <1>2
  <2> QED BY <1>4, <2>1 DEF NoneDamaged
<1> QED BY <1>1, <1>2, <1>5, <1>6, <1>7 DEF CountsMatch

\* A record that is written moves its count from the table to the tape.
LEMMA RecordKeepsCounts ==
    ASSUME CountInv, PrepareInv', DumpRecord
    PROVE  CountsMatch'
<1>1. /\ pc = "dump" /\ pc' = "dump" /\ ~Damaged
      /\ UNCHANGED <<wildcard_id, mask, table, lines>>
  BY DEF DumpRecord
<1>2. PICK k \in Undumped :
         /\ \A h \in Undumped : h = k \/ Before(k, h)
         /\ cursor' = k
         /\ \/ tapes' = [tapes EXCEPT ![Len(tapes)].recs = Append(@, [key |-> k, count |-> table[k]])]
            \/ tapes' = [tapes EXCEPT ![Len(tapes)].damaged = TRUE]
  BY DEF DumpRecord
<1>3. TypeOK /\ TypeOK' /\ Dumping /\ IsFiniteSet(DOMAIN table) /\ CountsMatch
  BY DEF CountInv, PrepareInv
<1>4. /\ tapes \in Seq(Tape) /\ tapes' \in Seq(Tape) /\ Len(tapes) >= 1
      /\ lines \in Seq(Line) /\ mask \in 0..Masks
  BY <1>1, <1>3 DEF TypeOK, Tape, Line, Dumping
<1>5. k \in NGram /\ k \in DOMAIN table /\ Undumped' = Undumped \ {k}
  BY <1>1, <1>2, <1>3, NextNGram DEF TypeOK
<1>6. PICK n : n = Len(tapes)
  OBVIOUS
<1>7. CASE tapes' = [tapes EXCEPT ![Len(tapes)].recs = Append(@, [key |-> k, count |-> table[k]])]
  <2>1. PICK r : r = [key |-> k, count |-> table[k]]
    OBVIOUS
  <2>2. r \in TapeRecord /\ r.key = k /\ r.count = table[k] /\ table[k] \in Nat
    BY <1>3, <1>5, <2>1 DEF TypeOK, TapeRecord
  <2>3. /\ Len(tapes') = n
        /\ \A t \in 1..n : t # n => tapes'[t] = tapes[t]
        /\ tapes'[n].recs = Append(tapes[n].recs, r)
        /\ tapes'[n].damaged = tapes[n].damaged
    BY <1>4, <1>6, <1>7, <2>1, <2>2, TapeChanges
  <2>4. NoneDamaged' => NoneDamaged
    BY <1>6, <2>3 DEF NoneDamaged
  <2>5. SUFFICES ASSUME NoneDamaged', NEW h \in NGram
                 PROVE  OnTapes(h)' + InTable(h)' = Expected(h)'
    BY DEF CountsMatch
  <2>6. OnTapes(h) + InTable(h) = Expected(h)
    BY <1>1, <1>3, <2>4, <2>5 DEF CountsMatch
  <2>7. OnTapes(h)' = OnTapes(h) + Adds(r, h)
    BY <1>4, <1>6, <2>2, <2>3, RecordAdds
  <2>8. Expected(h)' = Expected(h)
    BY <1>1, SumsStay
  <2>9. OnTapes(h) \in Int /\ Expected(h) \in Int
    BY <1>4, OnTapesType, ExpectedType
  <2>10. CASE h = k
    <3>1. InTable(h)' = 0
      BY <1>1, <1>5, <2>10 DEF InTable
    <3>2. InTable(h) = table[k]
      BY <1>2, <1>5, <2>10 DEF InTable, CountIn
    <3>3. Adds(r, h) = table[k]
      BY <2>2, <2>10 DEF Adds
    <3> QED BY <2>2, <2>6, <2>7, <2>8, <2>9, <3>1, <3>2, <3>3
  <2>11. CASE h # k
    <3>1. InTable(h)' = InTable(h)
      BY <1>1, <1>5, <2>11 DEF InTable
    <3>2. Adds(r, h) = 0
      BY <2>2, <2>11 DEF Adds
    <3> QED BY <2>6, <2>7, <2>8, <2>9, <3>1, <3>2
  <2> QED BY <2>10, <2>11
<1>8. CASE tapes' = [tapes EXCEPT ![Len(tapes)].damaged = TRUE]
  <2>1. Len(tapes') = n /\ n \in 1..n /\ tapes'[n].damaged = TRUE
    BY <1>4, <1>6, <1>8, TapeChanges
  <2>2. ~NoneDamaged'
    BY <2>1 DEF NoneDamaged
  <2> QED BY <2>2 DEF CountsMatch
<1> QED BY <1>2, <1>7, <1>8

\* At the end of a dump nothing is left in the table that could be lost.
LEMMA DumpEndKeepsCounts ==
    ASSUME CountInv, PrepareInv', DumpEnd
    PROVE  CountsMatch'
<1>1. /\ pc = "dump" /\ pc' # "dump" /\ Undumped = {} /\ table' = Empty
      /\ UNCHANGED <<wildcard_id, mask, lines>>
  BY DEF DumpEnd
<1>2. tapes \in Seq(Tape) /\ Len(tapes) >= 1 /\ CountsMatch
  BY <1>1 DEF CountInv, PrepareInv, TypeOK, Tape, Dumping
<1>3. CASE UNCHANGED tapes
  <2>1. ASSUME NEW k PROVE OnTapes(k)' = OnTapes(k) /\ Expected(k)' = Expected(k)
    BY <1>1, <1>3, SumsStay
  <2>2. ASSUME NEW k PROVE InTable(k)' = 0 /\ InTable(k) = 0
    BY <1>1 DEF InTable, CountIn, Empty
  <2>3. NoneDamaged' => NoneDamaged
    BY <1>3 DEF NoneDamaged
  <2> QED BY <1>1, <1>2, <2>1, <2>2, <2>3 DEF CountsMatch
<1>4. CASE tapes' = [tapes EXCEPT ![Len(tapes)].damaged = TRUE]
  <2>1. PICK n : n = Len(tapes)
    OBVIOUS
  <2>2. Len(tapes') = n /\ n \in 1..n /\ tapes'[n].damaged = TRUE
    BY <1>2, <1>4, <2>1, TapeChanges
  <2>3. ~NoneDamaged'
    BY <2>2 DEF NoneDamaged
  <2> QED BY <2>3 DEF CountsMatch
<1> QED BY <1>3, <1>4 DEF DumpEnd

\* Every step keeps the sums.
LEMMA CountStep == CountInv /\ [Next]_vars => CountInv'
<1> SUFFICES ASSUME CountInv, [Next]_vars PROVE CountInv'
  OBVIOUS
<1>1. PrepareInv'
  BY PrepareStep DEF CountInv
<1>2. CASE Next
  <2>1. CountsMatch'
    <3>1. CASE DumpFails
      BY <3>1 DEF DumpFails, CountsMatch
    <3>2. CASE ~DumpFails
      BY <1>1, <1>2, <3>2, StartKeepsCounts, ReadLineKeepsCounts, InsertKeepsCounts,
         EndKeepsCounts, RecordKeepsCounts, DumpEndKeepsCounts DEF Next
    <3> QED BY <3>1, <3>2
  <2> QED BY <1>1, <2>1 DEF CountInv
<1>3. CASE UNCHANGED vars
  <2>1. ASSUME NEW k PROVE OnTapes(k)' = OnTapes(k) /\ Expected(k)' = Expected(k)
    BY <1>3, SumsStay DEF vars
  <2>2. ASSUME NEW k PROVE InTable(k)' = InTable(k)
    BY <1>3 DEF vars, InTable, Undumped
  <2>3. pc' = pc /\ (NoneDamaged' => NoneDamaged)
    BY <1>3 DEF vars, NoneDamaged
  <2>4. CountsMatch'
    BY <2>1, <2>2, <2>3 DEF CountInv, CountsMatch
  <2> QED BY <1>1, <2>4 DEF CountInv
<1> QED BY <1>2, <1>3

\* Unless a tape was damaged, the tapes and the table together hold the sum of the
\* lines for every n-gram and every pattern, even when a dump comes between two
\* patterns of one line.
THEOREM PrepareKeepsCounts == Spec => []CountsKept
<1>1. Init => CountInv
  <2> SUFFICES ASSUME Init PROVE CountInv
    OBVIOUS
  <2>1. tapes = <<>> /\ lines = <<>> /\ table = Empty
    BY DEF Init
  <2>2. CountsMatch
    BY <2>1, NothingYet DEF CountsMatch
  <2> QED BY <2>2, PrepareInit DEF CountInv
<1>2. CountInv => CountsKept
  <2> SUFFICES ASSUME CountInv, pc # "failed", NoneDamaged,
                      NEW l \in 1..Len(lines), NEW j \in 0..(Masks - 1)
               PROVE  OnTapes(Pattern(lines[l].seq, j)) + InTable(Pattern(lines[l].seq, j))
                        = Expected(Pattern(lines[l].seq, j))
    BY DEF CountsKept, NoneDamaged
  <2>1. lines \in Seq(Line) /\ Progress
    BY DEF CountInv, PrepareInv, TypeOK, Line
  <2>2. lines[l] \in Line /\ lines # <<>>
    BY <2>1, ElementOfSeq
  <2>3. AddWildcards => wildcard_id \in Nat
    BY <2>1, <2>2 DEF Progress
  <2>4. Pattern(lines[l].seq, j) \in NGram
    BY <2>2, <2>3, PatternType DEF Line
  <2> QED BY <2>4 DEF CountInv, CountsMatch
<1> QED BY <1>1, <1>2, CountStep, PTL DEF Spec

=============================================================================
