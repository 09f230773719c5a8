------------------------------ MODULE MergeTapes ------------------------------
(***************************************************************************)
(* mertap_loop (src/src/mergetapes.c): the merge of sorted tapes of        *)
(* n-gram counts into one ascending stream, equal keys added up.           *)
(*                                                                         *)
(* The heap holds the tapes that have a record read ahead (their peek),    *)
(* the smallest on top; heap[i+1] is heap->files[i].  One action is one    *)
(* read, one iteration of a sift loop, or one step of mertap_loop itself.  *)
(* Keys are numbers: mertap_cmp compares token by token, an order.         *)
(***************************************************************************)
EXTENDS Integers, Sequences, FiniteSets, Functions

CONSTANTS
    NoFiles,     \* no_files, the tapes given to mertap_loop
    Tapes,       \* what a tape may hold: sequences of [key, count]
    MaxFiles     \* MAX_HEAP_FILES

Record == [key : Nat, count : Nat]
Ascending(s) == \A a, b \in 1..Len(s) : a < b => s[a].key < s[b].key

\* judysort_dump_output_gzfile writes every tape in ascending order of its keys.
ASSUME MergeAssumption ==
    /\ NoFiles \in Nat
    /\ MaxFiles \in Nat
    /\ Tapes \subseteq Seq(Record)
    /\ \A s \in Tapes : Ascending(s)

Files == 1..NoFiles

VARIABLES
    tape,        \* the contents of the tapes
    pos,         \* how many records of each tape were read
    heap,        \* heap->files[0..no_files-1]
    i,           \* the index of a sift loop, from 1
    file,        \* the tape being read, or the one popped last (topfile)
    stage,       \* "fill": the loop over the files; "first": the pop before the
                 \* main loop; "merge": the main loop
    buf,         \* buf
    out,         \* the records handed to f
    dropped,     \* history: the tapes given up after a read error
    pc

vars == <<tape, pos, heap, i, file, stage, buf, out, dropped, pc>>

NoRecord == [key |-> 0, count |-> 0]

Peek(f) == tape[f][pos[f]]
Parent(j) == j \div 2       \* MERTAP_HEAP_PARENT, LEFT and RIGHT, from 1
Left(j) == 2 * j
Right(j) == 2 * j + 1

KeyAt(j) == Peek(heap[j]).key
Swapped(a, b) == [heap EXCEPT ![a] = heap[b], ![b] = heap[a]]

Init ==
    /\ tape \in [Files -> Tapes]
    /\ pos = [f \in Files |-> 0]
    /\ heap = <<>>
    /\ i = 1
    /\ file = 1
    /\ stage = "fill"
    /\ buf = NoRecord
    /\ out = <<>>
    /\ dropped = {}
    /\ pc = IF NoFiles = 0 THEN "done" ELSE "read"

-----------------------------------------------------------------------------

\* Mutated form of ReadRecord: the end of the tape is not seen.
ReadRecordPastEnd ==
    /\ pc = "read"
    /\ pos' = [pos EXCEPT ![file] = @ + 1]
    /\ IF Len(heap) >= MaxFiles
       THEN pc' = "aborted" /\ UNCHANGED <<heap, i>>
       ELSE /\ heap' = Append(heap, file)
            /\ i' = Len(heap) + 1
            /\ pc' = "up"
    /\ UNCHANGED <<tape, file, stage, buf, out, dropped>>

\* mertap_heap_read_push_or_finish: a record is read and its tape pushed; the
\* assertion of mertap_heap_push stops the process when the heap is full.
ReadRecord ==
    /\ pc = "read"
    /\ pos[file] < Len(tape[file])
    /\ pos' = [pos EXCEPT ![file] = @ + 1]
    /\ IF Len(heap) >= MaxFiles
       THEN pc' = "aborted" /\ UNCHANGED <<heap, i>>
       ELSE /\ heap' = Append(heap, file)
            /\ i' = Len(heap) + 1
            /\ pc' = "up"
    /\ UNCHANGED <<tape, file, stage, buf, out, dropped>>

\* The tape is at its end: it is not pushed again.
ReadEnd ==
    /\ pc = "read"
    /\ pos[file] = Len(tape[file])
    /\ pc' = "next"
    /\ UNCHANGED <<tape, pos, heap, i, file, stage, buf, out, dropped>>

\* The tape ends inside a record: gzread brings no more bytes and
\* mertap_file_read_peek calls itself without end.
ReadTorn ==
    /\ pc = "read"
    /\ pos[file] = Len(tape[file])
    /\ pc' = "hung"
    /\ UNCHANGED <<tape, pos, heap, i, file, stage, buf, out, dropped>>

\* gzread fails: a warning, and the rest of the tape is left out.
ReadError ==
    /\ pc = "read"
    /\ dropped' = dropped \union {file}
    /\ pc' = "next"
    /\ UNCHANGED <<tape, pos, heap, i, file, stage, buf, out>>

\* Mutated form of SiftUp: one iteration only.
SiftUpOnce ==
    /\ pc = "up"
    /\ IF i > 1 /\ KeyAt(i) < KeyAt(Parent(i))
       THEN heap' = Swapped(i, Parent(i)) ELSE UNCHANGED heap
    /\ pc' = "next"
    /\ UNCHANGED <<tape, pos, i, file, stage, buf, out, dropped>>

\* The loop of mertap_heap_push.
SiftUp ==
    /\ pc = "up"
    /\ IF i > 1 /\ KeyAt(i) < KeyAt(Parent(i))
       THEN heap' = Swapped(i, Parent(i)) /\ i' = Parent(i) /\ UNCHANGED pc
       ELSE pc' = "next" /\ UNCHANGED <<heap, i>>
    /\ UNCHANGED <<tape, pos, file, stage, buf, out, dropped>>

\* The loop over the files goes on.
NextFile ==
    /\ pc = "next" /\ stage = "fill" /\ file < NoFiles
    /\ file' = file + 1
    /\ pc' = "read"
    /\ UNCHANGED <<tape, pos, heap, i, stage, buf, out, dropped>>

\* No tape had a record: mertap_loop returns 0 and f was never called.
AllEmpty ==
    /\ pc = "next" /\ stage = "fill" /\ file = NoFiles
    /\ heap = <<>>
    /\ pc' = "done"
    /\ UNCHANGED <<tape, pos, heap, i, file, stage, buf, out, dropped>>

\* mertap_heap_pop up to its loop: the last tape moves to the top.
Pop ==
    /\ pc = "next" /\ heap # <<>>
    /\ stage = "fill" => file = NoFiles
    /\ stage' = IF stage = "fill" THEN "first" ELSE "merge"
    /\ file' = heap[1]
    /\ heap' = SubSeq([heap EXCEPT ![1] = heap[Len(heap)]], 1, Len(heap) - 1)
    /\ i' = 1
    /\ pc' = "down"
    /\ UNCHANGED <<tape, pos, buf, out, dropped>>

\* Mutated form of SiftDown: the index stays where it was.
SiftDownInPlace ==
    /\ pc = "down"
    /\ Right(i) <= Len(heap)
    /\ IF KeyAt(i) < KeyAt(Left(i)) /\ KeyAt(i) < KeyAt(Right(i))
       THEN pc' = "popped" /\ UNCHANGED heap
       ELSE LET child == IF KeyAt(Left(i)) < KeyAt(Right(i)) THEN Left(i) ELSE Right(i)
            IN heap' = Swapped(i, child) /\ UNCHANGED pc
    /\ UNCHANGED <<tape, pos, i, file, stage, buf, out, dropped>>

\* Mutated form of SiftDown: it always goes to the left.
SiftDownLeft ==
    /\ pc = "down"
    /\ Right(i) <= Len(heap)
    /\ IF KeyAt(i) < KeyAt(Left(i)) /\ KeyAt(i) < KeyAt(Right(i))
       THEN pc' = "popped" /\ UNCHANGED <<heap, i>>
       ELSE heap' = Swapped(i, Left(i)) /\ i' = Left(i) /\ UNCHANGED pc
    /\ UNCHANGED <<tape, pos, file, stage, buf, out, dropped>>

\* Its loop: the element goes down towards its smaller child while it has two and
\* is not smaller than both.
SiftDown ==
    /\ pc = "down"
    /\ Right(i) <= Len(heap)
    /\ IF KeyAt(i) < KeyAt(Left(i)) /\ KeyAt(i) < KeyAt(Right(i))
       THEN pc' = "popped" /\ UNCHANGED <<heap, i>>
       ELSE LET child == IF KeyAt(Left(i)) < KeyAt(Right(i)) THEN Left(i) ELSE Right(i)
            IN heap' = Swapped(i, child) /\ i' = child /\ UNCHANGED pc
    /\ UNCHANGED <<tape, pos, file, stage, buf, out, dropped>>

\* Behind the loop: the one element that may have a left child only.
SiftDownLast ==
    /\ pc = "down"
    /\ Right(i) > Len(heap)
    /\ heap' = IF Left(i) <= Len(heap) /\ KeyAt(i) > KeyAt(Left(i))
               THEN Swapped(i, Left(i)) ELSE heap
    /\ pc' = "popped"
    /\ UNCHANGED <<tape, pos, i, file, stage, buf, out, dropped>>

\* The first record, which buf starts with.
FirstRecord ==
    /\ pc = "popped" /\ stage = "first"
    /\ buf' = Peek(file)
    /\ stage' = "merge"
    /\ pc' = "read"
    /\ UNCHANGED <<tape, pos, heap, i, file, out, dropped>>

\* Mutated form of SameKey: the count of the last tape wins.
SameKeyReplaces ==
    /\ pc = "popped" /\ stage = "merge"
    /\ buf.key = Peek(file).key
    /\ buf' = Peek(file)
    /\ pc' = "read"
    /\ UNCHANGED <<tape, pos, heap, i, file, stage, out, dropped>>

\* The key of buf again: the counts are added up.
SameKey ==
    /\ pc = "popped" /\ stage = "merge"
    /\ buf.key = Peek(file).key
    /\ buf' = [buf EXCEPT !.count = @ + Peek(file).count]
    /\ pc' = "read"
    /\ UNCHANGED <<tape, pos, heap, i, file, stage, out, dropped>>

\* Another key: buf is handed to f and replaced.
OtherKey ==
    /\ pc = "popped" /\ stage = "merge"
    /\ buf.key # Peek(file).key
    /\ out' = Append(out, buf)
    /\ buf' = Peek(file)
    /\ pc' = "read"
    /\ UNCHANGED <<tape, pos, heap, i, file, stage, dropped>>

\* The heap is empty: buf is the last record.
LastRecord ==
    /\ pc = "next" /\ stage = "merge"
    /\ heap = <<>>
    /\ out' = Append(out, buf)
    /\ pc' = "done"
    /\ UNCHANGED <<tape, pos, heap, i, file, stage, buf, dropped>>

\* f fails (an sfbti_add_entry could not write): mertap_loop returns 1.
OutputFails ==
    /\ \/ pc = "popped" /\ stage = "merge" /\ buf.key # Peek(file).key
       \/ pc = "next" /\ stage = "merge" /\ heap = <<>>
    /\ pc' = "failed"
    /\ UNCHANGED <<tape, pos, heap, i, file, stage, buf, out, dropped>>

Next ==
    \/ ReadRecord \/ ReadEnd \/ ReadTorn \/ ReadError
    \/ SiftUp
    \/ NextFile \/ AllEmpty
    \/ Pop \/ SiftDown \/ SiftDownLast
    \/ FirstRecord \/ SameKey \/ OtherKey
    \/ LastRecord \/ OutputFails

Spec == Init /\ [][Next]_vars

\* mertap_loop is one call and waits for nobody.
FairSpec == Spec /\ WF_vars(Next)

-----------------------------------------------------------------------------

\* Every variable has its type.
TypeOK ==
    /\ tape \in [Files -> Tapes]
    /\ pos \in [Files -> Nat]
    /\ \A f \in Files : pos[f] <= Len(tape[f])
    /\ heap \in Seq(Files)
    /\ \A j \in 1..Len(heap) : pos[heap[j]] >= 1
    /\ i \in Nat \ {0}
    /\ file \in Nat
    /\ pc \notin {"done", "next"} => file \in Files
    /\ stage \in {"fill", "first", "merge"}
    /\ buf \in Record
    /\ out \in Seq(Record)
    /\ dropped \subseteq Files
    /\ pc \in {"read", "up", "next", "down", "popped", "done", "failed", "hung", "aborted"}

HeapDistinct ==
    /\ \A a, b \in 1..Len(heap) : heap[a] = heap[b] => a = b
    /\ pc \in {"read", "down", "popped"} => \A a \in 1..Len(heap) : heap[a] # file

HeapOrdered ==
    \A j \in 2..Len(heap) :
        /\ ~(pc = "up" /\ j = i) /\ ~(pc = "down" /\ Parent(j) = i)
               => KeyAt(Parent(j)) <= KeyAt(j)
        /\ pc \in {"up", "down"} /\ Parent(j) = i /\ i > 1
               => KeyAt(Parent(i)) <= KeyAt(j)

HeapSuffices == pc = "aborted" => NoFiles > MaxFiles

\* The heap is one at every step of a sift: no tape is in it twice, or in it while
\* its record is being taken; the element being moved is the only one out of order
\* (on the way up it may be smaller than its parent, on the way down larger than its
\* children, and these are in order around it); and the assertion of
\* mertap_heap_push holds for up to MAX_HEAP_FILES tapes.
HeapSound == HeapDistinct /\ HeapOrdered /\ HeapSuffices

\* What f is given is strictly ascending, every key once: what sfbti_add_entry
\* needs of its caller.
OutAscending ==
    /\ Ascending(out)
    /\ stage = "merge" /\ pc # "done" =>
           \A a \in 1..Len(out) : out[a].key < buf.key

\* What the first n records of s count for the key k.
CountAt(s, k) == [e \in 1..Len(s) |-> IF s[e].key = k THEN s[e].count ELSE 0]
SumOf(s, n, k) == SumFunctionOnSet(CountAt(s, k), 1..n)

\* How many records of a tape buf and out account for: all that were read but the
\* one its peek still holds.
Settled(f) ==
    IF \/ \E a \in 1..Len(heap) : heap[a] = f
       \/ pc \in {"down", "popped", "failed"} /\ f = file
    THEN pos[f] - 1 ELSE pos[f]

\* What was taken from the tapes for the key k.
Taken(k) == SumFunction([f \in Files |-> SumOf(tape[f], Settled(f), k)])

BufHolds(k) == stage = "merge" /\ pc # "done" /\ buf.key = k

\* No count is lost or doubled: at every moment, the count of a key in out and buf
\* is the sum of what was taken from the tapes, and when mertap_loop returns 0
\* every tape was taken to its end, but those a read error cut short.
CountsKept ==
    /\ pc \notin {"failed", "aborted"} =>
         \A k \in UNION {{r.key : r \in {tape[f][e] : e \in 1..Len(tape[f])}} : f \in Files} :
           SumOf(out, Len(out), k) + (IF BufHolds(k) THEN buf.count ELSE 0) =
           Taken(k)
    /\ pc = "done" => \A f \in Files : f \in dropped \/ pos[f] = Len(tape[f])

\* mertap_loop ends, unless a tape ends inside a record.
MergeEnds == <>(pc \in {"done", "failed", "aborted", "hung"})

=============================================================================
