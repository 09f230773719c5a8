------------------------------ MODULE StreamFile ------------------------------
(***************************************************************************)
(* What the tree writer expects of its stream (the FSF_ names of           *)
(* src/src/sfbti.h): one file, one position, every call either done in     *)
(* full or reported.  A stream that told its caller something untrue is no *)
(* longer trusted, and nothing is promised about it.                       *)
(***************************************************************************)
EXTENDS Integers, Sequences

CONSTANTS
    Blocks,     \* what a write may be given
    Sizes,      \* how much a read may be asked for
    Offsets     \* where a seek may go

VARIABLES
    content,    \* the file
    position,
    answer,     \* what the last call gave: "done", "failed", "eof", or "read" and
                \* the block
    trusted

streamVars == <<content, position, answer, trusted>>

\* f with block d written over it from offset p on; a gap is filled with 0.
Overlay(f, p, d) ==
    IF d = <<>> THEN f
    ELSE [x \in 1..(IF Len(f) > p + Len(d) THEN Len(f) ELSE p + Len(d)) |->
            IF x > p /\ x <= p + Len(d) THEN d[x - p]
            ELSE IF x <= Len(f) THEN f[x] ELSE 0]

Gave(what, d) == answer' = [what |-> what, data |-> d]

Init ==
    /\ content = <<>>
    /\ position = 0
    /\ answer = [what |-> "done", data |-> <<>>]
    /\ trusted = TRUE

Write(d) ==
    /\ content' = Overlay(content, position, d)
    /\ position' = position + Len(d)
    /\ Gave("done", <<>>)
    /\ UNCHANGED trusted

\* A write that fails may leave a part of its block in the file.
WriteFails(d) ==
    /\ \E n \in 0..Len(d) : content' = Overlay(content, position, SubSeq(d, 1, n))
    /\ Gave("failed", <<>>)
    /\ UNCHANGED <<position, trusted>>

Read(n) ==
    /\ position + n <= Len(content)
    /\ Gave("read", SubSeq(content, position + 1, position + n))
    /\ position' = position + n
    /\ UNCHANGED <<content, trusted>>

ReadShort(n) ==
    /\ position + n > Len(content)
    /\ Gave("eof", <<>>)
    /\ UNCHANGED <<content, position, trusted>>

Seek(o) ==
    /\ position' = o
    /\ Gave("done", <<>>)
    /\ UNCHANGED <<content, trusted>>

SeekEnd ==
    /\ position' = Len(content)
    /\ Gave("done", <<>>)
    /\ UNCHANGED <<content, trusted>>

Close ==
    /\ Gave("done", <<>>)
    /\ UNCHANGED <<content, position, trusted>>

Refuse ==
    /\ Gave("failed", <<>>)
    /\ UNCHANGED <<content, position, trusted>>

Next ==
    \/ trusted /\
         \/ \E d \in Blocks : Write(d) \/ WriteFails(d)
         \/ \E n \in Sizes : Read(n) \/ ReadShort(n)
         \/ \E o \in Offsets : Seek(o)
         \/ SeekEnd
         \/ Close
         \/ Refuse
    \/ trusted' = FALSE

Spec == Init /\ [][Next]_streamVars

=============================================================================
