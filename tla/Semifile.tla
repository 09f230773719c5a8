------------------------------- MODULE Semifile -------------------------------
(***************************************************************************)
(* A semifile (src/src/semifile.c), the stream the tree writer can be      *)
(* built with (USE_SEMIFILES) to have more trees open than there are file  *)
(* descriptors: writes collect in a buffer, and the file is opened only to *)
(* flush it, to read, or to write a block the buffer cannot take.  Each of *)
(* these openings can fail.                                                *)
(*                                                                         *)
(* One action is one call, with the outcomes its openings can have.        *)
(* SEEK_CUR is left out: "does not work correctly -- unused"               *)
(* (semifile.c:226).                                                       *)
(***************************************************************************)
EXTENDS Integers, Sequences

CONSTANTS
    BufferSize, \* BUFFERSIZE
    Blocks,     \* what a write may be given, sequences of cells
    Sizes,      \* how much a read may be asked for
    Offsets,    \* where a seek may go
    MaxLength   \* bound: no write ends behind this offset

ASSUME SemifileAssumption ==
    /\ BufferSize \in Nat \ {0}
    /\ \A d \in Blocks : d \in Seq(Nat) /\ d # <<>>
    /\ Sizes \subseteq Nat \ {0}
    /\ Offsets \subseteq Nat
    /\ MaxLength \in Nat

VARIABLES
    disk,       \* the file as it is on disk
    buffer,     \* buffer[0..fill-1]
    buffer_pos, \* where the buffer goes
    offset,     \* the position within the buffer
    answer,     \* what the caller makes of the result of its last call
    trusted,    \* history: the caller was never told something untrue
    open

vars == <<disk, buffer, buffer_pos, offset, answer, trusted, open>>

Over(f, p, d) ==
    IF d = <<>> THEN f
    ELSE [x \in 1..(IF Len(f) > p + Len(d) THEN Len(f) ELSE p + Len(d)) |->
            IF x > p /\ x <= p + Len(d) THEN d[x - p]
            ELSE IF x <= Len(f) THEN f[x] ELSE 0]

Init ==
    /\ disk = <<>>
    /\ buffer = <<>>
    /\ buffer_pos = 0
    /\ offset = 0
    /\ answer = [what |-> "done", data |-> <<>>]
    /\ trusted = TRUE
    /\ open = TRUE

\* semifile_ftell
Tell == buffer_pos + offset

Fits(d, off) == BufferSize - off >= Len(d)

\* What semifile_flush should leave on disk, and what it may: fwrite can fail half
\* way, and so can fclose, whose result is not looked at.
Flushed == Over(disk, buffer_pos, buffer)
MaybeFlushed == {Over(disk, buffer_pos, SubSeq(buffer, 1, n)) : n \in 0..Len(buffer)}

Gave(what, d) == answer' = [what |-> what, data |-> d] /\ UNCHANGED open

\* The caller believes the flush that left the file so, when there was one.
Believes(file) == trusted' = (trusted /\ file = Flushed)

\* The result looks like success, but nothing or something else was done.
Misled == Gave("done", <<>>) /\ trusted' = FALSE

CanWrite(d) == open /\ Tell + Len(d) <= MaxLength

-----------------------------------------------------------------------------

\* semifile_fwrite: the block fits into the buffer.
WriteBuffered(d) ==
    /\ CanWrite(d)
    /\ Fits(d, offset)
    /\ buffer' = Over(buffer, offset, d)
    /\ offset' = offset + Len(d)
    /\ Gave("done", <<>>)
    /\ UNCHANGED <<disk, buffer_pos, trusted>>

\* Mutated form of WriteAfterFlush: the buffer's place in the file stays.
WriteAfterFlushInPlace(d) ==
    /\ CanWrite(d)
    /\ ~Fits(d, offset) /\ Fits(d, 0)
    /\ disk' \in MaybeFlushed
    /\ Believes(disk')
    /\ buffer' = d
    /\ offset' = Len(d)
    /\ Gave("done", <<>>)
    /\ UNCHANGED buffer_pos

\* It fits once the buffer is flushed.
WriteAfterFlush(d) ==
    /\ CanWrite(d)
    /\ ~Fits(d, offset) /\ Fits(d, 0)
    /\ disk' \in MaybeFlushed
    /\ Believes(disk')
    /\ buffer_pos' = Tell
    /\ buffer' = d
    /\ offset' = Len(d)
    /\ Gave("done", <<>>)

\* The block goes to the file directly, behind what was flushed: it never fits, or
\* the first of the two flushes failed and the second did not.
Direct(d) ==
    /\ CanWrite(d)
    /\ ~Fits(d, offset)
    /\ Fits(d, 0) => buffer # <<>>
    /\ buffer' = <<>>
    /\ offset' = 0

\* It is written; a block that only fclose fails to write counts as written.
WriteThrough(d) ==
    /\ Direct(d)
    /\ \E file \in MaybeFlushed, n \in 0..Len(d) :
         /\ disk' = Over(file, Tell, SubSeq(d, 1, n))
         /\ trusted' = (trusted /\ file = Flushed /\ n = Len(d))
    /\ buffer_pos' = Tell + Len(d)
    /\ Gave("done", <<>>)

\* The file cannot be opened for it: the result is 1, which is what writing one
\* block gives.
WriteThroughFails(d) ==
    /\ Direct(d)
    /\ disk' \in MaybeFlushed
    /\ buffer_pos' = Tell
    /\ Misled

\* The block cannot be written in full, and the result is 0.
WriteThroughCut(d) ==
    /\ Direct(d)
    /\ \E file \in MaybeFlushed, n \in 0..(Len(d)-1) :
         /\ disk' = Over(file, Tell, SubSeq(d, 1, n))
         /\ Believes(file)
    /\ buffer_pos' = Tell
    /\ Gave("failed", <<>>)

\* Both flushes fail, which nobody looks at: the block is written behind the place
\* the buffer should have, and the buffer's place moves on under it; or the file
\* cannot be opened (the result is 1), or the block cannot be written in full (0).
WriteBothFlushesFail(d) ==
    /\ CanWrite(d)
    /\ ~Fits(d, offset)
    /\ buffer # <<>>
    /\ \E part \in MaybeFlushed, n \in 0..Len(d) :
         /\ disk' = Over(part, Tell, SubSeq(d, 1, n))
         /\ \/ buffer_pos' = buffer_pos + Len(d) /\ Misled
            \/ n = 0 /\ UNCHANGED buffer_pos /\ Misled
            \/ n < Len(d) /\ Gave("failed", <<>>) /\ UNCHANGED <<buffer_pos, trusted>>
    /\ UNCHANGED <<buffer, offset>>

\* A flush that semifile_flush reports as done.
FlushAll ==
    /\ open
    /\ disk' \in MaybeFlushed
    /\ buffer' = <<>>
    /\ offset' = 0

\* semifile_fread: flush, then read one block of n from the file.
Read(n) ==
    /\ FlushAll
    /\ Believes(disk')
    /\ IF Tell + n <= Len(disk')
       THEN buffer_pos' = Tell + n /\ Gave("read", SubSeq(disk', Tell + 1, Tell + n))
       ELSE buffer_pos' = Tell /\ Gave("eof", <<>>)

\* The flush or the opening fails: the result is 1, as if a block had been read.
ReadFails ==
    /\ \/ /\ open /\ buffer # <<>>
          /\ disk' \in MaybeFlushed
          /\ UNCHANGED <<buffer, buffer_pos, offset>>
       \/ FlushAll /\ buffer_pos' = Tell
    /\ Misled

\* Mutated form of Seek: the buffer is not flushed.
SeekUnflushed(o) ==
    /\ open
    /\ buffer_pos' = o
    /\ offset' = 0
    /\ Gave("done", <<>>)
    /\ UNCHANGED <<disk, buffer, trusted>>

\* semifile_fseek with SEEK_SET, and semifile_fsetpos and semifile_rewind.
Seek(o) ==
    /\ FlushAll
    /\ Believes(disk')
    /\ buffer_pos' = o
    /\ Gave("done", <<>>)

\* semifile_fseek with SEEK_END
SeekEnd ==
    /\ FlushAll
    /\ Believes(disk')
    /\ buffer_pos' = Len(disk')
    /\ Gave("done", <<>>)

\* The flush fails: the call returns 1 and the buffer is kept.
FlushRefused ==
    /\ open /\ buffer # <<>>
    /\ disk' \in MaybeFlushed
    /\ Gave("failed", <<>>)
    /\ UNCHANGED <<buffer, buffer_pos, offset, trusted>>

\* SEEK_END cannot open the file behind its flush.
SeekEndFails ==
    /\ FlushAll
    /\ Believes(disk')
    /\ buffer_pos' = Tell
    /\ Gave("failed", <<>>)

\* semifile_fclose; when its flush fails the semifile stays open.
Close ==
    /\ FlushAll
    /\ Believes(disk')
    /\ buffer_pos' = Tell
    /\ open' = FALSE
    /\ answer' = [what |-> "done", data |-> <<>>]

Next ==
    \/ \E d \in Blocks : \/ WriteBuffered(d)
                         \/ WriteAfterFlush(d)
                         \/ WriteThrough(d)
                         \/ WriteThroughFails(d)
                         \/ WriteThroughCut(d)
                         \/ WriteBothFlushesFail(d)
    \/ \E n \in Sizes : Read(n)
    \/ ReadFails
    \/ \E o \in Offsets : Seek(o)
    \/ SeekEnd
    \/ FlushRefused
    \/ SeekEndFails
    \/ Close

Spec == Init /\ [][Next]_vars

-----------------------------------------------------------------------------

\* Without SEEK_CUR the position in the buffer is always at its end, and the buffer
\* never overflows, whatever fails: what keeps `buffer_pos += offset' in
\* semifile_flush right and memcpy inside the array.  Nothing is left in the buffer
\* of a closed semifile.
BufferTight ==
    /\ offset = Len(buffer)
    /\ Len(buffer) <= BufferSize
    /\ open \/ buffer = <<>>

Stream == INSTANCE StreamFile WITH
    content <- Over(disk, buffer_pos, buffer),
    position <- Tell

\* A semifile is a plain stream as long as no call misled its caller (a failed
\* fclose, a write or read that could not be done and gave 1): a failed flush that
\* is reported, or made good by the second one of a write, loses nothing.
ImplementsStream == Stream!Spec

=============================================================================
