------------------------------ MODULE LineReader ------------------------------
(***************************************************************************)
(* ngread.c: the reader that every program takes its text files through,   *)
(* one line of columns per call of ngr_next.  A file is a sequence of      *)
(* characters; buffer is the filled part of ngrf->buffer (so its length is *)
(* `fill'), and zlib's gzeof says that a read once asked for more than the *)
(* file still had (past).                                                  *)
(*                                                                         *)
(* Open(chars) begins a file, CallNext a call of ngr_next; the module that *)
(* consumes the lines says when.                                           *)
(***************************************************************************)
EXTENDS Naturals, Sequences, SequencesExt

CONSTANTS
    NL, SPACE, TAB,     \* the characters that mean something here
    LineBufferSize,     \* LINE_BUFFER_SIZE
    MaxColumns          \* MAX_COLUMNS

ASSUME LineAssumption ==
    /\ LineBufferSize \in Nat \ {0}
    /\ MaxColumns \in Nat \ {0}
    /\ NL \notin {SPACE, TAB}

VARIABLES
    text,       \* history: the whole file
    input,      \* what gzread has not delivered yet
    past,       \* gzeof
    buffer,     \* ngrf->buffer up to fill
    linesize,   \* bytes of the buffer the last line took
    newlines,   \* ngrf->newlines
    line,       \* the columns of the last line
    handed,     \* history: the lines handed over
    reader      \* "closed", "idle", "filling", "end" (returned 0),
                \* "exit" (a line it cannot take), "failed" (a read error)

lineVars == <<text, input, past, buffer, linesize, newlines, line, handed, reader>>

LineInit ==
    /\ text = <<>> /\ input = <<>> /\ past = FALSE
    /\ buffer = <<>> /\ linesize = 0 /\ newlines = 0
    /\ line = <<>> /\ handed = <<>>
    /\ reader = "closed"

Separator(c) == c \in {SPACE, TAB}
Newline(c) == c = NL
NoNewlines(s) == Len(SelectSeq(s, Newline))
FirstNewline(s) == SelectInSeq(s, Newline)

\* What the characters that Test names cut s into.
Pieces(s, Test(_)) ==
    LET cut == SelectSeq([i \in 1..Len(s) + 1 |-> i],
                         LAMBDA i : i > Len(s) \/ Test(s[i]))
    IN [k \in 1..Len(cut) |->
          SubSeq(s, IF k = 1 THEN 1 ELSE cut[k - 1] + 1, cut[k] - 1)]

\* The columns of a line; two separators in a row have an empty one between them.
Columns(s) == Pieces(s, Separator)

\* What ngr_next skips: one column, and that one empty.
IsBlank(cols) == cols = << <<>> >>

\* ngr_open.  A file that cannot be opened is opened all the same: gzopen's
\* result is not looked at, and the first read of it fails.
Open(chars) ==
    /\ text' = chars /\ input' = chars
    /\ past' = FALSE
    /\ buffer' = <<>> /\ linesize' = 0 /\ newlines' = 0
    /\ line' = <<>> /\ handed' = <<>>
    /\ reader' = "idle"

\* The head of ngr_next's outer loop: the last line leaves the buffer.
Shift ==
    /\ buffer' = SubSeq(buffer, linesize + 1, Len(buffer))
    /\ reader' = "filling"

CallNext ==
    /\ reader = "idle"
    /\ Shift
    /\ UNCHANGED <<text, input, past, linesize, newlines, line, handed>>

\* Mutated form of Fill: the end of the file is not noticed.
FillPastEnd ==
    /\ reader = "filling" /\ newlines = 0
    /\ LET want == LineBufferSize - Len(buffer)
           got == Min({want, Len(input)})
       IN /\ buffer' = buffer \o SubSeq(input, 1, got)
          /\ input' = SubSeq(input, got + 1, Len(input))
          /\ past' = (past \/ want > got)
          /\ newlines' = newlines + NoNewlines(SubSeq(input, 1, got))
    /\ reader' = IF newlines' = 0 /\ Len(buffer') = LineBufferSize
                 THEN "exit" ELSE "filling"
    /\ UNCHANGED <<text, linesize, line, handed>>

\* One iteration of the inner loop: the buffer is filled up.  Without a newline in
\* it the reader is at the end of the file (a last line without newline is
\* ignored), or the line is too long and exit() is called, or it reads on.
Fill ==
    /\ reader = "filling" /\ newlines = 0
    /\ LET want == LineBufferSize - Len(buffer)
           got == Min({want, Len(input)})
       IN /\ buffer' = buffer \o SubSeq(input, 1, got)
          /\ input' = SubSeq(input, got + 1, Len(input))
          /\ past' = (past \/ want > got)
          /\ newlines' = newlines + NoNewlines(SubSeq(input, 1, got))
    /\ reader' = IF newlines' > 0 THEN "filling"
                 ELSE IF past' THEN "end"
                 ELSE IF Len(buffer') = LineBufferSize THEN "exit" ELSE "filling"
    /\ UNCHANGED <<text, linesize, line, handed>>

\* gzread fails, as it does at once for a file that is not there: exit( 1 ).
FillFails ==
    /\ reader = "filling" /\ newlines = 0
    /\ reader' = "failed"
    /\ UNCHANGED <<text, input, past, buffer, linesize, newlines, line, handed>>

\* Mutated form of Split: the newline stays in the buffer.
SplitKeepsNewline ==
    /\ reader = "filling" /\ newlines > 0
    /\ LET end == FirstNewline(buffer)
           cols == Columns(SubSeq(buffer, 1, end - 1))
       IN IF Len(cols) > MaxColumns
          THEN reader' = "exit" /\ UNCHANGED <<linesize, newlines, line, handed, buffer>>
          ELSE /\ linesize' = end - 1
               /\ newlines' = newlines - 1
               /\ line' = cols
               /\ IF IsBlank(cols)
                  THEN /\ buffer' = SubSeq(buffer, linesize' + 1, Len(buffer))
                       /\ UNCHANGED <<handed, reader>>
                  ELSE /\ handed' = Append(handed, cols)
                       /\ reader' = "idle"
                       /\ UNCHANGED buffer
    /\ UNCHANGED <<text, input, past>>

\* With a newline in the buffer its first line is cut into columns and handed over,
\* or, if it is blank, dropped for the next one.
Split ==
    /\ reader = "filling" /\ newlines > 0
    /\ LET end == FirstNewline(buffer)
           cols == Columns(SubSeq(buffer, 1, end - 1))
       IN IF Len(cols) > MaxColumns
          THEN reader' = "exit" /\ UNCHANGED <<linesize, newlines, line, handed, buffer>>
          ELSE /\ linesize' = end
               /\ newlines' = newlines - 1
               /\ line' = cols
               /\ IF IsBlank(cols)
                  THEN /\ buffer' = SubSeq(buffer, linesize' + 1, Len(buffer))
                       /\ UNCHANGED <<handed, reader>>
                  ELSE /\ handed' = Append(handed, cols)
                       /\ reader' = "idle"
                       /\ UNCHANGED buffer
    /\ UNCHANGED <<text, input, past>>

ReadStep == Fill \/ Split

-----------------------------------------------------------------------------

\* A file as a reader of its format sees it: the lines that end in a newline, what
\* follows the last newline, and the columns of the lines that are not blank.
FullLines(chars) == Front(Pieces(chars, Newline))
Rest(chars) == Last(Pieces(chars, Newline))
Lines(chars) ==
    SelectSeq([i \in 1..Len(FullLines(chars)) |-> Columns(FullLines(chars)[i])],
              LAMBDA cols : ~IsBlank(cols))

TooLong(s) == Len(s) >= LineBufferSize

\* The reader hands over the lines of the file, whole and in order, however they
\* fall into its buffer; when it returns 0 it has handed over all of them.  It
\* gives up only on a failing read, on too many columns, or on a line that with its
\* newline is longer than the buffer -- or on a last line without newline that fills
\* the buffer: it reports that one as too long instead of ignoring it.
LinesHandedOver ==
    /\ IsPrefix(handed, Lines(text))
    /\ reader = "end" => handed = Lines(text)
    /\ reader = "exit" =>
         \/ \E i \in 1..Len(FullLines(text)) : TooLong(FullLines(text)[i])
         \/ \E i \in 1..Len(FullLines(text)) :
              Len(Columns(FullLines(text)[i])) > MaxColumns
         \/ TooLong(Rest(text))

=============================================================================
