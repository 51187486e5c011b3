------------------------------- MODULE StdioFrames -------------------------------
(***************************************************************************)
(* How the stdio transport cuts its input into messages: receive collects  *)
(* the bytes of a line, however they arrive, and survives being dropped    *)
(* whenever the service attends to something else.  A line too long,       *)
(* malformed or cut off closes the stream.                                 *)
(*                                                                         *)
(* A byte is a newline or another one.  What a line spells is decided by   *)
(* the peer that ends it; a line that lost bytes on the way spells nothing.*)
(***************************************************************************)
EXTENDS Naturals, Sequences, FiniteSetsExt

CONSTANTS
    MaxFrame,    \* MAX_FRAME_BYTES, the newline included
    MaxLines,    \* bound: lines the peer writes
    PipeSize     \* bound: bytes on their way

ASSUME FramePositive == MaxFrame \in Nat \ {0}
ASSUME LimitsNatural == {MaxLines, PipeSize} \subseteq Nat

VARIABLES
    lines,      \* the lines the peer has ended: their length, and do they parse
    typed,      \* bytes of the line it is writing
    eof,        \* it has closed its end
    stdin,      \* bytes on their way, TRUE for a newline
    line,       \* length of the transport's line buffer
    reading,    \* a receive is waiting for input
    done,       \* lines delivered as messages
    over        \* the stream is closed

framesVars == <<lines, typed, eof, stdin, line, reading, done, over>>

\* The peer may write a line a little too long.
LongLine == MaxFrame + 2
Lines == [len : 1..LongLine, ok : BOOLEAN]

FramesTypeOK ==
    /\ lines \in Seq(Lines) /\ Len(lines) <= MaxLines
    /\ typed \in 0..LongLine - 1
    /\ stdin \in Seq(BOOLEAN)
    /\ line \in 0..MaxFrame + 1
    /\ done \in 0..Len(lines)
    /\ {eof, reading, over} \subseteq BOOLEAN

FramesInit ==
    /\ lines = <<>> /\ typed = 0 /\ eof = FALSE /\ stdin = <<>>
    /\ line = 0 /\ reading = FALSE /\ done = 0 /\ over = FALSE

-------------------------------------------------------------------------------
(* The peer *)

Type ==
    /\ ~eof /\ typed < LongLine - 1
    /\ Len(stdin) < PipeSize
    /\ typed' = typed + 1 /\ stdin' = Append(stdin, FALSE)
    /\ UNCHANGED <<lines, eof, line, reading, done, over>>

EndLine(ok) ==
    /\ ~eof /\ Len(lines) < MaxLines
    /\ Len(stdin) < PipeSize
    /\ ok => typed > 0
    /\ lines' = Append(lines, [len |-> typed + 1, ok |-> ok])
    /\ typed' = 0 /\ stdin' = Append(stdin, TRUE)
    /\ UNCHANGED <<eof, line, reading, done, over>>

CloseInput ==
    /\ ~eof /\ eof' = TRUE
    /\ UNCHANGED <<lines, typed, stdin, line, reading, done, over>>

-------------------------------------------------------------------------------
(* The transport *)

\* receive is called, and waits unless the stream is closed.
Receive ==
    /\ ~reading /\ ~over
    /\ reading' = TRUE
    /\ UNCHANGED <<lines, typed, eof, stdin, line, done, over>>

\* The service drops the waiting receive; what it has read stays in the buffer.
\* (Variant: the buffer belongs to the call.)
DropReceiveLosing ==
    /\ reading
    /\ reading' = FALSE /\ line' = 0
    /\ UNCHANGED <<lines, typed, eof, stdin, done, over>>
DropReceive ==
    /\ reading
    /\ reading' = FALSE
    /\ UNCHANGED <<lines, typed, eof, stdin, line, done, over>>

\* What this receive may still take into the buffer.
Remaining == MaxFrame + 1 - line

\* A line of n bytes, newline included, is accepted.
Fits(n) == n <= MaxFrame

\* The buffer holds the line that the peer ended as number done + 1.
Parses(n) == lines[done + 1] = [len |-> n, ok |-> TRUE]

\* Some bytes arrive, up to the end of the line or of what may be taken.
Arrive ==
    /\ reading
    /\ \E n \in 1..Min({Len(stdin), Remaining}) :
        /\ \A i \in 1..n - 1 : ~stdin[i]
        /\ stdin' = SubSeq(stdin, n + 1, Len(stdin))
        /\ LET held == line + n
               ended == stdin[n]
               message == ended /\ Fits(held) /\ Parses(held)
               complete == ended \/ n = Remaining
           IN /\ line' = IF ended /\ Fits(held) THEN 0 ELSE held
              /\ reading' = ~complete
              /\ done' = IF message THEN done + 1 ELSE done
              /\ over' = (complete /\ ~message)
    /\ UNCHANGED <<lines, typed, eof>>

\* The input is over: whatever is in the buffer has no newline.
ArriveEnd ==
    /\ reading
    /\ eof /\ stdin = <<>>
    /\ reading' = FALSE /\ over' = TRUE
    /\ UNCHANGED <<lines, typed, eof, stdin, line, done>>

FramesNext ==
    \/ Type \/ CloseInput \/ \E ok \in BOOLEAN : EndLine(ok)
    \/ Receive \/ DropReceive \/ Arrive \/ ArriveEnd

FramesSpec == FramesInit /\ [][FramesNext]_framesVars

-------------------------------------------------------------------------------
(* Correctness *)

\* The line that the transport is reading: ended, or being written.
Current ==
    IF done < Len(lines) THEN lines[done + 1] ELSE [len |-> typed, ok |-> FALSE]

\* No byte is lost or read twice, however often receive is dropped in the middle
\* of a line: the buffer and what is on its way are the current line
\* (docs/quickstart.md:94: partial frames survive task cancellation).
NothingLost ==
    ~over =>
        LET ends == {i \in 1..Len(stdin) : stdin[i]}
        IN line + (IF ends = {} THEN Len(stdin) ELSE Min(ends)) = Current.len

\* What happens to a line is the peer's doing: one that it wrote as a message, of
\* at most MaxFrame bytes, is delivered, in one piece; one that is no message or is
\* too long closes the stream, and so does the end of the input in or after a line.
LinesDecided ==
    [][/\ done' # done => Current.ok /\ Current.len <= MaxFrame
       /\ over' /\ ~over =>
            \/ Current.len > MaxFrame
            \/ done < Len(lines) /\ ~Current.ok
            \/ done = Len(lines) /\ eof]_framesVars

===============================================================================
