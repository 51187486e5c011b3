--------------------------------- MODULE StdioProofs ---------------------------------
(***************************************************************************)
(* The two halves of the stdio transport.                                  *)
(*                                                                         *)
(* Input, for frames of every length, lines of every number and a pipe of  *)
(* every size: no byte is lost or read twice, and what becomes of a line   *)
(* is the doing of the peer that wrote it. The argument follows the ends   *)
(* of lines. Counted from the first byte on its way, the line that is      *)
(* being read began as many bytes earlier as the buffer is long, and each  *)
(* line that is not yet delivered ends as many bytes after the one before  *)
(* as the peer typed. That layout of the stream is what the steps          *)
(* preserve; that nothing is lost is one look at it.                       *)
(*                                                                         *)
(* Output, for any ids, jobs, sizes and times: answers are bounded by what *)
(* may be pending, and their pieces are mixed on stdout only after a write *)
(* was given up. What carries the second is the mutex. An answer partly    *)
(* written is the holder's, so its last piece is the last one on stdout;   *)
(* and a job that gives up leaves its id pending, so that nobody takes     *)
(* that id again. So a line of stdout that is no whole answer has a piece  *)
(* in it of one that was given up, and without that there is none.         *)
(***************************************************************************)
EXTENDS StdioFrames, StdioTransport, FiniteSetTheorems, TLAPS

-------------------------------------------------------------------------------
(* Input: the layout of the stream *)

\* Where line k ends, for those that are not delivered; end[done] is where the
\* line that is being read begins.
Undelivered == done + 1..Len(lines)
Spaced(end) == \A k \in Undelivered : end[k] = end[k - 1] + lines[k].len
Newlines(end) == \A k \in Undelivered : end[k] \in 1..Len(stdin) /\ stdin[end[k]]
Rising(end) == \A j, k \in done..Len(lines) : j < k => end[j] < end[k]
NoOthers(end) == \A i \in 1..Len(stdin) : stdin[i] => \E k \in Undelivered : end[k] = i
Layout(end) ==
    /\ \A k \in 0..Len(lines) : end[k] \in Int
    /\ end[done] = -line
    /\ Len(stdin) = end[Len(lines)] + typed
    /\ Spaced(end) /\ Newlines(end) /\ Rising(end) /\ NoOthers(end)

StreamInv ==
    /\ FramesTypeOK
    /\ reading => ~over
    /\ ~over => \E end : Layout(end)

-------------------------------------------------------------------------------
(* What the layout says of the next bytes *)

\* The least of two numbers.
LEMMA MinOfTwo ==
    ASSUME NEW a \in Int, NEW b \in Int
    PROVE  Min({a, b}) \in {a, b} /\ Min({a, b}) <= a /\ Min({a, b}) <= b
<1> DEFINE least(x) == x \in {a, b} /\ \A y \in {a, b} : x <= y
<1>1. \E x : least(x)
  <2>1. CASE a <= b
    BY <2>1
  <2>2. CASE b <= a
    BY <2>2
  <2> QED BY <2>1, <2>2
<1>2. Min({a, b}) = CHOOSE x \in {a, b} : \A y \in {a, b} : x <= y
  BY DEF Min
<1> QED BY <1>1, <1>2

\* Lines are as long as the peer may type, and so is the one that is being read.
LEMMA LinesTyped ==
    ASSUME FramesTypeOK
    PROVE  /\ \A k \in 1..Len(lines) :
                /\ lines[k].len \in Nat /\ lines[k].len > 0 /\ lines[k].ok \in BOOLEAN
                /\ lines[k] = [len |-> lines[k].len, ok |-> lines[k].ok]
           /\ typed \in Nat /\ line \in Nat /\ done \in Nat /\ done <= Len(lines)
           /\ Len(lines) \in Nat /\ Len(stdin) \in Nat
           /\ Current.len \in Nat
<1>1. LongLine \in Nat
  BY FramePositive DEF LongLine
<1>2. ASSUME NEW k \in 1..Len(lines)
      PROVE  /\ lines[k].len \in Nat /\ lines[k].len > 0 /\ lines[k].ok \in BOOLEAN
             /\ lines[k] = [len |-> lines[k].len, ok |-> lines[k].ok]
  <2>1. lines[k] \in Lines
    BY DEF FramesTypeOK
  <2> QED BY <1>1, <2>1 DEF Lines
<1>3. /\ typed \in Nat /\ line \in Nat /\ done \in Nat /\ done <= Len(lines)
      /\ Len(lines) \in Nat /\ Len(stdin) \in Nat
  BY <1>1, FramePositive DEF FramesTypeOK
<1>4. Current.len \in Nat
  <2>1. CASE done < Len(lines)
    <3>1. done + 1 \in 1..Len(lines)
      BY <1>3, <2>1
    <3> QED BY <1>2, <2>1, <3>1 DEF Current
  <2>2. CASE ~(done < Len(lines))
    BY <1>3, <2>2 DEF Current
  <2> QED BY <2>1, <2>2
<1> QED BY <1>2, <1>3, <1>4

\* A newline that nothing precedes ends the line that is being read.
LEMMA NextNewline ==
    ASSUME FramesTypeOK, NEW end, Layout(end),
           NEW n \in 1..Len(stdin), \A i \in 1..n - 1 : ~stdin[i], stdin[n]
    PROVE  /\ done < Len(lines) /\ end[done + 1] = n
           /\ Current = lines[done + 1] /\ Current.len = line + n
<1>1. PICK k \in Undelivered : end[k] = n
  BY DEF Layout, NoOthers
<1>2. /\ done \in Nat /\ Len(lines) \in Nat /\ k \in Int /\ done + 1 <= k /\ k <= Len(lines)
      /\ line \in Nat
  BY DEF FramesTypeOK, Undelivered
<1>3. done + 1 \in Undelivered /\ done + 1 \in done..Len(lines) /\ k \in done..Len(lines)
  BY <1>2 DEF Undelivered
<1>4. end[done + 1] \in 1..Len(stdin) /\ stdin[end[done + 1]]
  BY <1>3 DEF Layout, Newlines
<1>5. ~(end[done + 1] < n)
  BY <1>4
<1>6. done + 1 = k
  <2>1. done + 1 < k => end[done + 1] < end[k]
    BY <1>3 DEF Layout, Rising
  <2> QED BY <1>1, <1>2, <1>5, <2>1
<1>7. end[done + 1] = end[done] + lines[done + 1].len
  <2>1. Spaced(end)
    BY DEF Layout
  <2> QED BY <1>2, <1>3, <2>1 DEF Spaced
<1>8. end[done] = -line
  BY DEF Layout
<1>9. lines[done + 1].len \in Nat
  <2>1. done + 1 \in 1..Len(lines)
    BY <1>2
  <2> QED BY <2>1, LinesTyped
<1>10. Current = lines[done + 1]
  BY <1>2 DEF Current
<1>11. lines[done + 1].len = line + n
  BY <1>1, <1>2, <1>6, <1>7, <1>8, <1>9
<1> QED BY <1>1, <1>2, <1>6, <1>10, <1>11

\* Without a newline among the next bytes, the line goes on after them.
LEMMA NoNewline ==
    ASSUME FramesTypeOK, NEW end, Layout(end),
           NEW n \in 0..Len(stdin), \A i \in 1..n : ~stdin[i]
    PROVE  /\ Current.len >= line + n
           /\ \A k \in Undelivered : end[k] > n
           /\ done < Len(lines) => Current.len > line + n
<1>1. /\ lines \in Seq(Lines) /\ done \in Nat /\ Len(lines) \in Nat /\ done <= Len(lines)
      /\ line \in Nat /\ typed \in Nat
  BY DEF FramesTypeOK, LongLine
<1>2. \A k \in Undelivered : end[k] \in Int /\ end[k] > n
  <2>1. SUFFICES ASSUME NEW k \in Undelivered PROVE end[k] \in Int /\ end[k] > n
    OBVIOUS
  <2>2. end[k] \in 1..Len(stdin) /\ stdin[end[k]]
    BY DEF Layout, Newlines
  <2> QED BY <2>2
<1>3. CASE done < Len(lines)
  <2>1. done + 1 \in Undelivered
    BY <1>1, <1>3 DEF Undelivered
  <2>2. end[done + 1] = end[done] + lines[done + 1].len /\ end[done] = -line
    BY <1>1, <2>1 DEF Layout, Spaced
  <2>3. Current = lines[done + 1] /\ lines[done + 1].len \in Nat
    BY <1>1, <1>3, LinesTyped DEF Current
  <2>4. end[done + 1] \in Int /\ end[done + 1] > n
    BY <1>2, <2>1
  <2> QED BY <1>1, <1>2, <2>2, <2>3, <2>4
<1>4. CASE done = Len(lines)
  <2>1. Len(stdin) = -line + typed /\ Current.len = typed
    BY <1>1, <1>4 DEF Layout, Current
  <2> QED BY <1>1, <1>2, <1>4, <2>1
<1>5. done < Len(lines) \/ done = Len(lines)
  BY <1>1
<1> QED BY <1>3, <1>4, <1>5

\* What NothingLost says is one look at the layout.
LEMMA LayoutLosesNothing ==
    ASSUME FramesTypeOK, NEW end, Layout(end)
    PROVE  NothingLost
<1> DEFINE ends == {i \in 1..Len(stdin) : stdin[i]}
<1>1. Len(stdin) \in Nat /\ line \in Nat
  BY DEF FramesTypeOK
<1>2. CASE ends = {}
  <2>1. \A i \in 1..Len(stdin) : ~stdin[i]
    BY <1>2
  <2>2. done + 1 \notin Undelivered
    BY <2>1 DEF Layout, Newlines
  <2>3. done = Len(lines)
    <3>1. /\ done \in Nat /\ Len(lines) \in Nat /\ done <= Len(lines)
          /\ lines \in Seq(Lines)
      BY LinesTyped DEF FramesTypeOK
    <3>2. done + 1 <= Len(lines) => done + 1 \in done + 1..Len(lines)
      BY <3>1
    <3>3. ~(done + 1 <= Len(lines))
      BY <2>2, <3>2 DEF Undelivered
    <3> QED BY <3>1, <3>3
  <2>4. Len(stdin) = -line + typed /\ Current.len = typed
    BY <2>3 DEF Layout, Current, FramesTypeOK
  <2>5. typed \in Nat
    BY DEF FramesTypeOK, LongLine
  <2> QED BY <1>1, <1>2, <2>4, <2>5 DEF NothingLost
<1>3. CASE ends # {}
  <2>1. PICK j \in ends : TRUE
    BY <1>3
  <2>2. PICK k \in Undelivered : end[k] = j
    BY <2>1 DEF Layout, NoOthers
  <2>3. /\ done \in Nat /\ Len(lines) \in Nat /\ k \in Int
        /\ done + 1 <= k /\ k <= Len(lines)
    BY <2>2 DEF FramesTypeOK, Undelivered
  <2>4. done + 1 \in Undelivered
    BY <2>3 DEF Undelivered
  <2>5. end[done + 1] \in ends
    BY <2>4 DEF Layout, Newlines
  <2>6. \A i \in ends : end[done + 1] <= i
    <3>1. SUFFICES ASSUME NEW i \in ends PROVE end[done + 1] <= i
      OBVIOUS
    <3>2. PICK m \in Undelivered : end[m] = i
      BY <3>1 DEF Layout, NoOthers
    <3>3. done + 1 \in done..Len(lines) /\ m \in done..Len(lines) /\ done + 1 <= m /\ m \in Int
      BY <2>3, <3>2 DEF Undelivered
    <3>4. end[done + 1] < end[m] \/ done + 1 = m
      BY <3>3, <2>3 DEF Layout, Rising
    <3> QED BY <3>2, <3>4, <2>5
  <2>7. Min(ends) = end[done + 1]
    <3>1. Min(ends) = CHOOSE x \in ends : \A y \in ends : x <= y
      BY DEF Min
    <3>2. Min(ends) \in ends /\ \A y \in ends : Min(ends) <= y
      BY <2>5, <2>6, <3>1
    <3> QED BY <2>5, <2>6, <3>2
  <2>8. \A i \in 1..end[done + 1] - 1 : ~stdin[i]
    BY <2>5, <2>6
  <2>9. Current.len = line + end[done + 1]
    BY <2>5, <2>8, NextNewline
  <2> QED BY <1>3, <2>7, <2>9 DEF NothingLost
<1> QED BY <1>2, <1>3

-------------------------------------------------------------------------------
(* The steps *)

LEMMA TypeKeeps ==
    ASSUME StreamInv, Type
    PROVE  StreamInv'
<1>1. /\ typed' = typed + 1 /\ stdin' = Append(stdin, FALSE)
      /\ UNCHANGED <<lines, eof, line, reading, done, over>>
  BY DEF Type
<1>2. FramesTypeOK /\ stdin \in Seq(BOOLEAN) /\ typed \in Nat /\ typed < LongLine - 1
  BY FramePositive DEF StreamInv, FramesTypeOK, Type, LongLine
<1>3. FramesTypeOK'
  BY <1>1, <1>2, FramePositive DEF FramesTypeOK, LongLine
<1>4. ASSUME ~over PROVE \E end : Layout(end)'
  <2>1. PICK end : Layout(end)
    BY <1>4 DEF StreamInv
  <2>2. /\ Len(stdin') = Len(stdin) + 1 /\ Len(stdin) \in Nat
        /\ \A i \in 1..Len(stdin) : stdin'[i] = stdin[i]
        /\ stdin'[Len(stdin) + 1] = FALSE
    BY <1>1, <1>2
  <2>3. Undelivered' = Undelivered
    BY <1>1 DEF Undelivered
  <2>4. end[Len(lines)] \in Int
    BY <2>1, <1>2 DEF Layout, FramesTypeOK
  <2>5. Layout(end)'
    <3>1. ASSUME NEW k \in Undelivered PROVE end[k] \in 1..Len(stdin') /\ stdin'[end[k]]
      <4>1. end[k] \in 1..Len(stdin) /\ stdin[end[k]]
        BY <2>1 DEF Layout, Newlines
      <4>2. end[k] \in 1..Len(stdin')
        BY <2>2, <4>1
      <4>3. stdin'[end[k]] = stdin[end[k]]
        BY <2>2, <4>1
      <4> QED BY <4>1, <4>2, <4>3
    <3>2. \A i \in 1..Len(stdin') : stdin'[i] => \E k \in Undelivered : end[k] = i
      <4>1. SUFFICES ASSUME NEW i \in 1..Len(stdin'), stdin'[i]
                     PROVE  \E k \in Undelivered : end[k] = i
        OBVIOUS
      <4>2. i \in 1..Len(stdin) /\ stdin[i]
        BY <2>2, <4>1
      <4> QED BY <2>1, <4>2 DEF Layout, NoOthers
    <3>3. Len(stdin') = end[Len(lines)] + typed'
      BY <1>1, <1>2, <2>1, <2>2, <2>4 DEF Layout, Spaced
    <3>4. Newlines(end)' /\ NoOthers(end)'
      BY <2>3, <3>1, <3>2 DEF Newlines, NoOthers
    <3>5. Spaced(end)' /\ Rising(end)'
      BY <1>1, <2>1, <2>3 DEF Layout, Spaced, Rising
    <3> QED BY <1>1, <2>1, <3>3, <3>4, <3>5 DEF Layout
  <2> QED BY <2>5
<1> QED BY <1>1, <1>3, <1>4 DEF StreamInv

LEMMA EndLineKeeps ==
    ASSUME StreamInv, NEW ok \in BOOLEAN, EndLine(ok)
    PROVE  StreamInv'
<1> DEFINE last == Len(lines) + 1
<1>1. /\ lines' = Append(lines, [len |-> typed + 1, ok |-> ok])
      /\ typed' = 0 /\ stdin' = Append(stdin, TRUE)
      /\ UNCHANGED <<eof, line, reading, done, over>>
      /\ Len(lines) < MaxLines
  BY DEF EndLine
<1>2. FramesTypeOK /\ stdin \in Seq(BOOLEAN) /\ typed \in Nat /\ lines \in Seq(Lines)
      /\ typed <= LongLine - 1 /\ done \in 0..Len(lines)
  BY FramePositive DEF StreamInv, FramesTypeOK, LongLine
<1>3. [len |-> typed + 1, ok |-> ok] \in Lines
  BY <1>2, FramePositive DEF Lines, LongLine
<1>4. /\ lines' \in Seq(Lines) /\ Len(lines') = last /\ Len(lines) \in Nat
      /\ \A k \in 1..Len(lines) : lines'[k] = lines[k]
      /\ lines'[last] = [len |-> typed + 1, ok |-> ok]
  BY <1>1, <1>2, <1>3
<1>5. FramesTypeOK'
  <2>1. Len(lines') <= MaxLines
    BY <1>1, <1>2, <1>4, LimitsNatural DEF FramesTypeOK
  <2>2. stdin' \in Seq(BOOLEAN) /\ typed' \in 0..LongLine - 1
    BY <1>1, <1>2, FramePositive DEF LongLine
  <2> QED BY <1>1, <1>2, <1>4, <2>1, <2>2 DEF FramesTypeOK
<1>6. ASSUME ~over PROVE \E end : Layout(end)'
  <2>1. PICK end : Layout(end)
    BY <1>6 DEF StreamInv
  <2>2. /\ Len(stdin') = Len(stdin) + 1 /\ Len(stdin) \in Nat
        /\ \A i \in 1..Len(stdin) : stdin'[i] = stdin[i]
        /\ stdin'[Len(stdin) + 1] = TRUE
    BY <1>1, <1>2
  <2> DEFINE longer == [k \in 0..last |-> IF k = last THEN Len(stdin) + 1 ELSE end[k]]
  <2>15. PICK e : e = longer
    OBVIOUS
  <2>3. /\ \A k \in 0..last : e[k] \in Int
        /\ e[last] = Len(stdin) + 1
        /\ \A k \in 0..Len(lines) : e[k] = end[k] /\ end[k] \in Int
    <3>1. \A k \in 0..Len(lines) : end[k] \in Int
      BY <2>1 DEF Layout
    <3>2. \A k \in 0..Len(lines) : end[k] \in Int /\ k \in 0..last /\ k # last
      BY <1>4, <3>1
    <3>3. \A k \in 0..last : k # last => k \in 0..Len(lines)
      BY <1>4
    <3>4. last \in 0..last /\ Len(stdin) + 1 \in Int
      BY <1>4, <2>2
    <3> HIDE DEF last
    <3> QED BY <2>15, <3>2, <3>3, <3>4
  <2>4. Undelivered' = Undelivered \cup {last} /\ Undelivered \subseteq 1..Len(lines)
    BY <1>1, <1>2, <1>4 DEF Undelivered
  <2> HIDE DEF longer
  <2>5. e[done] = -line
    BY <1>2, <2>1, <2>3 DEF Layout
  <2>6. \A k \in done..Len(lines) : end[k] <= end[Len(lines)]
    <3>1. SUFFICES ASSUME NEW k \in done..Len(lines) PROVE end[k] <= end[Len(lines)]
      OBVIOUS
    <3>2. /\ Len(lines) \in done..Len(lines) /\ k <= Len(lines) /\ k \in 0..Len(lines)
          /\ Len(lines) \in 0..Len(lines)
      BY <1>2, <1>4
    <3>3. k < Len(lines) => end[k] < end[Len(lines)]
      BY <2>1, <3>2 DEF Layout, Rising
    <3> QED BY <1>4, <2>3, <3>2, <3>3
  <2>7. Len(stdin) = end[Len(lines)] + typed
    BY <2>1 DEF Layout
  <2>8. ASSUME NEW k \in Undelivered'
        PROVE  /\ e[k] = e[k - 1] + lines'[k].len
               /\ e[k] \in 1..Len(stdin') /\ stdin'[e[k]]
    <3>1. CASE k = last
      <4>1. e[k - 1] = end[Len(lines)] /\ lines'[k].len = typed + 1
        BY <1>4, <2>3, <3>1
      <4>2. end[Len(lines)] \in Int
        BY <1>4, <2>3
      <4> QED BY <1>2, <2>2, <2>3, <2>7, <3>1, <4>1, <4>2
    <3>2. CASE k \in Undelivered
      <4>1. k \in 1..Len(lines) /\ k \in 0..Len(lines) /\ k - 1 \in 0..Len(lines)
        BY <1>4, <2>4, <3>2
      <4>2. e[k] = end[k] /\ e[k - 1] = end[k - 1] /\ lines'[k] = lines[k]
        BY <1>4, <2>3, <4>1
      <4>3. end[k] = end[k - 1] + lines[k].len /\ end[k] \in 1..Len(stdin) /\ stdin[end[k]]
        BY <2>1, <3>2 DEF Layout, Spaced, Newlines
      <4> QED BY <2>2, <4>2, <4>3
    <3> QED BY <2>4, <2>8, <3>1, <3>2
  <2>9. ASSUME NEW j \in done..last, NEW k \in done..last, j < k
        PROVE  e[j] < e[k]
    <3>1. j \in done..Len(lines) /\ j \in 0..Len(lines)
      BY <1>2, <1>4, <2>9
    <3>2. CASE k = last
      <4>1. e[j] = end[j] /\ end[j] \in Int /\ end[j] <= end[Len(lines)]
        BY <2>3, <2>6, <3>1
      <4>2. end[Len(lines)] \in Int
        BY <1>4, <2>3
      <4> QED BY <1>2, <2>2, <2>3, <2>7, <3>2, <4>1, <4>2
    <3>3. CASE k # last
      <4>1. k \in done..Len(lines) /\ k \in 0..Len(lines)
        BY <1>2, <1>4, <2>9, <3>3
      <4>2. end[j] < end[k]
        BY <2>1, <2>9, <3>1, <4>1 DEF Layout, Rising
      <4> QED BY <2>3, <3>1, <4>1, <4>2
    <3> QED BY <3>2, <3>3
  <2>10. ASSUME NEW i \in 1..Len(stdin'), stdin'[i]
         PROVE  \E k \in Undelivered' : e[k] = i
    <3>1. CASE i = Len(stdin) + 1
      BY <2>3, <2>4, <3>1
    <3>2. CASE i \in 1..Len(stdin)
      <4>1. PICK k \in Undelivered : end[k] = i
        BY <2>1, <2>2, <2>10, <3>2 DEF Layout, NoOthers
      <4>2. k \in 0..Len(lines)
        BY <1>4, <2>4, <4>1
      <4> QED BY <2>3, <2>4, <4>1, <4>2
    <3> QED BY <2>2, <2>10, <3>1, <3>2
  <2>11. Len(stdin') = e[last] + typed'
    BY <1>1, <2>2, <2>3
  <2>12. /\ Spaced(e)' /\ Newlines(e)' /\ NoOthers(e)'
    <3>1. Spaced(e)'
      BY <2>8 DEF Spaced
    <3>2. Newlines(e)'
      BY <2>8 DEF Newlines
    <3>3. NoOthers(e)'
      BY <2>10 DEF NoOthers
    <3> QED BY <3>1, <3>2, <3>3
  <2>13. Rising(e)'
    <3>1. done'..Len(lines') = done..last
      BY <1>1, <1>4
    <3> QED BY <2>9, <3>1 DEF Rising
  <2>14. Layout(e)'
    BY <1>1, <1>4, <2>3, <2>5, <2>11, <2>12, <2>13 DEF Layout
  <2> QED BY <2>14
<1> QED BY <1>1, <1>5, <1>6 DEF StreamInv

\* One receipt of bytes, taken apart.
LEMMA ArriveCases ==
    ASSUME StreamInv, Arrive
    PROVE  /\ ~over /\ UNCHANGED <<lines, typed, eof>>
           /\ \E n \in 1..Len(stdin) :
                /\ n <= Remaining /\ \A i \in 1..n - 1 : ~stdin[i]
                /\ stdin' = SubSeq(stdin, n + 1, Len(stdin))
                /\ \/ /\ stdin[n] /\ Fits(line + n) /\ Parses(line + n)
                      /\ line' = 0 /\ ~reading' /\ done' = done + 1 /\ ~over'
                   \/ /\ stdin[n] /\ Fits(line + n) /\ ~Parses(line + n)
                      /\ line' = 0 /\ ~reading' /\ done' = done /\ over'
                   \/ /\ stdin[n] /\ ~Fits(line + n)
                      /\ line' = line + n /\ ~reading' /\ done' = done /\ over'
                   \/ /\ ~stdin[n] /\ n = Remaining
                      /\ line' = line + n /\ ~reading' /\ done' = done /\ over'
                   \/ /\ ~stdin[n] /\ n < Remaining
                      /\ line' = line + n /\ reading' /\ done' = done /\ ~over'
                /\ reading' \in BOOLEAN /\ over' \in BOOLEAN
<1>1. Len(stdin) \in Int /\ Remaining \in Int
  BY FramePositive DEF StreamInv, FramesTypeOK, Remaining
<1>2. PICK n \in 1..Min({Len(stdin), Remaining}) :
        /\ \A i \in 1..n - 1 : ~stdin[i]
        /\ stdin' = SubSeq(stdin, n + 1, Len(stdin))
        /\ LET held == line + n
               ended == stdin[n]
               message == ended /\ Fits(held) /\ Parses(held)
               complete == ended \/ n = Remaining
           IN /\ line' = IF ended /\ Fits(held) THEN 0 ELSE held
              /\ reading' = ~complete
              /\ done' = IF message THEN done + 1 ELSE done
              /\ over' = (complete /\ ~message)
  BY DEF Arrive
<1>3. n \in 1..Len(stdin) /\ n <= Remaining /\ n \in Int
  <2>1. /\ Min({Len(stdin), Remaining}) \in Int
        /\ Min({Len(stdin), Remaining}) <= Len(stdin) /\ Min({Len(stdin), Remaining}) <= Remaining
    BY <1>1, MinOfTwo
  <2> QED BY <1>1, <2>1
<1>4. ~over /\ UNCHANGED <<lines, typed, eof>>
  BY DEF StreamInv, Arrive
<1>5. n = Remaining \/ n < Remaining
  BY <1>1, <1>3
<1>6. reading' \in BOOLEAN /\ over' \in BOOLEAN
  BY <1>2
<1> DEFINE held == line + n
           message == stdin[n] /\ Fits(held) /\ Parses(held)
           complete == stdin[n] \/ n = Remaining
<1>7. /\ line' = IF stdin[n] /\ Fits(held) THEN 0 ELSE held
      /\ reading' = ~complete
      /\ done' = IF message THEN done + 1 ELSE done
      /\ over' = (complete /\ ~message)
  BY <1>2
<1>8. CASE stdin[n] /\ Fits(held) /\ Parses(held)
  <2>1. line' = 0 /\ ~reading' /\ done' = done + 1 /\ ~over'
    BY <1>7, <1>8
  <2> QED BY <1>2, <1>3, <1>4, <1>6, <1>8, <2>1
<1>9. CASE stdin[n] /\ Fits(held) /\ ~Parses(held)
  <2>1. line' = 0 /\ ~reading' /\ done' = done /\ over'
    BY <1>7, <1>9
  <2> QED BY <1>2, <1>3, <1>4, <1>6, <1>9, <2>1
<1>10. CASE stdin[n] /\ ~Fits(held)
  <2>1. line' = held /\ ~reading' /\ done' = done /\ over'
    BY <1>7, <1>10
  <2> QED BY <1>2, <1>3, <1>4, <1>6, <1>10, <2>1
<1>11. CASE ~stdin[n] /\ n = Remaining
  <2>1. line' = held /\ ~reading' /\ done' = done /\ over'
    BY <1>7, <1>11
  <2> QED BY <1>2, <1>3, <1>4, <1>6, <1>11, <2>1
<1>12. CASE ~stdin[n] /\ n < Remaining
  <2>1. n # Remaining
    BY <1>1, <1>3, <1>12
  <2>2. line' = held /\ reading' /\ done' = done /\ ~over'
    BY <1>7, <1>12, <2>1
  <2> QED BY <1>2, <1>3, <1>4, <1>6, <1>12, <2>2
<1> QED BY <1>5, <1>8, <1>9, <1>10, <1>11, <1>12

\* The stream without its first n bytes: every end moves n places.
LEMMA Shifted ==
    ASSUME StreamInv, NEW end, Layout(end), NEW n \in 1..Len(stdin),
           stdin' = SubSeq(stdin, n + 1, Len(stdin)),
           UNCHANGED <<lines, typed>>, done' \in done..Len(lines),
           -line' = end[done'] - n,
           \A k \in Undelivered' : end[k] > n,
           \A i \in n + 1..Len(stdin) : stdin[i] => \E k \in Undelivered' : end[k] = i
    PROVE  \E e : Layout(e)'
<1> DEFINE moved == [k \in 0..Len(lines) |-> end[k] - n]
<1>13. PICK e : e = moved
  OBVIOUS
<1>1. /\ Len(stdin) \in Nat /\ Len(lines) \in Nat /\ done \in Nat /\ n \in Nat
      /\ stdin \in Seq(BOOLEAN) /\ typed \in Nat /\ lines \in Seq(Lines)
  BY FramePositive DEF StreamInv, FramesTypeOK, LongLine
<1>2. /\ \A k \in 0..Len(lines) : e[k] \in Int
      /\ \A k \in 0..Len(lines) : e[k] = end[k] - n /\ end[k] \in Int
  <2>1. \A k \in 0..Len(lines) : end[k] \in Int
    BY DEF Layout
  <2>2. \A k \in 0..Len(lines) : end[k] \in Int /\ end[k] - n \in Int
    BY <1>1, <2>1
  <2> QED BY <1>13, <2>2
<1>3. /\ Len(stdin') = Len(stdin) - n
      /\ \A i \in 1..Len(stdin') : stdin'[i] = stdin[i + n]
  BY <1>1
<1>4. Undelivered' \subseteq Undelivered /\ done' \in Nat /\ done' \in 0..Len(lines)
  BY <1>1 DEF Undelivered
<1>5. \A k \in Undelivered' :
        k \in 1..Len(lines) /\ k \in 0..Len(lines) /\ k - 1 \in 0..Len(lines)
  <2>1. Undelivered' = done' + 1..Len(lines)
    BY DEF Undelivered
  <2>2. done' \in Nat /\ Len(lines) \in Nat
    BY <1>1, <1>4
  <2>3. \A d, l \in Nat : \A k \in d + 1..l : k \in 1..l /\ k \in 0..l /\ k - 1 \in 0..l
    OBVIOUS
  <2> QED BY <2>1, <2>2, <2>3
<1> HIDE DEF moved
<1>6. e[done'] = -line'
  BY <1>2, <1>4
<1>7. Len(stdin') = e[Len(lines)] + typed'
  <2>1. Len(stdin) = end[Len(lines)] + typed
    BY DEF Layout
  <2>2. e[Len(lines)] = end[Len(lines)] - n /\ end[Len(lines)] \in Int
    BY <1>1, <1>2
  <2> QED BY <1>1, <1>3, <2>1, <2>2
<1>8. ASSUME NEW k \in Undelivered'
      PROVE  /\ e[k] = e[k - 1] + lines[k].len
             /\ e[k] \in 1..Len(stdin') /\ stdin'[e[k]]
  <2>1. /\ end[k] = end[k - 1] + lines[k].len /\ end[k] \in 1..Len(stdin) /\ stdin[end[k]]
        /\ end[k] > n
    BY <1>4 DEF Layout, Spaced, Newlines
  <2>2. e[k] = end[k] - n /\ e[k - 1] = end[k - 1] - n /\ end[k] \in Int /\ end[k - 1] \in Int
    BY <1>2, <1>5
  <2>3. lines[k].len \in Int
    <3>1. k \in 1..Len(lines) /\ FramesTypeOK
      BY <1>5 DEF StreamInv
    <3>2. lines[k].len \in Nat
      BY <3>1, LinesTyped
    <3> QED BY <3>2
  <2>4. e[k] \in 1..Len(stdin')
    <3>1. end[k] \in Nat /\ end[k] <= Len(stdin) /\ end[k] > n
      BY <1>1, <2>1
    <3>2. Len(stdin') = Len(stdin) - n /\ Len(stdin) \in Nat /\ n \in Nat
      BY <1>1, <1>3
    <3>3. e[k] = end[k] - n
      BY <2>2
    <3> QED BY <3>1, <3>2, <3>3
  <2>5. stdin'[e[k]] = stdin[end[k]]
    <3>1. e[k] + n = end[k]
      BY <1>1, <2>2
    <3> QED BY <1>3, <2>4, <3>1
  <2>6. e[k] = e[k - 1] + lines[k].len
    BY <1>1, <2>1, <2>2, <2>3
  <2>7. stdin'[e[k]]
    BY <2>1, <2>5
  <2> QED BY <2>4, <2>6, <2>7
<1>9. \A j, k \in done'..Len(lines) : j < k => e[j] < e[k]
  <2>1. done'..Len(lines) \subseteq done..Len(lines) /\ done'..Len(lines) \subseteq 0..Len(lines)
    BY <1>1, <1>4
  <2>2. Rising(end)
    BY DEF Layout
  <2>3. SUFFICES ASSUME NEW j \in done'..Len(lines), NEW k \in done'..Len(lines), j < k
                 PROVE  e[j] < e[k]
    OBVIOUS
  <2>4. end[j] < end[k]
    BY <2>1, <2>2, <2>3 DEF Rising
  <2>5. /\ e[j] = end[j] - n /\ e[k] = end[k] - n
        /\ end[j] \in Int /\ end[k] \in Int
    BY <1>2, <2>1
  <2> QED BY <1>1, <2>4, <2>5
<1>10. ASSUME NEW i \in 1..Len(stdin'), stdin'[i]
       PROVE  \E k \in Undelivered' : e[k] = i
  <2>1. i + n \in n + 1..Len(stdin) /\ stdin[i + n]
    <3>1. stdin'[i] = stdin[i + n]
      BY <1>3
    <3>2. i + n \in n + 1..Len(stdin)
      BY <1>1, <1>3
    <3> QED BY <1>10, <3>1, <3>2
  <2>2. PICK k \in Undelivered' : end[k] = i + n
    BY <2>1
  <2>3. e[k] = i
    BY <1>1, <1>2, <1>5, <2>2
  <2> QED BY <2>3
<1>11. /\ Spaced(e)' /\ Newlines(e)' /\ Rising(e)' /\ NoOthers(e)'
  BY <1>8, <1>9, <1>10 DEF Spaced, Newlines, Rising, NoOthers
<1>12. Layout(e)'
  BY <1>2, <1>6, <1>7, <1>11 DEF Layout
<1> QED BY <1>12

LEMMA ArriveKeeps ==
    ASSUME StreamInv, Arrive
    PROVE  StreamInv'
<1>1. ~over /\ UNCHANGED <<lines, typed, eof>>
  BY ArriveCases
<1>2. PICK n \in 1..Len(stdin) :
        /\ n <= Remaining /\ \A i \in 1..n - 1 : ~stdin[i]
        /\ stdin' = SubSeq(stdin, n + 1, Len(stdin))
        /\ \/ stdin[n] /\ line' = 0 /\ ~reading' /\ done' = done + 1 /\ ~over'
           \/ /\ line' \in {0, line + n} /\ ~reading' /\ done' = done /\ over'
           \/ ~stdin[n] /\ line' = line + n /\ reading' /\ done' = done /\ ~over'
        /\ reading' \in BOOLEAN /\ over' \in BOOLEAN
  BY ArriveCases
<1>3. /\ FramesTypeOK /\ stdin \in Seq(BOOLEAN) /\ line \in Nat /\ n \in Nat
      /\ done \in 0..Len(lines) /\ Len(lines) \in Nat
  BY DEF StreamInv, FramesTypeOK
<1>4. PICK end : Layout(end)
  BY <1>1 DEF StreamInv
<1>5. stdin[n] => /\ done < Len(lines) /\ end[done + 1] = n /\ Current.len = line + n
  BY <1>2, <1>3, <1>4, NextNewline
<1>6. ~stdin[n] => \A k \in Undelivered : end[k] > n
  <2>1. ASSUME ~stdin[n] PROVE \A i \in 1..n : ~stdin[i]
    BY <1>2, <1>3, <2>1
  <2> QED BY <1>3, <1>4, <2>1, NoNewline
<1>7. FramesTypeOK'
  <2>1. line' \in 0..MaxFrame + 1
    BY <1>2, <1>3, FramePositive DEF Remaining
  <2>2. done' \in 0..Len(lines)
    BY <1>2, <1>3, <1>5
  <2>3. stdin' \in Seq(BOOLEAN)
    BY <1>2, <1>3
  <2> QED BY <1>1, <1>2, <1>3, <2>1, <2>2, <2>3 DEF FramesTypeOK
<1>8. ASSUME ~over' PROVE \E e : Layout(e)'
  <2>1. CASE stdin[n] /\ line' = 0 /\ done' = done + 1
    <3>1. Undelivered' = Undelivered \ {done + 1} /\ done + 1 \in done..Len(lines)
      BY <1>1, <1>3, <1>5, <2>1 DEF Undelivered
    <3>2. \A k \in Undelivered' : end[k] > n
      <4>1. SUFFICES ASSUME NEW k \in Undelivered' PROVE end[k] > n
        OBVIOUS
      <4>2. k \in done..Len(lines) /\ done + 1 < k
        BY <1>1, <1>3, <2>1 DEF Undelivered
      <4>3. end[done + 1] < end[k]
        BY <1>4, <3>1, <4>2 DEF Layout, Rising
      <4> QED BY <1>3, <1>5, <2>1, <4>3
    <3>3. \A i \in n + 1..Len(stdin) : stdin[i] => \E k \in Undelivered' : end[k] = i
      <4>1. SUFFICES ASSUME NEW i \in n + 1..Len(stdin), stdin[i]
                     PROVE  \E k \in Undelivered' : end[k] = i
        OBVIOUS
      <4>2. i \in 1..Len(stdin) /\ i # n
        BY <1>3
      <4>3. PICK k \in Undelivered : end[k] = i
        BY <1>4, <4>1, <4>2 DEF Layout, NoOthers
      <4> QED BY <1>5, <2>1, <3>1, <4>2, <4>3
    <3>4. -line' = end[done'] - n
      BY <1>3, <1>5, <2>1
    <3> QED BY <1>1, <1>2, <1>4, <2>1, <3>1, <3>2, <3>3, <3>4, Shifted
  <2>2. CASE ~stdin[n] /\ line' = line + n /\ done' = done
    <3>1. Undelivered' = Undelivered
      BY <1>1, <2>2 DEF Undelivered
    <3>2. \A k \in Undelivered' : end[k] > n
      BY <1>6, <2>2, <3>1
    <3>3. \A i \in n + 1..Len(stdin) : stdin[i] => \E k \in Undelivered' : end[k] = i
      BY <1>3, <1>4, <3>1 DEF Layout, NoOthers
    <3>4. -line' = end[done'] - n
      BY <1>3, <1>4, <2>2 DEF Layout
    <3>5. done' \in done..Len(lines)
      BY <1>3, <2>2
    <3> QED BY <1>1, <1>2, <1>4, <3>2, <3>3, <3>4, <3>5, Shifted
  <2> QED BY <1>2, <1>8, <2>1, <2>2
<1> QED BY <1>2, <1>7, <1>8 DEF StreamInv

-------------------------------------------------------------------------------
(* The theorems *)

LEMMA StreamInitially ==
    ASSUME FramesInit
    PROVE  StreamInv
<1>1. FramesTypeOK
  <2>1. lines \in Seq(Lines) /\ stdin \in Seq(BOOLEAN) /\ Len(lines) = 0
    BY DEF FramesInit
  <2>2. /\ 0 <= MaxLines /\ 0 \in 0..LongLine - 1 /\ 0 \in 0..MaxFrame + 1
        /\ 0 \in 0..Len(lines)
    BY <2>1, FramePositive, LimitsNatural DEF LongLine
  <2>3. {eof, reading, over} \subseteq BOOLEAN
    BY DEF FramesInit
  <2> QED BY <2>1, <2>2, <2>3 DEF FramesInit, FramesTypeOK
<1> DEFINE e == [k \in 0..0 |-> 0]
<1>2. Layout(e)
  <2>1. Len(lines) = 0 /\ Len(stdin) = 0 /\ line = 0 /\ done = 0 /\ typed = 0
    BY DEF FramesInit
  <2>2. e[0] = 0 /\ \A k \in 0..Len(lines) : e[k] \in Int
    BY <2>1
  <2>3. \A k \in Int : k \notin Undelivered
    BY <2>1 DEF Undelivered
  <2>4. Spaced(e) /\ Newlines(e)
    BY <2>3 DEF Spaced, Newlines, Undelivered
  <2>5. Rising(e) /\ NoOthers(e)
    BY <2>1 DEF Rising, NoOthers
  <2> HIDE DEF e
  <2>6. e[done] = -line /\ Len(stdin) = e[Len(lines)] + typed
    <3>1. \A x, y \in Int : x + y = 0 => x = -y
      OBVIOUS
    <3>2. /\ e[done] \in Int /\ line \in Int /\ e[done] + line = 0
          /\ Len(stdin) = e[Len(lines)] + typed
      BY <2>1, <2>2
    <3> QED BY <3>1, <3>2
  <2> QED BY <2>2, <2>4, <2>5, <2>6 DEF Layout
<1> QED BY <1>1, <1>2 DEF StreamInv, FramesInit

LEMMA StreamStep ==
    ASSUME StreamInv, [FramesNext]_framesVars
    PROVE  StreamInv'
<1>1. CASE Type
  BY <1>1, TypeKeeps
<1>2. ASSUME NEW ok \in BOOLEAN, EndLine(ok) PROVE StreamInv'
  BY <1>2, EndLineKeeps
<1>3. CASE Arrive
  BY <1>3, ArriveKeeps
<1>4. CASE CloseInput \/ Receive \/ DropReceive \/ UNCHANGED framesVars
  <2>1. UNCHANGED <<lines, typed, stdin, line, done, over>>
    BY <1>4 DEF CloseInput, Receive, DropReceive, framesVars
  <2>2. {eof', reading'} \subseteq BOOLEAN /\ (reading' => ~over')
    <3>1. {eof, reading, over} \subseteq BOOLEAN /\ (reading => ~over)
      BY DEF StreamInv, FramesTypeOK
    <3>2. CASE CloseInput
      BY <3>1, <3>2 DEF CloseInput
    <3>3. CASE Receive
      BY <3>1, <3>3 DEF Receive
    <3>4. CASE DropReceive
      BY <3>1, <3>4 DEF DropReceive
    <3>5. CASE UNCHANGED framesVars
      BY <3>1, <3>5 DEF framesVars
    <3> QED BY <1>4, <3>2, <3>3, <3>4, <3>5
  <2> QED BY <2>1, <2>2 DEF StreamInv, FramesTypeOK, Layout, Spaced, Newlines, Rising, NoOthers, Undelivered
<1>5. CASE ArriveEnd
  BY <1>5 DEF ArriveEnd, StreamInv, FramesTypeOK
<1> QED BY <1>1, <1>2, <1>3, <1>4, <1>5 DEF FramesNext

LEMMA Streams == FramesSpec => []StreamInv
<1>1. FramesInit => StreamInv
  BY StreamInitially
<1>2. StreamInv /\ [FramesNext]_framesVars => StreamInv'
  BY StreamStep
<1> QED BY <1>1, <1>2, PTL DEF FramesSpec

\* Every variable of the transport and of its peer keeps its type; the line buffer
\* never holds more than one byte beyond the limit (receive).
THEOREM FramesTyped == FramesSpec => []FramesTypeOK
<1>1. StreamInv => FramesTypeOK
  BY DEF StreamInv
<1> QED BY <1>1, Streams, PTL

\* No byte is lost or read twice, however often and wherever receive is dropped.
THEOREM BytesKept == FramesSpec => []NothingLost
<1>1. StreamInv => NothingLost
  BY LayoutLosesNothing DEF StreamInv, NothingLost
<1> QED BY <1>1, Streams, PTL

\* What is delivered was written as a message of at most MaxFrame bytes, and the
\* stream is closed only over a line that was not, or at the end of the input.
THEOREM PeerDecides == FramesSpec => LinesDecided
<1> DEFINE Decided ==
        /\ done' # done => Current.ok /\ Current.len <= MaxFrame
        /\ over' /\ ~over =>
             \/ Current.len > MaxFrame
             \/ done < Len(lines) /\ ~Current.ok
             \/ done = Len(lines) /\ eof
<1>1. ASSUME StreamInv, Arrive PROVE Decided
  <2>1. PICK end : Layout(end)
    BY <1>1, ArriveCases DEF StreamInv
  <2>2. PICK n \in 1..Len(stdin) :
            /\ n <= Remaining /\ \A i \in 1..n - 1 : ~stdin[i]
            /\ \/ stdin[n] /\ Fits(line + n) /\ Parses(line + n) /\ ~over'
               \/ stdin[n] /\ Fits(line + n) /\ ~Parses(line + n) /\ done' = done
               \/ stdin[n] /\ ~Fits(line + n) /\ done' = done
               \/ ~stdin[n] /\ n = Remaining /\ done' = done
               \/ done' = done /\ ~over'
    BY <1>1, ArriveCases
  <2>3. FramesTypeOK /\ n \in Nat /\ line \in Nat /\ MaxFrame \in Nat
    BY <1>1, FramePositive DEF StreamInv, FramesTypeOK
  <2>4. CASE stdin[n]
    <3>1. /\ done < Len(lines) /\ Current = lines[done + 1] /\ Current.len = line + n
      BY <2>1, <2>2, <2>3, <2>4, NextNewline
    <3>2. done + 1 \in 1..Len(lines)
      BY <2>3, <3>1, LinesTyped
    <3>3. Current = [len |-> Current.len, ok |-> Current.ok] /\ Current.ok \in BOOLEAN
      BY <2>3, <3>1, <3>2, LinesTyped
    <3>4. Parses(line + n) <=> Current.ok
      <4>1. Parses(line + n) => [len |-> line + n, ok |-> TRUE].ok = Current.ok
        BY <3>1 DEF Parses
      <4>2. Current.ok => Current = [len |-> line + n, ok |-> TRUE]
        BY <3>1, <3>3
      <4> QED BY <3>1, <4>1, <4>2 DEF Parses
    <3>5. Fits(line + n) <=> Current.len <= MaxFrame
      BY <3>1 DEF Fits
    <3>6. ~Fits(line + n) => Current.len > MaxFrame
      BY <2>3, <3>1 DEF Fits
    <3> QED BY <2>2, <2>4, <3>1, <3>4, <3>5, <3>6
  <2>5. CASE ~stdin[n]
    <3>1. \A i \in 1..n : ~stdin[i]
      BY <2>2, <2>3, <2>5
    <3>2. Current.len >= line + n
      BY <2>1, <2>3, <3>1, NoNewline
    <3>3. CASE n = Remaining /\ done' = done
      <4>1. line + n = MaxFrame + 1
        BY <2>3, <3>3 DEF Remaining
      <4>2. Current.len \in Int
        BY <2>3, LinesTyped
      <4> QED BY <2>3, <3>2, <3>3, <4>1, <4>2
    <3>4. CASE done' = done /\ ~over'
      BY <3>4
    <3> QED BY <2>2, <2>5, <3>3, <3>4
  <2> QED BY <2>4, <2>5
<1>2. ASSUME StreamInv, ArriveEnd PROVE Decided
  <2>1. PICK end : Layout(end)
    BY <1>2 DEF StreamInv, ArriveEnd
  <2>2. done' = done /\ eof /\ Len(stdin) = 0
    BY <1>2 DEF ArriveEnd
  <2>3. done + 1 \notin Undelivered
    BY <2>1, <2>2 DEF Layout, Newlines
  <2>4. done = Len(lines)
    <3>1. /\ done \in Nat /\ Len(lines) \in Nat /\ done <= Len(lines)
          /\ lines \in Seq(Lines)
      BY <1>2, LinesTyped DEF StreamInv, FramesTypeOK
    <3>2. done + 1 <= Len(lines) => done + 1 \in done + 1..Len(lines)
      BY <3>1
    <3>3. ~(done + 1 <= Len(lines))
      BY <2>3, <3>2 DEF Undelivered
    <3> QED BY <3>1, <3>3
  <2> QED BY <2>2, <2>4
<1>3. ASSUME StreamInv, [FramesNext]_framesVars PROVE [Decided]_framesVars
  <2>1. CASE Type \/ CloseInput \/ (\E ok \in BOOLEAN : EndLine(ok)) \/ Receive \/ DropReceive
    BY <2>1 DEF Type, CloseInput, EndLine, Receive, DropReceive
  <2> QED BY <1>1, <1>2, <1>3, <2>1 DEF FramesNext
<1>4. StreamInv /\ [FramesNext]_framesVars => [Decided]_framesVars
  BY <1>3
<1> QED BY <1>4, Streams, PTL DEF FramesSpec, LinesDecided

-------------------------------------------------------------------------------
(* Output: what is known of answers *)

\* What stdout has taken of the present line, read or not.
Out == row \o Taken

\* A job's id counts, and if its answer is partly written the job has the mutex and
\* stdout ends with what it wrote.
Partly(j) == job[j].st = "sending" /\ job[j].done > 0
JobOK(j) ==
    /\ job[j].st # "free" => job[j].id \in pending
    /\ job[j].st = "serving" => job[j].done = 0
    /\ Partly(j) => Holds(j)
    /\ Partly(j) /\ job[j].done < Parts =>
          Out # <<>> /\ Out[Len(Out)] = [id |-> job[j].id, n |-> job[j].done]

\* Stdout ends with a whole answer, with one that was given up, or with a piece of
\* an answer that is being written.
EndOK ==
    Out # <<>> =>
        LET p == Out[Len(Out)]
        IN  \/ p.n = Parts \/ GivenUp(p.id)
            \/ \E j \in Jobs : /\ job[j].st = "sending" /\ job[j].id = p.id
                              /\ job[j].done = p.n

Counted == IsFiniteSet(pending) /\ Cardinality(pending) <= MaxPending
OneEach == \A j, k \in Live : job[j].id = job[k].id => j = k

TransportInv ==
    /\ TypeOK /\ Counted /\ OneEach
    /\ \A j \in Jobs : JobOK(j)
    /\ EndOK /\ Unmixed

-------------------------------------------------------------------------------
(* Sequences and records *)

LEMMA Sizes ==
    /\ MaxPending \in Nat /\ Parts \in Nat /\ Room \in Nat /\ WriteTime \in Nat
    /\ MaxPending > 0 /\ Parts > 0 /\ Room > 0 /\ WriteTime > 0
    /\ Closer \notin Jobs
BY TransportPositive

LEMMA UnusedTyped == Unused \in JobRecords /\ Unused.st = "free" /\ Unused.done = 0
<1>1. PICK i \in Ids : i = (CHOOSE x \in Ids : TRUE)
  BY TransportPositive
<1>2. 0 \in 0..Parts /\ 0 \in 0..WriteTime
  BY Sizes
<1> QED BY <1>1, <1>2 DEF Unused, JobRecords

LEMMA Joined ==
    ASSUME NEW S, NEW u \in Seq(S), NEW v \in Seq(S)
    PROVE  /\ u \o v \in Seq(S) /\ Len(u \o v) = Len(u) + Len(v)
           /\ \A i \in 1..Len(u) + Len(v) :
                (u \o v)[i] = IF i <= Len(u) THEN u[i] ELSE v[i - Len(u)]
OBVIOUS

\* One more piece.
LEMMA Grown ==
    ASSUME NEW S, NEW u \in Seq(S), NEW v \in Seq(S), NEW x \in S
    PROVE  LET s == u \o v
               t == u \o Append(v, x)
           IN  /\ t \in Seq(S) /\ Len(t) = Len(s) + 1 /\ t[Len(t)] = x
               /\ \A i \in 1..Len(s) : t[i] = s[i]
<1>1. Append(v, x) \in Seq(S) /\ Len(Append(v, x)) = Len(v) + 1
  OBVIOUS
<1>2. /\ u \o Append(v, x) \in Seq(S)
      /\ Len(u \o Append(v, x)) = Len(u) + Len(v) + 1
      /\ \A i \in 1..Len(u) + Len(v) + 1 :
            (u \o Append(v, x))[i]
                = IF i <= Len(u) THEN u[i] ELSE Append(v, x)[i - Len(u)]
  <2>1. PICK w \in Seq(S) : w = Append(v, x)
    BY <1>1
  <2>2. Len(w) = Len(v) + 1
    BY <1>1, <2>1
  <2>3. /\ u \o w \in Seq(S) /\ Len(u \o w) = Len(u) + Len(v) + 1
        /\ \A i \in 1..Len(u) + Len(v) + 1 :
              (u \o w)[i] = IF i <= Len(u) THEN u[i] ELSE w[i - Len(u)]
    <3>1. /\ u \o w \in Seq(S) /\ Len(u \o w) = Len(u) + Len(w)
          /\ \A i \in 1..Len(u) + Len(w) :
                (u \o w)[i] = IF i <= Len(u) THEN u[i] ELSE w[i - Len(u)]
      BY Joined
    <3>2. Len(u) + Len(w) = Len(u) + Len(v) + 1
      BY <2>2
    <3> QED BY <3>1, <3>2
  <2> QED BY <2>1, <2>3
<1>3. Len(u \o v) = Len(u) + Len(v) /\ Len(u) \in Nat /\ Len(v) \in Nat
  BY Joined
<1>4. \A i \in 1..Len(v) : Append(v, x)[i] = v[i]
  OBVIOUS
<1>5. Append(v, x)[Len(v) + 1] = x
  OBVIOUS
<1>6. ASSUME NEW i \in 1..Len(u) + Len(v)
      PROVE  (u \o Append(v, x))[i] = (u \o v)[i]
  BY <1>2, <1>3, <1>4, Joined
<1> QED BY <1>2, <1>3, <1>5, <1>6

\* A piece is read.
LEMMA Moved ==
    ASSUME NEW S, NEW u \in Seq(S), NEW v \in Seq(S), v # <<>>
    PROVE  /\ Append(u, Head(v)) \in Seq(S) /\ Tail(v) \in Seq(S) /\ Head(v) \in S
           /\ Len(Tail(v)) = Len(v) - 1 /\ Len(v) > 0
           /\ Append(u, Head(v)) \o Tail(v) = u \o v
           /\ \A i \in 1..Len(v) - 1 : Tail(v)[i] = (u \o v)[i + Len(u) + 1]
           /\ (u \o v)[Len(u) + 1] = Head(v)
OBVIOUS

\* A task leaves the queue; the head stays if it is another.
LEMMA Left ==
    ASSUME NEW S, NEW q \in Seq(S), NEW i \in 1..Len(q)
    PROVE  /\ RemoveAt(q, i) \in Seq(S)
           /\ q # <<>> /\ (Head(q) # q[i] =>
                RemoveAt(q, i) # <<>> /\ Head(RemoveAt(q, i)) = Head(q))
<1> DEFINE a == SubSeq(q, 1, i - 1)
           b == SubSeq(q, i + 1, Len(q))
<1>1. Len(q) \in Nat /\ i \in Nat /\ 1 <= i /\ i <= Len(q) /\ Head(q) = q[1] /\ q # <<>>
  OBVIOUS
<1>2. a \in Seq(S) /\ Len(a) = i - 1 /\ (i > 1 => a[1] = q[1])
  <2>1. \A k \in 1..i - 1 : q[k] \in S
    BY <1>1
  <2>2. i - 1 \in Nat /\ i - 1 <= Len(q)
    BY <1>1
  <2> QED BY <1>1, <2>1, <2>2
<1>3. b \in Seq(S)
  <2>1. \A k \in i + 1..Len(q) : q[k] \in S
    BY <1>1
  <2> QED BY <1>1, <2>1
<1> HIDE DEF a, b
<1>4. a \o b \in Seq(S) /\ (i > 1 => a \o b # <<>> /\ Head(a \o b) = q[1])
  BY <1>1, <1>2, <1>3
<1>5. RemoveAt(q, i) = a \o b
  BY DEF RemoveAt, a, b
<1> QED BY <1>1, <1>4, <1>5

\* The parts of the invariant that a step's proof opens with.
LEMMA Parted ==
    ASSUME TransportInv
    PROVE  /\ closed \in BOOLEAN /\ pending \subseteq Ids /\ owed \subseteq Ids
           /\ job \in [Tasks -> JobRecords] /\ queue \in Seq(Tasks)
           /\ buffer \in Seq(Pieces) /\ pipe \in Seq(Pieces) /\ row \in Seq(Pieces)
           /\ Len(buffer) <= 1 /\ Len(pipe) <= Room
           /\ Taken \in Seq(Pieces) /\ Out \in Seq(Pieces)
           /\ Jobs \subseteq Tasks /\ Closer \in Tasks
<1>1. /\ buffer \in Seq(Pieces) /\ pipe \in Seq(Pieces) /\ row \in Seq(Pieces)
  BY DEF TransportInv, TypeOK
<1>2. Taken \in Seq(Pieces)
  BY <1>1, Joined DEF Taken
<1>3. Out \in Seq(Pieces)
  BY <1>1, <1>2, Joined DEF Out
<1> QED BY <1>2, <1>3 DEF TransportInv, TypeOK, Tasks

\* Stdout as a whole when one piece is taken, passed on or read.
LEMMA TakenMoves ==
    ASSUME NEW S, NEW u \in Seq(S), NEW v \in Seq(S)
    PROVE  /\ v = <<>> => \A x \in S : u \o <<x>> = Append(u \o v, x)
           /\ (u \o v) \o <<>> = u \o v
           /\ u # <<>> => /\ u \o v # <<>> /\ Head(u \o v) = Head(u)
                          /\ Tail(u) \o v = Tail(u \o v)
OBVIOUS

LEMMA JobParts ==
    ASSUME NEW r \in JobRecords
    PROVE  /\ r.st \in {"free", "serving", "sending", "written"} /\ r.id \in Ids
           /\ r.done \in 0..Parts /\ r.left \in 0..WriteTime
BY DEF JobRecords

-------------------------------------------------------------------------------
(* What a step keeps *)

\* An id given up is taken by nobody: no job has it, and it cannot be accepted.
GivenUpStays == \A i \in Ids : GivenUp(i) => GivenUp(i)'

LEMMA UpStays ==
    ASSUME TransportInv, NEW k \in Tasks, NEW r \in JobRecords,
           job' = [job EXCEPT ![k] = r],
           \/ r.st = "free" \/ r.id \notin pending \/ k = Closer
           \/ r.id = job[k].id /\ job[k].st # "free",
           \A i \in pending \ pending' : k # Closer /\ i = job[k].id /\ job[k].st # "free"
    PROVE  GivenUpStays
<1> SUFFICES ASSUME NEW i \in Ids, GivenUp(i) PROVE GivenUp(i)'
  BY DEF GivenUpStays
<1>1. /\ i \in pending /\ \A j \in Jobs : job[j].st # "free" => job[j].id # i
      /\ job \in [Tasks -> JobRecords] /\ Jobs \subseteq Tasks /\ Closer \notin Jobs
  BY Parted, Sizes DEF GivenUp, Live
<1>2. job'[k] = r /\ \A j \in Tasks \ {k} : job'[j] = job[j]
  BY <1>1
<1>3. i \in pending'
  BY <1>1 DEF Tasks
<1>4. ASSUME NEW j \in Jobs, job'[j].st # "free" PROVE job'[j].id # i
  BY <1>1, <1>2, <1>4
<1> QED BY <1>3, <1>4 DEF GivenUp, Live

\* A step that leaves stdout alone.
LEMMA Quiet ==
    ASSUME TransportInv, Out' = Out, GivenUpStays,
           \A j \in Jobs : Partly(j) /\ job[j].done < Parts =>
                \/ /\ job'[j].st = "sending" /\ job'[j].id = job[j].id
                   /\ job'[j].done = job[j].done
                \/ \A i \in Ids : i = job[j].id => GivenUp(i)'
    PROVE  EndOK' /\ Unmixed'
<1>1. Out' = Out /\ Out \in Seq(Pieces)
  BY Parted
<1>2. ASSUME NEW p \in Pieces PROVE p.id \in Ids /\ p.n \in 1..Parts
  BY DEF Pieces
<1>3. EndOK'
  <2> SUFFICES ASSUME Out # <<>> PROVE EndOK'
    BY <1>1 DEF EndOK
  <2>1. PICK p \in Pieces : p = Out[Len(Out)]
    BY <1>1
  <2>4. p.id \in Ids /\ p.n \in 1..Parts /\ p = Out'[Len(Out')]
    BY <1>1, <1>2, <2>1
  <2> SUFFICES \/ p.n = Parts \/ GivenUp(p.id)'
               \/ \E j \in Jobs : /\ job'[j].st = "sending" /\ job'[j].id = p.id
                                 /\ job'[j].done = p.n
    BY <2>4 DEF EndOK
  <2>2. CASE p.n = Parts \/ GivenUp(p.id)
    BY <2>2, <2>4 DEF GivenUpStays
  <2>3. CASE p.n # Parts /\ ~GivenUp(p.id)
    <3>1. PICK j \in Jobs : job[j].st = "sending" /\ job[j].id = p.id /\ job[j].done = p.n
      BY <2>1, <2>3 DEF TransportInv, EndOK
    <3>2. Partly(j) /\ job[j].done < Parts
      BY <2>3, <2>4, <3>1, Sizes DEF Partly
    <3> QED BY <2>4, <3>1, <3>2
  <2> QED BY <2>1, <2>2, <2>3
<1>4. Unmixed'
  <2> SUFFICES ASSUME NEW i \in 1..Len(Out) - 1 PROVE Follows(Out[i], Out[i + 1])'
    BY <1>1 DEF Unmixed, Out
  <2>1. Follows(Out[i], Out[i + 1])
    BY DEF TransportInv, Unmixed, Out
  <2>2. PICK p \in Pieces, q \in Pieces : p = Out[i] /\ q = Out[i + 1]
    BY <1>1
  <2>3. Follows(p, q)'
    BY <1>2, <2>1, <2>2 DEF Follows, GivenUpStays
  <2> QED BY <1>1, <2>2, <2>3
<1> QED BY <1>1, <1>3, <1>4

\* A job that a step does not concern.
LEMMA SameJob ==
    ASSUME TransportInv, NEW j \in Jobs, job'[j] = job[j],
           job[j].st # "free" => job[j].id \in pending',
           Partly(j) => Holds(j)' /\ Out' = Out
    PROVE  JobOK(j)'
BY DEF TransportInv, JobOK, Partly

\* Every job live after the step was live before it, with its id, but for one that
\* may have taken an id that was free.
LEMMA StillOneEach ==
    ASSUME TransportInv, NEW k \in Tasks, NEW r \in JobRecords,
           job' = [job EXCEPT ![k] = r],
           \/ r.st = "free" \/ r.id \notin pending \/ k = Closer
           \/ r.id = job[k].id /\ job[k].st # "free"
    PROVE  OneEach'
<1>1. job'[k] = r /\ \A j \in Tasks \ {k} : job'[j] = job[j]
  BY Parted
<1>2. Jobs \subseteq Tasks /\ Closer \notin Jobs
  BY Parted, Sizes
<1>3. \A j \in Jobs : job[j].st # "free" => job[j].id \in pending
  BY DEF TransportInv, JobOK
<1>4. \A i, j \in Jobs : job[i].st # "free" /\ job[j].st # "free" /\ job[i].id = job[j].id
                           => i = j
  BY DEF TransportInv, OneEach, Live
<1>5. ASSUME NEW i \in Jobs, NEW j \in Jobs, job'[i].st # "free", job'[j].st # "free",
             job'[i].id = job'[j].id
      PROVE  i = j
  BY <1>1, <1>2, <1>3, <1>4, <1>5
<1> QED BY <1>5 DEF OneEach, Live

\* A step that deals with one job, leaves stdout alone and keeps the place of a job
\* whose answer is partly written.
LEMMA JobStep ==
    ASSUME TransportInv, TypeOK', NEW k \in Tasks, NEW r \in JobRecords,
           job' = [job EXCEPT ![k] = r], UNCHANGED <<row, buffer, pipe>>, Counted',
           \/ r.st = "free" \/ r.id \notin pending \/ k = Closer
           \/ r.id = job[k].id /\ job[k].st # "free",
           \A i \in pending \ pending' : k # Closer /\ i = job[k].id /\ job[k].st # "free",
           pending' # pending => r.st = "free" \/ pending \subseteq pending',
           r.st # "free" /\ k # Closer => r.id \in pending',
           r.st = "serving" => r.done = 0,
           r.st = "sending" => r.done = 0 \/ k = Closer,
           Partly(k) /\ job[k].done < Parts /\ k # Closer =>
                r.st = "free" /\ pending' = pending,
           \A j \in Jobs \ {k} : Partly(j) => Holds(j)'
    PROVE  TransportInv'
<1>1. /\ job'[k] = r /\ \A j \in Tasks \ {k} : job'[j] = job[j]
      /\ Jobs \subseteq Tasks /\ Closer \notin Jobs /\ pending \subseteq Ids
      /\ job[k] \in JobRecords /\ job \in [Tasks -> JobRecords]
  BY Parted, Sizes
<1>2. GivenUpStays
  BY UpStays
<1>3. OneEach'
  BY StillOneEach
<1>4. ASSUME NEW j \in Jobs, Partly(j), job[j].done < Parts
      PROVE  \/ /\ job'[j].st = "sending" /\ job'[j].id = job[j].id
                /\ job'[j].done = job[j].done
             \/ \A i \in Ids : i = job[j].id => GivenUp(i)'
  <2>1. CASE j # k
    BY <1>1, <1>4, <2>1 DEF Partly
  <2>2. CASE j = k
    <3>1. r.st = "free" /\ pending' = pending /\ k # Closer
      BY <1>1, <1>4, <2>2
    <3>2. PICK i \in Ids : i = job[j].id
      BY <1>1, <2>2, JobParts
    <3>3. i \in pending
      BY <1>4, <3>2 DEF TransportInv, JobOK, Partly
    <3>4. \A h \in Jobs : job'[h].st # "free" => job'[h].id # i
      <4> SUFFICES ASSUME NEW h \in Jobs, job'[h].st # "free" PROVE job'[h].id # i
        OBVIOUS
      <4>1. h # k /\ job'[h] = job[h]
        BY <1>1, <3>1
      <4> QED BY <1>4, <2>2, <3>2, <4>1 DEF TransportInv, OneEach, Live, Partly
    <3> QED BY <3>1, <3>2, <3>3, <3>4 DEF GivenUp, Live
  <2> QED BY <2>1, <2>2
<1>7. Out' = Out
  BY DEF Out, Taken
<1>5. EndOK' /\ Unmixed'
  BY <1>2, <1>4, <1>7, Quiet
<1>6. ASSUME NEW j \in Jobs PROVE JobOK(j)'
  <2>1. CASE j = k
    BY <1>1, <2>1 DEF JobOK, Partly
  <2>2. CASE j # k
    <3>1. job'[j] = job[j]
      BY <1>1, <2>2
    <3>2. job[j].st # "free" => job[j].id \in pending'
      <4> SUFFICES ASSUME job[j].st # "free", job[j].id \notin pending' PROVE FALSE
        OBVIOUS
      <4>1. job[j].id \in pending
        BY DEF TransportInv, JobOK
      <4>2. k # Closer /\ job[j].id = job[k].id /\ job[k].st # "free" /\ k \in Jobs
        BY <4>1 DEF Tasks
      <4> QED BY <2>2, <4>2 DEF TransportInv, OneEach, Live
    <3> QED BY <1>7, <2>2, <3>1, <3>2, SameJob
  <2> QED BY <2>1, <2>2
<1> QED BY <1>3, <1>5, <1>6 DEF TransportInv

\* A task leaves the mutex to the one that has it, unless it has it itself.
LEMMA LeaveKeeps ==
    ASSUME TransportInv, NEW k \in Tasks, Leave(k)
    PROVE  queue' \in Seq(Tasks) /\ \A j \in Jobs \ {k} : Holds(j) => Holds(j)'
<1>1. PICK i \in 1..Len(queue) : queue[i] = k /\ queue' = RemoveAt(queue, i)
  BY DEF Leave
<1>2. queue \in Seq(Tasks)
  BY Parted
<1> QED BY <1>1, <1>2, Left DEF Holds

\* Those before and at the mutex keep their places behind its holder.
LEMMA HoldKept ==
    ASSUME TransportInv, queue' = queue \/ \E k \in Tasks : queue' = Append(queue, k)
    PROVE  queue' \in Seq(Tasks) /\ \A j \in Jobs : Holds(j) => Holds(j)'
<1>1. queue \in Seq(Tasks)
  BY Parted
<1>2. CASE queue' = queue
  BY <1>1, <1>2 DEF Holds
<1>3. CASE \E k \in Tasks : queue' = Append(queue, k)
  BY <1>1, <1>3 DEF Holds
<1> QED BY <1>2, <1>3

\* At most one job has its answer partly written.
LEMMA OneHolds ==
    ASSUME TransportInv, NEW j \in Jobs, Partly(j), NEW k \in Tasks, Holds(k)
    PROVE  j = k
BY DEF TransportInv, JobOK, Holds

-------------------------------------------------------------------------------
(* The actions *)

LEMMA AcceptKeeps ==
    ASSUME TransportInv, NEW i \in Ids, NEW j \in Jobs, Accept(j, i)
    PROVE  TransportInv'
<1> DEFINE r == [st |-> "serving", id |-> i, done |-> 0, left |-> 0]
<1>1. r \in JobRecords /\ r.st = "serving" /\ r.id = i /\ r.done = 0
  BY Sizes DEF JobRecords
<1>2. /\ job' = [job EXCEPT ![j] = r] /\ pending' = pending \cup {i}
      /\ owed' = owed \cup {i} /\ UNCHANGED <<closed, queue, buffer, pipe, row>>
      /\ i \notin pending /\ Cardinality(pending) < MaxPending /\ job[j].st = "free"
  BY DEF Accept, Admits
<1> HIDE DEF r
<1>3. TypeOK'
  BY <1>1, <1>2, Parted DEF TypeOK
<1>4. Counted'
  <2>1. IsFiniteSet(pending)
    BY DEF TransportInv, Counted
  <2>2. /\ IsFiniteSet(pending \cup {i}) /\ Cardinality(pending) \in Nat
        /\ Cardinality(pending \cup {i}) = Cardinality(pending) + 1
    BY <1>2, <2>1, FS_AddElement, FS_CardinalityType
  <2> QED BY <1>2, <2>2, Sizes DEF Counted
<1>5. \A k \in Jobs : Partly(k) => Holds(k)'
  BY <1>2, HoldKept DEF TransportInv, JobOK
<1>6. ~Partly(j) /\ j \in Tasks
  BY <1>2 DEF Partly, Tasks
<1> QED BY <1>1, <1>2, <1>3, <1>4, <1>5, <1>6, JobStep

\* The tasks of answers, and the closer, join the queue.
LEMMA BeginKeeps ==
    ASSUME TransportInv, NEW k \in Tasks, Begin(k), closed' \in BOOLEAN,
           UNCHANGED <<pending, buffer, pipe, row, owed>>
    PROVE  TransportInv'
<1> DEFINE r == [job[k] EXCEPT !.st = "sending", !.left = WriteTime]
<1>1. job \in [Tasks -> JobRecords] /\ job[k] \in JobRecords /\ Closer \notin Jobs
  BY Parted, Sizes
<1>2. r \in JobRecords /\ r.st = "sending" /\ r.id = job[k].id /\ r.done = job[k].done
  <2>1. PICK w \in 0..WriteTime : w = WriteTime
    BY Sizes
  <2> QED BY <1>1, <2>1 DEF JobRecords
<1>3. /\ job' = [job EXCEPT ![k] = r] /\ queue' = Append(queue, k)
      /\ job[k].st = "serving"
  BY <1>1 DEF Begin, JobRecords
<1> HIDE DEF r
<1>4. queue' \in Seq(Tasks) /\ \A j \in Jobs : Partly(j) => Holds(j)'
  BY <1>3, HoldKept DEF TransportInv, JobOK
<1>5. TypeOK'
  BY <1>2, <1>3, <1>4, Parted DEF TypeOK
<1>6. Counted'
  BY DEF TransportInv, Counted
<1>7. k # Closer => job[k].id \in pending /\ job[k].done = 0
  BY <1>3 DEF TransportInv, JobOK, Tasks
<1>8. ~Partly(k)
  BY <1>3 DEF Partly
<1> QED BY <1>2, <1>3, <1>4, <1>5, <1>6, <1>7, <1>8, JobStep

LEMMA FinishKeeps ==
    ASSUME TransportInv, NEW k \in Tasks, Finish(k)
    PROVE  TransportInv'
<1> DEFINE r == [job[k] EXCEPT !.st = "written", !.left = 0]
<1>1. job \in [Tasks -> JobRecords] /\ job[k] \in JobRecords /\ queue \in Seq(Tasks)
  BY Parted
<1>2. r \in JobRecords /\ r.st = "written" /\ r.id = job[k].id
  <2>1. 0 \in 0..WriteTime
    BY Sizes
  <2> QED BY <1>1, <2>1 DEF JobRecords
<1>3. /\ job' = [job EXCEPT ![k] = r] /\ queue' = Tail(queue) /\ queue # <<>> /\ Holds(k)
      /\ job[k].st = "sending" /\ job[k].done = Parts
      /\ UNCHANGED <<closed, pending, buffer, pipe, row, owed>>
  BY <1>1 DEF Finish, CanFinish, Flushed, Written, JobRecords, Holds
<1> HIDE DEF r
<1>4. TypeOK'
  BY <1>1, <1>2, <1>3, Parted, Moved DEF TypeOK
<1>5. Counted'
  BY <1>3 DEF TransportInv, Counted
<1>6. \A j \in Jobs \ {k} : ~Partly(j)
  BY <1>3, OneHolds
<1>7. k # Closer => job[k].id \in pending
  BY <1>3 DEF TransportInv, JobOK, Tasks
<1>8. ~(job[k].done < Parts)
  BY <1>3, Sizes
<1> QED BY <1>2, <1>3, <1>4, <1>5, <1>6, <1>7, <1>8, JobStep

LEMMA ReleaseKeeps ==
    ASSUME TransportInv, NEW k \in Jobs, Release(k)
    PROVE  TransportInv'
<1> DEFINE r == Unused
<1>1. job \in [Tasks -> JobRecords] /\ job[k] \in JobRecords /\ k \in Tasks
  BY Parted
<1>2. r \in JobRecords /\ r.st = "free"
  BY UnusedTyped
<1>3. /\ job' = [job EXCEPT ![k] = r] /\ pending' = pending \ {job[k].id}
      /\ job[k].st = "written" /\ k # Closer
      /\ UNCHANGED <<closed, queue, buffer, pipe, row, owed>>
  BY <1>1 DEF Release
<1> HIDE DEF r
<1>4. TypeOK'
  BY <1>2, <1>3, Parted DEF TypeOK
<1>5. Counted'
  <2>1. pending' \subseteq pending /\ IsFiniteSet(pending) /\ Cardinality(pending) <= MaxPending
    BY <1>3 DEF TransportInv, Counted
  <2>2. IsFiniteSet(pending') /\ Cardinality(pending') <= Cardinality(pending)
        /\ Cardinality(pending) \in Nat /\ Cardinality(pending') \in Nat
    BY <2>1, FS_Subset, FS_CardinalityType
  <2> QED BY <2>1, <2>2, Sizes DEF Counted
<1>6. \A j \in Jobs : Partly(j) => Holds(j)'
  BY <1>3, HoldKept DEF TransportInv, JobOK
<1>7. ~Partly(k)
  BY <1>3 DEF Partly
<1> QED BY <1>1, <1>2, <1>3, <1>4, <1>5, <1>6, <1>7, JobStep

LEMMA TimeOutKeeps ==
    ASSUME TransportInv, NEW k \in Tasks, TimeOut(k)
    PROVE  TransportInv'
<1> DEFINE r == Unused
<1>1. job \in [Tasks -> JobRecords] /\ job[k] \in JobRecords
  BY Parted
<1>2. r \in JobRecords /\ r.st = "free"
  BY UnusedTyped
<1>3. /\ job' = [job EXCEPT ![k] = r] /\ Leave(k)
      /\ UNCHANGED <<closed, pending, buffer, pipe, row, owed>>
  BY <1>1 DEF TimeOut
<1> HIDE DEF r
<1>4. queue' \in Seq(Tasks) /\ \A j \in Jobs \ {k} : Partly(j) => Holds(j)'
  BY <1>3, LeaveKeeps DEF TransportInv, JobOK
<1>5. TypeOK'
  BY <1>2, <1>3, <1>4, Parted DEF TypeOK
<1>6. Counted'
  BY <1>3 DEF TransportInv, Counted
<1> QED BY <1>2, <1>3, <1>4, <1>5, <1>6, JobStep

\* A step that changes nothing of a job but its time.
LEMMA StillKeeps ==
    ASSUME TransportInv, TypeOK', UNCHANGED <<pending, queue>>, Out' = Out,
           \A j \in Jobs : /\ job'[j].st = job[j].st /\ job'[j].id = job[j].id
                           /\ job'[j].done = job[j].done
    PROVE  TransportInv'
<1>1. GivenUpStays
  BY DEF GivenUpStays, GivenUp, Live
<1>2. EndOK' /\ Unmixed'
  BY <1>1, Quiet DEF Partly
<1>3. OneEach' /\ Counted'
  BY DEF TransportInv, OneEach, Live, Counted
<1>4. ASSUME NEW j \in Jobs PROVE JobOK(j)'
  BY DEF TransportInv, JobOK, Partly, Holds
<1> QED BY <1>2, <1>3, <1>4 DEF TransportInv

LEMMA RefuseKeeps ==
    ASSUME TransportInv, NEW i \in Ids, Refuse(i)
    PROVE  TransportInv'
<1>1. /\ closed' = TRUE /\ owed' = owed \cup {i}
      /\ UNCHANGED <<pending, job, queue, buffer, pipe, row>>
  BY DEF Refuse
<1>2. TypeOK' /\ Out' = Out
  BY <1>1, Parted DEF TypeOK, Out, Taken
<1> QED BY <1>1, <1>2, StillKeeps

LEMMA TickKeeps ==
    ASSUME TransportInv, Tick
    PROVE  TransportInv'
<1>1. /\ UNCHANGED <<closed, pending, queue, buffer, pipe, row, owed>>
      /\ \A j \in Sending : job[j].left > 0
      /\ job' = [j \in Tasks |-> IF j \in Sending THEN [job[j] EXCEPT !.left = job[j].left - 1]
                                 ELSE job[j]]
  BY DEF Tick
<1>2. ASSUME NEW j \in Tasks
      PROVE  /\ job'[j] \in JobRecords /\ job'[j].st = job[j].st
             /\ job'[j].id = job[j].id /\ job'[j].done = job[j].done
  <2>1. PICK r \in JobRecords : r = job[j]
    BY Parted
  <2>2. CASE j \in Sending
    <3>1. PICK w \in 0..WriteTime : w = r.left - 1
      BY <1>1, <2>1, <2>2, JobParts, Sizes
    <3>2. PICK x : x = [r EXCEPT !.left = w]
      OBVIOUS
    <3>3. x \in JobRecords /\ x.st = r.st /\ x.id = r.id /\ x.done = r.done
      BY <3>2 DEF JobRecords
    <3> QED BY <1>1, <2>1, <2>2, <3>1, <3>2, <3>3
  <2> QED BY <1>1, <2>1, <2>2
<1>3. job' \in [Tasks -> JobRecords]
  BY <1>1, <1>2
<1>4. TypeOK' /\ Out' = Out
  BY <1>1, <1>3, Parted DEF TypeOK, Out, Taken
<1> QED BY <1>1, <1>2, <1>4, Parted, StillKeeps

LEMMA WriteKeeps ==
    ASSUME TransportInv, NEW j \in Jobs, Write(j)
    PROVE  TransportInv'
<1>1. /\ job \in [Tasks -> JobRecords] /\ job[j] \in JobRecords /\ j \in Tasks
      /\ row \in Seq(Pieces) /\ Taken \in Seq(Pieces) /\ Out \in Seq(Pieces)
  BY Parted
<1>2. PICK n \in 1..Parts : n = job[j].done + 1
  BY <1>1, JobParts, Sizes DEF Write, CanWrite
<1>3. PICK r \in JobRecords : r = [job[j] EXCEPT !.done = n]
  <2>1. PICK y \in JobRecords : y = job[j]
    BY <1>1
  <2>2. n \in 0..Parts
    BY Sizes
  <2>3. [y EXCEPT !.done = n] \in JobRecords
    BY <2>2 DEF JobRecords
  <2> QED BY <2>1, <2>3
<1>4. r.st = job[j].st /\ r.id = job[j].id /\ r.done = n /\ job[j].id \in Ids
  BY <1>1, <1>3 DEF JobRecords
<1>5. PICK x \in Pieces : x = [id |-> job[j].id, n |-> n]
  BY <1>4 DEF Pieces
<1>6. /\ job[j].st = "sending" /\ job[j].done < Parts /\ buffer = <<>> /\ Holds(j)
      /\ buffer' = <<x>> /\ job' = [job EXCEPT ![j] = r]
      /\ UNCHANGED <<closed, pending, queue, pipe, row, owed>>
  BY <1>1, <1>2, <1>3, <1>5 DEF Write, CanWrite, JobRecords
<1>19. Taken' = Append(Taken, x)
  <2>1. pipe \in Seq(Pieces) /\ buffer \in Seq(Pieces)
    BY Parted
  <2> QED BY <1>6, <2>1, TakenMoves DEF Taken
<1>7. /\ job'[j] = r /\ \A k \in Tasks \ {j} : job'[k] = job[k]
      /\ job' \in [Tasks -> JobRecords]
  BY <1>1, <1>6
<1>8. Jobs \subseteq Tasks
  BY Parted
<1>9. TypeOK'
  <2>1. buffer' \in Seq(Pieces) /\ Len(buffer') <= 1
    BY <1>6
  <2> QED BY <1>6, <1>7, <2>1, Parted DEF TypeOK
<1>10. /\ Out' \in Seq(Pieces) /\ Len(Out') = Len(Out) + 1 /\ Out'[Len(Out')] = x
       /\ \A i \in 1..Len(Out) : Out'[i] = Out[i]
  BY <1>1, <1>6, <1>19, Grown DEF Out
<1>11. \A k \in Jobs : job'[k].st = job[k].st /\ job'[k].id = job[k].id
  BY <1>4, <1>7, <1>8
<1>12. OneEach' /\ Counted' /\ \A i \in Ids : GivenUp(i)' <=> GivenUp(i)
  BY <1>6, <1>11 DEF TransportInv, OneEach, Counted, GivenUp, Live
<1>13. \A k \in Jobs \ {j} : ~Partly(k) /\ ~Partly(k)'
  <2>1. \A k \in Jobs \ {j} : ~Partly(k)
    BY <1>1, <1>6, OneHolds
  <2> QED BY <1>7, <1>8, <2>1 DEF Partly
<1>14. ASSUME NEW k \in Jobs PROVE JobOK(k)'
  <2>1. job[k].st # "free" => job[k].id \in pending'
    BY <1>6 DEF TransportInv, JobOK
  <2>2. CASE k = j
    <3>1. Out' # <<>>
      BY <1>1, <1>10
    <3>2. Out'[Len(Out')] = [id |-> job'[k].id, n |-> job'[k].done]
      BY <1>4, <1>5, <1>7, <1>10, <2>2
    <3>3. Holds(k)'
      BY <1>6, <2>2 DEF Holds
    <3> QED BY <1>6, <1>11, <2>1, <2>2, <3>1, <3>2, <3>3 DEF JobOK
  <2>3. CASE k # j
    <3>1. job[k].st = "serving" => job[k].done = 0
      BY DEF TransportInv, JobOK
    <3> QED BY <1>7, <1>8, <1>11, <1>13, <2>1, <2>3, <3>1 DEF JobOK
  <2> QED BY <2>2, <2>3
<1>15. EndOK'
  BY <1>4, <1>5, <1>6, <1>7, <1>10 DEF EndOK
<1>16. ASSUME Out # <<>> PROVE Follows(Out[Len(Out)], x)
  <2>1. PICK p \in Pieces : p = Out[Len(Out)]
    BY <1>1, <1>16
  <2>2. p.n \in 1..Parts /\ x.id = job[j].id /\ x.n = n
    BY <1>5 DEF Pieces
  <2>3. CASE job[j].done > 0
    <3>1. p = [id |-> job[j].id, n |-> job[j].done]
      BY <1>6, <2>1, <2>3 DEF TransportInv, JobOK, Partly
    <3> QED BY <1>2, <2>1, <2>2, <3>1 DEF Follows
  <2>4. CASE ~(job[j].done > 0)
    <3>1. n = 1
      BY <1>1, <1>2, <2>4, JobParts, Sizes
    <3>2. ASSUME NEW k \in Jobs, job[k].st = "sending", job[k].done = p.n PROVE FALSE
      <4>1. Partly(k)
        BY <2>2, <3>2, Sizes DEF Partly
      <4> QED BY <1>1, <1>6, <2>4, <4>1, OneHolds DEF Partly
    <3> QED BY <1>16, <2>1, <2>2, <3>1, <3>2 DEF TransportInv, EndOK, Follows
  <2> QED BY <2>3, <2>4
<1>17. ASSUME NEW i \in 1..Len(Out') - 1 PROVE Follows(Out'[i], Out'[i + 1])
  <2>1. Len(Out) \in Nat /\ i \in 1..Len(Out)
    BY <1>1, <1>10
  <2>2. CASE i < Len(Out)
    <3>1. Out'[i] = Out[i] /\ Out'[i + 1] = Out[i + 1] /\ i \in 1..Len(Out) - 1
      BY <1>10, <2>1, <2>2
    <3> QED BY <3>1 DEF TransportInv, Unmixed, Out
  <2>3. CASE i = Len(Out)
    <3>1. Out'[i] = Out[Len(Out)] /\ Out'[i + 1] = x /\ Out # <<>>
      BY <1>1, <1>10, <2>1, <2>3
    <3> QED BY <1>16, <3>1
  <2>4. i < Len(Out) \/ i = Len(Out)
    BY <1>1, <2>1
  <2> QED BY <2>2, <2>3, <2>4
<1>18. Unmixed'
  <2> SUFFICES ASSUME NEW i \in 1..Len(Out') - 1 PROVE Follows(Out[i], Out[i + 1])'
    BY DEF Unmixed, Out
  <2>1. PICK p \in Pieces, q \in Pieces : p = Out'[i] /\ q = Out'[i + 1]
    BY <1>10
  <2>2. p.id \in Ids /\ Follows(p, q)
    BY <1>17, <2>1 DEF Pieces
  <2>3. Follows(p, q)'
    BY <1>12, <2>2 DEF Follows
  <2> QED BY <2>1, <2>3
<1> QED BY <1>9, <1>12, <1>14, <1>15, <1>18 DEF TransportInv

LEMMA ReadMoves ==
    ASSUME row \in Seq(Pieces), Taken \in Seq(Pieces), Taken # <<>>
    PROVE  /\ Append(row, Head(Taken)) \in Seq(Pieces) /\ Tail(Taken) \in Seq(Pieces)
           /\ Head(Taken) \in Pieces
           /\ Len(Tail(Taken)) = Len(Taken) - 1 /\ Len(Taken) > 0
           /\ Append(row, Head(Taken)) \o Tail(Taken) = Out
           /\ \A i \in 1..Len(Taken) - 1 : Tail(Taken)[i] = Out[i + Len(row) + 1]
           /\ Out[Len(row) + 1] = Head(Taken)
           /\ Len(Out) = Len(row) + Len(Taken)
<1>1. PICK u \in Seq(Pieces), v \in Seq(Pieces) : u = row /\ v = Taken
  OBVIOUS
<1>2. Out = u \o v /\ v # <<>>
  BY <1>1 DEF Out
<1> QED BY <1>1, <1>2, Moved, Joined

LEMMA ReadKeeps ==
    ASSUME TransportInv, ReadPiece
    PROVE  TransportInv'
<1>1. /\ row \in Seq(Pieces) /\ Taken \in Seq(Pieces) /\ Out \in Seq(Pieces)
      /\ pipe \in Seq(Pieces) /\ pipe # <<>> /\ pipe' = Tail(pipe)
      /\ UNCHANGED <<closed, pending, job, queue, buffer>>
      /\ row' = IF Head(Taken).n = Parts THEN <<>> ELSE Append(row, Head(Taken))
      /\ owed' \subseteq owed
      /\ Taken # <<>> /\ Taken' = Tail(Taken)
  <2>1. buffer \in Seq(Pieces) /\ pipe \in Seq(Pieces) /\ pipe # <<>>
    BY Parted DEF ReadPiece
  <2>2. Taken # <<>> /\ Head(Taken) = Head(pipe) /\ Tail(pipe) \o buffer = Tail(Taken)
    BY <2>1, TakenMoves DEF Taken
  <2>3. Taken' = Tail(Taken)
    BY <2>2 DEF ReadPiece, Taken
  <2>4. row' = IF Head(Taken).n = Parts THEN <<>> ELSE Append(row, Head(Taken))
    BY <2>2 DEF ReadPiece
  <2> QED BY <2>1, <2>2, <2>3, <2>4, Parted DEF ReadPiece
<1>2. /\ Append(row, Head(Taken)) \in Seq(Pieces) /\ Tail(Taken) \in Seq(Pieces)
      /\ Len(Tail(Taken)) = Len(Taken) - 1 /\ Len(Taken) > 0
      /\ Append(row, Head(Taken)) \o Tail(Taken) = Out
      /\ \A i \in 1..Len(Taken) - 1 : Tail(Taken)[i] = Out[i + Len(row) + 1]
      /\ Out[Len(row) + 1] = Head(Taken)
  BY <1>1, ReadMoves
<1>3. TypeOK'
  <2>1. Tail(pipe) \in Seq(Pieces) /\ Len(Tail(pipe)) = Len(pipe) - 1 /\ Len(pipe) \in Nat
    BY <1>1
  <2>2. Len(pipe') <= Room
    BY <1>1, <2>1, Parted, Sizes
  <2>3. row' \in Seq(Pieces)
    BY <1>1, <1>2
  <2> QED BY <1>1, <2>1, <2>2, <2>3, Parted DEF TypeOK
<1>4. CASE Head(Taken).n # Parts
  <2>1. Out' = Out
    BY <1>1, <1>2, <1>4 DEF Out
  <2> QED BY <1>1, <1>3, <2>1, StillKeeps
<1>5. CASE Head(Taken).n = Parts
  <2>1. Out' = Tail(Taken)
    BY <1>1, <1>2, <1>5 DEF Out
  <2>2. PICK m \in Nat : m = Len(row) + 1
    BY <1>1
  <2>3. /\ Out' \in Seq(Pieces) /\ Len(Out) = Len(Out') + m /\ Len(Out') \in Nat
        /\ \A i \in 1..Len(Out') : Out'[i] = Out[i + m]
        /\ Out[m] = Head(Taken)
    <3>1. /\ Len(Out) = Len(row) + Len(Taken) /\ Len(row) \in Nat /\ Len(Taken) \in Nat
          /\ Out \in Seq(Pieces)
      BY <1>1, Joined DEF Out
    <3>2. Len(Out') = Len(Taken) - 1 /\ Len(Out') \in Nat /\ Out' \in Seq(Pieces)
      BY <1>2, <2>1, <3>1
    <3>3. ASSUME NEW i \in 1..Len(Out') PROVE Out'[i] = Out[i + m]
      <4>1. i + m = i + Len(row) + 1 /\ i \in 1..Len(Taken) - 1
        BY <2>2, <3>1, <3>2
      <4> QED BY <1>2, <2>1, <4>1
    <3>4. Len(Out) = Len(Out') + m
      <4>1. Len(row) + Len(Taken) = Len(Taken) - 1 + m
        BY <2>2, <3>1
      <4> QED BY <3>1, <3>2, <4>1
    <3>5. Out[m] = Head(Taken)
      BY <1>2, <2>2
    <3> QED BY <3>2, <3>3, <3>4, <3>5
  <2>4. \A i \in Ids : GivenUp(i)' <=> GivenUp(i)
    BY <1>1 DEF GivenUp, Live
  <2>5. Out' # <<>> => Out # <<>> /\ Out'[Len(Out')] = Out[Len(Out)]
    <3> SUFFICES ASSUME Out' # <<>> PROVE Out # <<>> /\ Out'[Len(Out')] = Out[Len(Out)]
      OBVIOUS
    <3>1. Len(Out') \in 1..Len(Out') /\ Len(Out) > 0
      BY <2>2, <2>3
    <3>2. Out'[Len(Out')] = Out[Len(Out') + m]
      BY <2>3, <3>1
    <3>3. Out # <<>>
      BY <1>1, <3>1
    <3> QED BY <2>3, <3>2, <3>3
  <2>6. Out' = <<>> => Out[Len(Out)] = Head(Taken)
    BY <2>2, <2>3
  <2>7. EndOK'
    <3> SUFFICES ASSUME Out' # <<>> PROVE EndOK'
      BY DEF EndOK
    <3>1. PICK p \in Pieces : p = Out[Len(Out)] /\ p = Out'[Len(Out')]
      BY <1>1, <2>3, <2>5
    <3>2. p.id \in Ids
      BY DEF Pieces
    <3>3. \/ p.n = Parts \/ GivenUp(p.id)
          \/ \E j \in Jobs : job[j].st = "sending" /\ job[j].id = p.id /\ job[j].done = p.n
      BY <2>5, <3>1 DEF TransportInv, EndOK
    <3>4. \/ p.n = Parts \/ GivenUp(p.id)'
          \/ \E j \in Jobs : job'[j].st = "sending" /\ job'[j].id = p.id /\ job'[j].done = p.n
      BY <1>1, <2>4, <3>2, <3>3
    <3> QED BY <3>1, <3>4 DEF EndOK
  <2>8. Unmixed'
    <3> SUFFICES ASSUME NEW i \in 1..Len(Out') - 1 PROVE Follows(Out[i], Out[i + 1])'
      BY DEF Unmixed, Out
    <3>1. PICK p \in Pieces, q \in Pieces : p = Out'[i] /\ q = Out'[i + 1]
      BY <2>3
    <3>2. /\ i \in 1..Len(Out') /\ i + 1 \in 1..Len(Out') /\ (i + 1) + m = (i + m) + 1
          /\ i + m \in 1..Len(Out) - 1
      BY <2>2, <2>3
    <3>3. p = Out[i + m] /\ q = Out[(i + m) + 1]
      <4>1. Out'[i] = Out[i + m] /\ Out'[i + 1] = Out[(i + 1) + m]
        BY <2>3, <3>2
      <4> QED BY <3>1, <3>2, <4>1
    <3>4. Follows(p, q) /\ p.id \in Ids
      BY <3>2, <3>3 DEF TransportInv, Unmixed, Out, Pieces
    <3>5. Follows(p, q)'
      BY <2>4, <3>4 DEF Follows
    <3> QED BY <3>1, <3>5
  <2>9. ASSUME NEW j \in Jobs PROVE JobOK(j)'
    <3>1. JobOK(j)
      BY DEF TransportInv
    <3>2. ASSUME Partly(j), job[j].done < Parts
          PROVE  Out' # <<>> /\ Out'[Len(Out')] = [id |-> job[j].id, n |-> job[j].done]
      <4>1. Out[Len(Out)] = [id |-> job[j].id, n |-> job[j].done]
        BY <3>1, <3>2 DEF JobOK
      <4>2. Out' # <<>>
        BY <1>5, <2>6, <3>2, <4>1, Sizes
      <4> QED BY <2>5, <4>1, <4>2
    <3> QED BY <1>1, <3>1, <3>2 DEF JobOK, Partly, Holds
  <2>10. OneEach' /\ Counted'
    BY <1>1 DEF TransportInv, OneEach, Live, Counted
  <2> QED BY <1>3, <2>7, <2>8, <2>9, <2>10 DEF TransportInv
<1> QED BY <1>4, <1>5

LEMMA FlowKeeps ==
    ASSUME TransportInv, Flow
    PROVE  TransportInv'
<1>1. /\ buffer \in Seq(Pieces) /\ pipe \in Seq(Pieces) /\ buffer # <<>>
      /\ Len(buffer) <= 1 /\ Len(pipe) < Room /\ pipe' = pipe \o buffer /\ buffer' = <<>>
      /\ UNCHANGED <<closed, pending, job, queue, row, owed>>
  BY Parted DEF Flow
<1>2. Taken' = Taken
  <2>1. (pipe \o buffer) \o <<>> = pipe \o buffer
    BY <1>1, TakenMoves
  <2> QED BY <1>1, <2>1 DEF Taken
<1>3. pipe' \in Seq(Pieces) /\ Len(pipe') <= Room
  <2>1. pipe' \in Seq(Pieces) /\ Len(pipe') = Len(pipe) + Len(buffer)
        /\ Len(pipe) \in Nat /\ Len(buffer) \in Nat
    BY <1>1, Joined
  <2> QED BY <1>1, <2>1, Sizes
<1>4. buffer' \in Seq(Pieces) /\ Len(buffer') <= 1
  BY <1>1
<1>5. TypeOK'
  BY <1>1, <1>3, <1>4, Parted DEF TypeOK
<1>6. Out' = Out
  BY <1>1, <1>2 DEF Out
<1> QED BY <1>1, <1>5, <1>6, StillKeeps

LEMMA TransportStep == TransportInv /\ [Next]_vars => TransportInv'
<1> SUFFICES ASSUME TransportInv, [Next]_vars PROVE TransportInv'
  OBVIOUS
<1>1. CASE \E i \in Ids : Refuse(i) \/ \E j \in Jobs : Accept(j, i)
  BY <1>1, RefuseKeeps, AcceptKeeps
<1>2. CASE \E j \in Jobs : Answer(j)
  <2>1. PICK j \in Jobs : Answer(j)
    BY <1>2
  <2>2. j \in Tasks /\ closed' \in BOOLEAN
    BY <2>1, Parted DEF Answer
  <2> QED BY <2>1, <2>2, BeginKeeps DEF Answer
<1>3. CASE Close
  BY <1>3, Parted, BeginKeeps DEF Close
<1>4. CASE \E j \in Jobs : Write(j) \/ Release(j)
  BY <1>4, WriteKeeps, ReleaseKeeps
<1>5. CASE \E j \in Tasks : Finish(j) \/ TimeOut(j)
  BY <1>5, FinishKeeps, TimeOutKeeps
<1>6. CASE Flow \/ ReadPiece \/ Tick
  BY <1>6, FlowKeeps, ReadKeeps, TickKeeps
<1>7. CASE UNCHANGED vars
  <2>1. TypeOK' /\ Out' = Out
    BY <1>7, Parted DEF vars, TypeOK, Out, Taken
  <2> QED BY <1>7, <2>1, StillKeeps DEF vars
<1> QED BY <1>1, <1>2, <1>3, <1>4, <1>5, <1>6, <1>7 DEF Next

LEMMA TransportInitially == Init => TransportInv
<1> SUFFICES ASSUME Init PROVE TransportInv
  OBVIOUS
<1>1. job = [j \in Tasks |->
            IF j = Closer THEN [Unused EXCEPT !.st = "serving", !.done = Parts]
            ELSE Unused]
  BY DEF Init
<1>2. job \in [Tasks -> JobRecords]
  <2>1. PICK y \in JobRecords : y = Unused
    BY UnusedTyped
  <2>2. [y EXCEPT !.st = "serving", !.done = Parts] \in JobRecords
    <3>1. PICK n \in 0..Parts : n = Parts
      BY Sizes
    <3> QED BY <3>1 DEF JobRecords
  <2> QED BY <1>1, <2>1, <2>2
<1>3. \A j \in Jobs : job[j].st = "free"
  BY <1>1, Sizes, UnusedTyped DEF Tasks
<1>4. Out = <<>> /\ Len(Out) = 0
  BY DEF Init, Out, Taken
<1>5. TypeOK
  <2>1. <<>> \in Seq(Tasks) /\ <<>> \in Seq(Pieces) /\ Len(<<>>) <= Room /\ Len(<<>>) <= 1
    BY Sizes
  <2> QED BY <1>2, <2>1 DEF Init, TypeOK
<1>6. Counted
  BY FS_EmptySet, Sizes DEF Init, Counted
<1>7. OneEach /\ EndOK /\ \A j \in Jobs : JobOK(j)
  BY <1>3, <1>4 DEF OneEach, Live, EndOK, JobOK, Partly
<1>8. Unmixed
  BY <1>4 DEF Unmixed, Out
<1> QED BY <1>5, <1>6, <1>7, <1>8 DEF TransportInv

\* The inductive invariant.
THEOREM Transports == Spec => []TransportInv
BY TransportInitially, TransportStep, PTL DEF Spec

-------------------------------------------------------------------------------
(* What the transport promises *)

\* The types of the transport's state.
THEOREM TransportTyped == Spec => []TypeOK
<1>1. TransportInv => TypeOK
  BY DEF TransportInv
<1> QED BY <1>1, Transports, PTL

\* What stdout holds back is of a request that counts and is not about to be released.
HeldInv ==
    \A i \in 1..Len(buffer) :
        /\ buffer[i].id \in pending
        /\ \A j \in Jobs : job[j].st = "written" => job[j].id # buffer[i].id

LEMMA HeldStep == TransportInv /\ HeldInv /\ [Next]_vars => HeldInv'
<1> SUFFICES ASSUME TransportInv, HeldInv, [Next]_vars PROVE HeldInv'
  OBVIOUS
<1>1. /\ job \in [Tasks -> JobRecords] /\ Jobs \subseteq Tasks /\ Closer \notin Jobs
      /\ buffer \in Seq(Pieces)
  BY Parted, Sizes
<1>2. CASE \E j \in Jobs : Write(j)
  <2>1. PICK k \in Jobs : Write(k)
    BY <1>2
  <2>2. PICK x : x = [id |-> job[k].id, n |-> job[k].done + 1]
    OBVIOUS
  <2>3. buffer' = <<x>> /\ x.id = job[k].id /\ pending' = pending /\ job[k].st = "sending"
    BY <2>1, <2>2 DEF Write, CanWrite
  <2>4. Len(buffer') = 1 /\ buffer'[1] = x
    BY <2>3
  <2>5. job[k].id \in pending
    BY <2>3 DEF TransportInv, JobOK
  <2>6. ASSUME NEW j \in Jobs, job'[j].st = "written" PROVE job'[j].id # x.id
    <3>1. j # k
      <4>1. PICK y \in JobRecords : y = job[k]
        BY <1>1
      <4>2. job'[k] = [y EXCEPT !.done = y.done + 1]
        BY <1>1, <2>1, <4>1 DEF Write
      <4>3. job'[k].st = y.st
        BY <4>2 DEF JobRecords
      <4> QED BY <2>3, <2>6, <4>1, <4>3
    <3>2. job'[j] = job[j]
      BY <1>1, <2>1, <3>1 DEF Write
    <3> QED BY <2>3, <2>6, <3>1, <3>2 DEF TransportInv, OneEach, Live
  <2>7. \A i \in 1..Len(buffer') : i = 1
    BY <2>4
  <2> QED BY <2>3, <2>4, <2>5, <2>6, <2>7 DEF HeldInv
<1>3. CASE Flow
  <2>1. buffer' = <<>>
    BY <1>3 DEF Flow
  <2>2. Len(buffer') = 0
    BY <2>1
  <2> QED BY <2>2 DEF HeldInv
<1>4. CASE \E j \in Tasks : Finish(j)
  <2>1. PICK k \in Tasks : Finish(k)
    BY <1>4
  <2>2. buffer' = buffer /\ pending' = pending /\ \A j \in Tasks \ {k} : job'[j] = job[j]
    BY <1>1, <2>1 DEF Finish
  <2>3. CASE k = Closer
    BY <1>1, <2>2, <2>3 DEF HeldInv
  <2>4. CASE k # Closer
    <3>1. buffer = <<>>
      BY <2>1, <2>4 DEF Finish, CanFinish, Flushed
    <3>2. Len(buffer') = 0
      BY <2>2, <3>1
    <3> QED BY <3>2 DEF HeldInv
  <2> QED BY <2>3, <2>4
<1>5. CASE \E j \in Jobs : Release(j)
  <2>1. PICK k \in Jobs : Release(k)
    BY <1>5
  <2>2. /\ buffer' = buffer /\ pending' = pending \ {job[k].id} /\ job[k].st = "written"
        /\ job' = [job EXCEPT ![k] = Unused]
    BY <2>1 DEF Release
  <2>3. job'[k].st = "free" /\ \A j \in Tasks \ {k} : job'[j] = job[j]
    BY <1>1, <2>2, UnusedTyped
  <2>4. \A j \in Jobs : job'[j].st = "written" => j # k
    BY <2>3
  <2> QED BY <1>1, <2>2, <2>3, <2>4 DEF HeldInv
<1>6. CASE \E i \in Ids : Refuse(i) \/ \E j \in Jobs : Accept(j, i)
  BY <1>1, <1>6 DEF Refuse, Accept, HeldInv
<1>7. CASE \E j \in Tasks : TimeOut(j)
  <2>1. PICK k \in Tasks : TimeOut(k)
    BY <1>7
  <2>2. buffer' = buffer /\ pending' = pending /\ job' = [job EXCEPT ![k] = Unused]
    BY <2>1 DEF TimeOut
  <2>3. job'[k].st = "free" /\ \A j \in Tasks \ {k} : job'[j] = job[j]
    BY <1>1, <2>2, UnusedTyped
  <2> QED BY <1>1, <2>2, <2>3 DEF HeldInv
<1>8. CASE Close \/ \E j \in Jobs : Answer(j)
  <2>1. PICK k \in Tasks : Begin(k)
    BY <1>1, <1>8, Parted DEF Close, Answer
  <2>2. buffer' = buffer /\ pending' = pending
    BY <1>8 DEF Close, Answer
  <2>3. job'[k].st = "sending" /\ \A j \in Tasks \ {k} : job'[j] = job[j]
    <3>1. PICK y \in JobRecords : y = job[k]
      BY <1>1
    <3>2. job'[k] = [y EXCEPT !.st = "sending", !.left = WriteTime]
      BY <1>1, <2>1, <3>1 DEF Begin
    <3>3. job'[k].st = "sending"
      BY <3>2 DEF JobRecords
    <3> QED BY <1>1, <2>1, <3>3 DEF Begin
  <2> QED BY <1>1, <2>2, <2>3 DEF HeldInv
<1>9. CASE ReadPiece \/ UNCHANGED vars
  BY <1>9 DEF ReadPiece, vars, HeldInv
<1>10. CASE Tick
  <2>1. \A j \in Tasks : job'[j].st = job[j].st /\ job'[j].id = job[j].id
    BY <1>1, <1>10 DEF Tick, JobRecords
  <2>2. buffer' = buffer /\ pending' = pending
    BY <1>10 DEF Tick
  <2> QED BY <1>1, <2>1, <2>2 DEF HeldInv
<1> QED BY <1>2, <1>3, <1>4, <1>5, <1>6, <1>7, <1>8, <1>9, <1>10 DEF Next

LEMMA HeldBack == Spec => []HeldInv
<1>1. Init => HeldInv
  <2> SUFFICES ASSUME Init PROVE HeldInv
    OBVIOUS
  <2>1. Len(buffer) = 0
    BY DEF Init
  <2> QED BY <2>1 DEF HeldInv
<1> QED BY <1>1, HeldStep, Transports, PTL DEF Spec

\* No more requests are served or answered than may be pending, no two of one id
\* (stdio.rs:21-23): their ids are among those that count, as are those of what stdout
\* holds back.
THEOREM BoundedAnswers == Spec => []AnswersBounded
<1>1. TransportInv /\ HeldInv => AnswersBounded
  <2> SUFFICES ASSUME TransportInv, HeldInv PROVE AnswersBounded
    OBVIOUS
  <2> DEFINE ids == [j \in Live |-> job[j].id]
  <2>1. \A j \in Live : job[j].id \in pending
    BY DEF TransportInv, JobOK, Live
  <2>2. ids \in Injection(Live, pending)
    BY <2>1 DEF TransportInv, OneEach, Injection, IsInjective
  <2>3. IsFiniteSet(pending) /\ Cardinality(pending) <= MaxPending
    BY DEF TransportInv, Counted
  <2>4. IsFiniteSet(Live) /\ Cardinality(Live) <= Cardinality(pending)
    BY <2>2, <2>3, FS_Injection
  <2>5. Cardinality(Live) \in Nat /\ Cardinality(pending) \in Nat
    BY <2>3, <2>4, FS_CardinalityType
  <2>6. Cardinality(Live) <= MaxPending
    BY <2>3, <2>4, <2>5, Sizes
  <2>7. \A i \in 1..Len(buffer) : buffer[i].id \in pending
    BY DEF HeldInv
  <2> QED BY <2>6, <2>7 DEF AnswersBounded, TransportInv, OneEach
<1> QED BY <1>1, Transports, HeldBack, PTL

\* The pieces of an answer follow each other on stdout unless its write was given up.
THEOREM PiecesFollow == Spec => []Unmixed
<1>1. TransportInv => Unmixed
  BY DEF TransportInv
<1> QED BY <1>1, Transports, PTL

-------------------------------------------------------------------------------
(* The lines *)

\* What the peer has of the present line begins an answer, and it is a part of that
\* answer unless a write was given up in it.
Torn == \E i \in 1..Len(row) : GivenUp(row[i].id)
LineInv ==
    /\ Out # <<>> => Out[1].n = 1
    /\ \A i \in 1..Len(row) : row[i].n # Parts
    /\ Whole(row) \/ Torn

LEMMA PieceParts ==
    ASSUME NEW s \in Seq(Pieces), NEW i \in 1..Len(s)
    PROVE  s[i].id \in Ids /\ s[i].n \in 1..Parts
<1>1. PICK p \in Pieces : p = s[i]
  OBVIOUS
<1> QED BY <1>1 DEF Pieces

\* A job keeps its id while it begins, writes and finishes.
LEMMA SameId ==
    ASSUME job \in [Tasks -> JobRecords], NEW k \in Tasks, Begin(k) \/ Write(k) \/ Finish(k)
    PROVE  job'[k].id = job[k].id /\ \A j \in Tasks \ {k} : job'[j] = job[j]
<1>1. PICK y \in JobRecords : y = job[k]
  OBVIOUS
<1>2. CASE Begin(k)
  <2>1. job'[k] = [y EXCEPT !.st = "sending", !.left = WriteTime]
    BY <1>1, <1>2 DEF Begin, JobRecords
  <2>2. job'[k].id = y.id
    BY <2>1 DEF JobRecords
  <2> QED BY <1>1, <1>2, <2>2 DEF Begin
<1>3. CASE Write(k)
  <2>1. job'[k] = [y EXCEPT !.done = y.done + 1]
    BY <1>1, <1>3 DEF Write, JobRecords
  <2>2. job'[k].id = y.id
    BY <2>1 DEF JobRecords
  <2> QED BY <1>1, <1>3, <2>2 DEF Write
<1>4. CASE Finish(k)
  <2>1. job'[k] = [y EXCEPT !.st = "written", !.left = 0]
    BY <1>1, <1>4 DEF Finish, JobRecords
  <2>2. job'[k].id = y.id
    BY <2>1 DEF JobRecords
  <2> QED BY <1>1, <1>4, <2>2 DEF Finish
<1> QED BY <1>2, <1>3, <1>4

\* A step takes an id that is free, and frees one that a job has.
LEMMA IdsMove ==
    ASSUME TransportInv, [Next]_vars
    PROVE  /\ \A j \in Jobs : \/ job'[j].st = "free" \/ job'[j].id \notin pending
                              \/ (job[j].st # "free" /\ job'[j].id = job[j].id)
           /\ \A i \in pending \ pending' : \E j \in Live : job[j].id = i
<1>1. job \in [Tasks -> JobRecords] /\ Jobs \subseteq Tasks /\ Closer \notin Jobs
  BY Parted, Sizes
<1>2. CASE \E i \in Ids : Refuse(i) \/ \E j \in Jobs : Accept(j, i)
  BY <1>1, <1>2 DEF Refuse, Accept, Admits
<1>3. CASE \E j \in Jobs : Answer(j) \/ Write(j)
  <2>1. PICK k \in Jobs : Answer(k) \/ Write(k)
    BY <1>3
  <2>2. pending' = pending /\ job[k].st # "free" /\ (Begin(k) \/ Write(k))
    BY <2>1 DEF Answer, Begin, Write, CanWrite
  <2> QED BY <1>1, <2>2, SameId
<1>4. CASE \E j \in Jobs : Release(j)
  <2>1. PICK k \in Jobs : Release(k)
    BY <1>4
  <2>2. /\ pending' = pending \ {job[k].id} /\ job' = [job EXCEPT ![k] = Unused]
        /\ job[k].st = "written"
    BY <2>1 DEF Release
  <2>3. job'[k].st = "free" /\ \A j \in Tasks \ {k} : job'[j] = job[j]
    BY <1>1, <2>2, UnusedTyped
  <2>4. \A j \in Jobs : \/ job'[j].st = "free" \/ (job[j].st # "free" /\ job'[j].id = job[j].id)
    BY <1>1, <2>3
  <2>5. k \in Live /\ \A i \in pending \ pending' : job[k].id = i
    BY <2>2 DEF Live
  <2> QED BY <2>4, <2>5
<1>5. CASE \E j \in Tasks : Finish(j)
  <2>1. PICK k \in Tasks : Finish(k)
    BY <1>5
  <2>2. pending' = pending /\ job[k].st # "free"
    BY <2>1 DEF Finish, CanFinish, Flushed, Written
  <2> QED BY <1>1, <2>1, <2>2, SameId
<1>6. CASE \E j \in Tasks : TimeOut(j)
  <2>1. PICK k \in Tasks : TimeOut(k)
    BY <1>6
  <2>2. pending' = pending /\ job' = [job EXCEPT ![k] = Unused]
    BY <2>1 DEF TimeOut
  <2>3. job'[k].st = "free" /\ \A j \in Tasks \ {k} : job'[j] = job[j]
    BY <1>1, <2>2, UnusedTyped
  <2> QED BY <1>1, <2>2, <2>3
<1>9. CASE Close
  <2>1. pending' = pending /\ Begin(Closer) /\ Closer \in Tasks
    BY <1>9, Parted DEF Close
  <2> QED BY <1>1, <2>1, SameId
<1>7. CASE Flow \/ ReadPiece \/ UNCHANGED vars
  BY <1>1, <1>7 DEF Flow, ReadPiece, vars
<1>8. CASE Tick
  <2>1. \A j \in Tasks : job'[j].st = job[j].st /\ job'[j].id = job[j].id
    BY <1>1, <1>8 DEF Tick, JobRecords
  <2> QED BY <1>1, <1>8, <2>1 DEF Tick
<1> QED BY <1>2, <1>3, <1>4, <1>5, <1>6, <1>7, <1>8, <1>9 DEF Next

\* An id that was given up stays so.
LEMMA GivenUpKept ==
    ASSUME TransportInv, [Next]_vars
    PROVE  GivenUpStays
<1> SUFFICES ASSUME NEW i \in Ids, GivenUp(i) PROVE GivenUp(i)'
  BY DEF GivenUpStays
<1>1. i \in pending /\ \A j \in Jobs : job[j].st # "free" => job[j].id # i
  BY DEF GivenUp, Live
<1>2. i \in pending'
  BY <1>1, IdsMove DEF Live
<1>3. \A j \in Jobs : job'[j].st # "free" => job'[j].id # i
  BY <1>1, IdsMove
<1> QED BY <1>2, <1>3 DEF GivenUp, Live

\* Stdout is written at its end only, and a first piece first.
LEMMA FirstKept ==
    ASSUME TransportInv, LineInv, [Next]_vars, ~ReadPiece
    PROVE  row' = row /\ (Out' # <<>> => Out'[1].n = 1)
<1>1. row \in Seq(Pieces) /\ Taken \in Seq(Pieces) /\ Out \in Seq(Pieces)
  BY Parted
<1>2. CASE \E j \in Jobs : Write(j)
  <2>1. PICK j \in Jobs : Write(j)
    BY <1>2
  <2>2. job[j] \in JobRecords /\ job[j].done \in 0..Parts /\ job[j].id \in Ids
    BY Parted, JobParts
  <2>3. PICK x : x = [id |-> job[j].id, n |-> job[j].done + 1]
    OBVIOUS
  <2>4. x \in Pieces /\ x.n = job[j].done + 1
    BY <2>1, <2>2, <2>3, Sizes DEF Pieces, Write, CanWrite
  <2>5. row' = row /\ Taken' = Append(Taken, x)
    <3>1. row' = row /\ pipe' = pipe /\ buffer' = <<x>> /\ buffer = <<>>
      BY <2>1, <2>3 DEF Write, CanWrite
    <3>2. pipe \in Seq(Pieces) /\ buffer \in Seq(Pieces)
      BY Parted
    <3> QED BY <2>4, <3>1, <3>2, TakenMoves DEF Taken
  <2>6. /\ Out' \in Seq(Pieces) /\ Len(Out') = Len(Out) + 1 /\ Out'[Len(Out')] = x
        /\ \A i \in 1..Len(Out) : Out'[i] = Out[i]
    BY <1>1, <2>4, <2>5, Grown DEF Out
  <2>7. CASE Out = <<>>
    <3>1. ~(Partly(j) /\ job[j].done < Parts)
      BY <2>7 DEF TransportInv, JobOK
    <3>2. job[j].done = 0
      BY <2>1, <2>2, <3>1, Sizes DEF Partly, Write, CanWrite
    <3> QED BY <2>4, <2>5, <2>6, <2>7, <3>2
  <2>8. CASE Out # <<>>
    <3>1. 1 \in 1..Len(Out)
      BY <1>1, <2>8
    <3> QED BY <2>5, <2>6, <2>8, <3>1 DEF LineInv
  <2> QED BY <2>7, <2>8
<1>3. CASE Flow
  <2>1. pipe \in Seq(Pieces) /\ buffer \in Seq(Pieces)
    BY Parted
  <2>2. (pipe \o buffer) \o <<>> = pipe \o buffer
    BY <2>1, TakenMoves
  <2>3. row' = row /\ Taken' = Taken
    BY <1>3, <2>2 DEF Flow, Taken
  <2> QED BY <2>3 DEF Out, LineInv
<1>4. CASE ~Flow /\ ~\E j \in Jobs : Write(j)
  <2>1. row' = row /\ pipe' = pipe /\ buffer' = buffer
    BY <1>4 DEF Next, vars, Refuse, Accept, Answer, Release, Finish, TimeOut, Close, Tick
  <2> QED BY <2>1 DEF Out, Taken, LineInv
<1> QED BY <1>2, <1>3, <1>4

\* The piece that is read: it is the line's first and begins an answer, or it goes on
\* with what precedes it, or a write was given up there.
LEMMA NextPiece ==
    ASSUME TransportInv, LineInv, pipe # <<>>
    PROVE  /\ row = <<>> => Head(pipe).n = 1
           /\ row # <<>> /\ ~Torn =>
                /\ Head(pipe).id = row[1].id /\ Head(pipe).n = Len(row) + 1
                /\ \A i \in 1..Len(row) : row[i] = [id |-> row[1].id, n |-> i]
<1>1. row \in Seq(Pieces) /\ Taken \in Seq(Pieces) /\ Out \in Seq(Pieces)
  BY Parted
<1>2. Out[Len(row) + 1] = Head(Taken) /\ Len(Out) = Len(row) + Len(Taken) /\ Len(Taken) > 0
  <2>1. pipe \in Seq(Pieces) /\ buffer \in Seq(Pieces) /\ pipe # <<>>
    BY Parted
  <2>2. Taken # <<>>
    BY <2>1, TakenMoves DEF Taken
  <2> QED BY <1>1, <2>2, Moved, Joined DEF Out
<1>3. \A i \in 1..Len(row) : Out[i] = row[i]
  <2>1. \A i \in 1..Len(row) + Len(Taken) :
            Out[i] = IF i <= Len(row) THEN row[i] ELSE Taken[i - Len(row)]
    BY <1>1, Joined DEF Out
  <2> QED BY <1>1, <1>2, <2>1
<1>4. ASSUME row = <<>> PROVE Head(Taken).n = 1
  <2>1. Len(row) = 0
    BY <1>4
  <2>2. Out # <<>>
    BY <1>1, <1>2, <2>1
  <2> QED BY <1>2, <2>1, <2>2 DEF LineInv
<1>5. ASSUME row # <<>>, ~Torn
      PROVE  /\ Head(Taken).id = row[1].id /\ Head(Taken).n = Len(row) + 1
             /\ \A i \in 1..Len(row) : row[i] = [id |-> row[1].id, n |-> i]
  <2>1. PICK m \in Nat : m = Len(row)
    BY <1>1
  <2>2. m \in 1..Len(row) /\ m \in 1..Len(Out) - 1
    BY <1>1, <1>2, <1>5, <2>1
  <2>3. \A i \in 1..Len(row) : row[i] = [id |-> row[1].id, n |-> i]
    BY <1>5 DEF LineInv, Whole
  <2>4. Out[m] = row[m] /\ row[m].id = row[1].id /\ row[m].n = m
    <3>1. PICK d : d = row[1].id
      OBVIOUS
    <3>2. row[m] = [id |-> d, n |-> m]
      BY <2>2, <2>3, <3>1
    <3> QED BY <1>3, <2>2, <3>1, <3>2
  <2>5. Follows(Out[m], Out[m + 1])
    BY <2>2 DEF TransportInv, Unmixed, Out
  <2>6. row[m].n # Parts /\ ~GivenUp(row[m].id)
    BY <1>5, <2>2 DEF LineInv, Torn
  <2> QED BY <1>2, <2>1, <2>3, <2>4, <2>5, <2>6 DEF Follows
<1>6. Head(Taken) = Head(pipe)
  <2>1. pipe \in Seq(Pieces) /\ buffer \in Seq(Pieces) /\ pipe # <<>>
    BY Parted
  <2> QED BY <2>1, TakenMoves DEF Taken
<1> QED BY <1>4, <1>5, <1>6

LEMMA LineStep == TransportInv /\ LineInv /\ [Next]_vars => LineInv'
<1> SUFFICES ASSUME TransportInv, LineInv, [Next]_vars PROVE LineInv'
  OBVIOUS
<1>1. row \in Seq(Pieces) /\ Taken \in Seq(Pieces) /\ Out \in Seq(Pieces)
  BY Parted
<1>2. \A i \in 1..Len(row) : row[i].id \in Ids
  BY <1>1, PieceParts
<1>3. ASSUME row' = row PROVE Torn => Torn'
  BY <1>2, <1>3, GivenUpKept DEF Torn, GivenUpStays
<1>4. CASE ~ReadPiece
  <2>1. row' = row /\ (Out' # <<>> => Out'[1].n = 1)
    BY <1>4, FirstKept
  <2> QED BY <1>3, <2>1 DEF LineInv
<1>5. CASE ReadPiece
  <2>1. /\ pipe # <<>> /\ Taken # <<>> /\ Taken' = Tail(Taken) /\ Head(Taken) = Head(pipe)
        /\ row' = IF Head(Taken).n = Parts THEN <<>> ELSE Append(row, Head(Taken))
    <3>1. buffer \in Seq(Pieces) /\ pipe \in Seq(Pieces) /\ pipe # <<>>
      BY <1>5, Parted DEF ReadPiece
    <3>2. Taken # <<>> /\ Head(Taken) = Head(pipe) /\ Tail(pipe) \o buffer = Tail(Taken)
      BY <3>1, TakenMoves DEF Taken
    <3>3. Taken' = Tail(Taken)
      BY <1>5, <3>2 DEF ReadPiece, Taken
    <3>4. row' = IF Head(Taken).n = Parts THEN <<>> ELSE Append(row, Head(Taken))
      BY <1>5, <3>2 DEF ReadPiece
    <3> QED BY <3>1, <3>2, <3>3, <3>4
  <2>2. /\ Append(row, Head(Taken)) \in Seq(Pieces) /\ Tail(Taken) \in Seq(Pieces)
        /\ Head(Taken) \in Pieces
        /\ Len(Tail(Taken)) = Len(Taken) - 1 /\ Len(Taken) > 0
        /\ Append(row, Head(Taken)) \o Tail(Taken) = Out
        /\ \A i \in 1..Len(Taken) - 1 : Tail(Taken)[i] = Out[i + Len(row) + 1]
        /\ Out[Len(row) + 1] = Head(Taken)
        /\ Len(Out) = Len(row) + Len(Taken)
    BY <1>1, <2>1, ReadMoves
  <2>3. CASE Head(Taken).n = Parts
    <3>1. row' = <<>> /\ Out' = Tail(Taken)
      BY <2>1, <2>2, <2>3 DEF Out
    <3>2. ASSUME Out' # <<>> PROVE Out'[1].n = 1
      <4>1. PICK m \in Nat : m = Len(row) + 1
        BY <1>1
      <4>2. 1 \in 1..Len(Taken) - 1 /\ m \in 1..Len(Out) - 1
        BY <1>1, <2>2, <3>1, <3>2, <4>1
      <4>3. Out'[1] = Out[m + 1]
        <5>1. Out'[1] = Out[1 + Len(row) + 1]
          BY <2>2, <3>1, <4>2
        <5>2. 1 + Len(row) + 1 = m + 1
          BY <1>1, <4>1
        <5> QED BY <5>1, <5>2
      <4>4. Follows(Out[m], Out[m + 1]) /\ Out[m].n = Parts
        BY <2>2, <2>3, <4>1, <4>2 DEF TransportInv, Unmixed, Out
      <4>5. Out[m + 1].n \in 1..Parts
        BY <1>1, <4>2, PieceParts
      <4> QED BY <4>3, <4>4, <4>5, Sizes DEF Follows
    <3>3. Whole(row)'
      BY <3>1 DEF Whole
    <3> QED BY <3>1, <3>2, <3>3 DEF LineInv
  <2>4. CASE Head(Taken).n # Parts
    <3>1. row' = Append(row, Head(Taken)) /\ Out' = Out
      BY <2>1, <2>2, <2>4 DEF Out
    <3>2. /\ Len(row') = Len(row) + 1 /\ row'[Len(row) + 1] = Head(Taken)
          /\ \A i \in 1..Len(row) : row'[i] = row[i]
      BY <1>1, <2>2, <3>1
    <3>3. \A i \in 1..Len(row') : i \in 1..Len(row) \/ i = Len(row) + 1
      BY <1>1, <3>2
    <3>4. \A i \in 1..Len(row') : row'[i].n # Parts
      BY <2>4, <3>2, <3>3 DEF LineInv
    <3>5. ASSUME Torn PROVE Torn'
      <4>1. PICK i \in 1..Len(row) : GivenUp(row[i].id)
        BY <3>5 DEF Torn
      <4>2. i \in 1..Len(row') /\ row'[i] = row[i]
        BY <1>1, <3>2
      <4>3. GivenUp(row[i].id)'
        <5>1. PICK d \in Ids : d = row[i].id
          BY <1>2
        <5>2. GivenUp(d)'
          BY <4>1, <5>1, GivenUpKept DEF GivenUpStays
        <5>3. row'[i].id = d
          BY <4>2, <5>1
        <5> QED BY <5>2, <5>3, <4>2
      <4> QED BY <4>2, <4>3 DEF Torn
    <3>6. ASSUME ~Torn PROVE Whole(row)'
      <4>1. CASE row = <<>>
        <5>1. Head(Taken).n = 1
          BY <2>1, <4>1, NextPiece
        <5>2. Len(row') = 1 /\ row'[1] = Head(Taken)
          BY <3>2, <4>1
        <5>3. Head(Taken) = [id |-> Head(Taken).id, n |-> 1]
          BY <2>2, <5>1 DEF Pieces
        <5> QED BY <5>2, <5>3 DEF Whole
      <4>2. CASE row # <<>>
        <5>1. /\ Head(Taken).id = row[1].id /\ Head(Taken).n = Len(row) + 1
              /\ \A i \in 1..Len(row) : row[i] = [id |-> row[1].id, n |-> i]
          BY <2>1, <3>6, <4>2, NextPiece
        <5>2. Head(Taken) = [id |-> row[1].id, n |-> Len(row) + 1]
          BY <2>2, <5>1 DEF Pieces
        <5>3. row'[1] = row[1]
          BY <1>1, <3>2, <4>2
        <5>4. \A i \in 1..Len(row') : row'[i] = [id |-> row'[1].id, n |-> i]
          BY <3>2, <3>3, <5>1, <5>2, <5>3
        <5> QED BY <5>4 DEF Whole
      <4> QED BY <4>1, <4>2
    <3> QED BY <3>1, <3>4, <3>5, <3>6 DEF LineInv
  <2> QED BY <2>3, <2>4
<1> QED BY <1>4, <1>5

LEMMA LinesBegun == Spec => []LineInv
<1>1. Init => LineInv
  <2> SUFFICES ASSUME Init PROVE LineInv
    OBVIOUS
  <2>1. row = <<>> /\ Len(row) = 0 /\ Out = <<>>
    BY DEF Init, Out, Taken
  <2> QED BY <2>1 DEF LineInv, Whole
<1> QED BY <1>1, LineStep, Transports, PTL DEF Spec

\* A line that ends on stdout is one whole answer, or has in it a piece of one whose
\* write was given up: nothing else tears a line (send, whose time limit drops it).
OnlyGivenUpTears ==
    [][Len(row') < Len(row) => (Whole(row) /\ Head(pipe).id = row[1].id) \/ Torn]_vars

\* Whatever the sizes and times, a line is torn by a write that was given up, or not at
\* all (send, stdio.rs:67-73).
THEOREM TornByTimeout == Spec => OnlyGivenUpTears
<1>1. ASSUME TransportInv, LineInv, [Next]_vars, Len(row') < Len(row), ~Torn
      PROVE  Whole(row) /\ Head(pipe).id = row[1].id
  <2>1. row \in Seq(Pieces)
    BY <1>1, Parted
  <2>2. ReadPiece
    BY <1>1, <2>1, FirstKept
  <2>3. pipe # <<>> /\ row # <<>>
    <3>1. pipe # <<>>
      BY <2>2 DEF ReadPiece
    <3>2. row # <<>>
      <4>1. row' \in Seq(Pieces)
        BY <1>1, TransportStep DEF TransportInv, TypeOK
      <4>2. Len(row') \in Nat
        BY <4>1
      <4>3. row = <<>> => Len(row) = 0
        OBVIOUS
      <4> QED BY <1>1, <4>2, <4>3
    <3> QED BY <3>1, <3>2
  <2> QED BY <1>1, <2>3, NextPiece DEF LineInv
<1>2. TransportInv /\ LineInv /\ [Next]_vars
        => [Len(row') < Len(row) => (Whole(row) /\ Head(pipe).id = row[1].id) \/ Torn]_vars
  BY <1>1
<1> QED BY <1>2, LinesBegun, Transports, PTL DEF Spec, OnlyGivenUpTears

\* As long as no write is given up, stdout carries whole answers only, as
\* docs/quickstart.md:99 has it.
THEOREM WholeWithoutTimeout ==
    Spec /\ [](\A i \in Ids : ~GivenUp(i)) => LinesAreMessages
<1>1. TransportInv /\ (\A i \in Ids : ~GivenUp(i)) => ~Torn
  BY Parted, PieceParts DEF Torn
<1>2. ~Torn /\ [Len(row') < Len(row) => (Whole(row) /\ Head(pipe).id = row[1].id) \/ Torn]_vars
        => [Len(row') < Len(row) => Whole(row) /\ Head(pipe).id = row[1].id]_vars
  OBVIOUS
<1> QED BY <1>1, <1>2, TornByTimeout, Transports, PTL DEF OnlyGivenUpTears, LinesAreMessages

=======================================================================================
