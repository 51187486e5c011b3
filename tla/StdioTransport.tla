------------------------------ MODULE StdioTransport ------------------------------
(***************************************************************************)
(* The requests and answers of the stdio transport.  A request is pending  *)
(* from its receipt until its answer has been written; answers are written *)
(* by tasks of their own, one at a time under the writer's mutex, each     *)
(* within a time that includes the wait for the mutex.  Stdout takes a     *)
(* piece at a time and a thread of its own writes that to the pipe, also   *)
(* after the task that gave it has ended.  The peer reads when it likes,   *)
(* or never.                                                               *)
(*                                                                         *)
(* Input arrives here as whole requests, as StdioFrames cuts them.         *)
(***************************************************************************)
EXTENDS Naturals, Sequences, SequencesExt

CONSTANTS
    Ids,          \* request ids of the peer
    MaxPending,   \* MAX_PENDING_REQUESTS
    Jobs,         \* bound: requests between receipt and release at a time
    Closer,       \* the task that closes the transport
    Parts,        \* pieces in which stdout takes an answer
    Room,         \* pieces that the pipe takes before the peer reads
    WriteTime     \* WRITE_TIMEOUT in ticks

ASSUME TransportPositive ==
    /\ {MaxPending, Parts, Room, WriteTime} \subseteq Nat \ {0}
    /\ Ids # {} /\ Closer \notin Jobs

VARIABLES
    closed,    \* nothing more is received
    pending,   \* ids of requests that count
    job,       \* job[j]: where a request and its answer are
    queue,     \* tasks at the writer's mutex, the first one holding it
    buffer,    \* the piece that stdout has taken and not yet written to the pipe
    pipe,      \* pieces in the pipe
    row,       \* pieces it has read of the present output line
    owed       \* ids it has sent and not seen answered

vars == <<closed, pending, job, queue, buffer, pipe, row, owed>>

Tasks == Jobs \cup {Closer}
Pieces == [id : Ids, n : 1..Parts]
\* free; in its handler; sending, with done pieces out and left ticks to go;
\* written, its id still counted.
JobRecords ==
    [st : {"free", "serving", "sending", "written"}, id : Ids,
     done : 0..Parts, left : 0..WriteTime]
Unused == [st |-> "free", id |-> CHOOSE i \in Ids : TRUE, done |-> 0, left |-> 0]

TypeOK ==
    /\ closed \in BOOLEAN
    /\ pending \subseteq Ids /\ owed \subseteq Ids
    /\ job \in [Tasks -> JobRecords]
    /\ queue \in Seq(Tasks)
    /\ buffer \in Seq(Pieces) /\ pipe \in Seq(Pieces) /\ row \in Seq(Pieces)
    /\ Len(buffer) <= 1 /\ Len(pipe) <= Room

Init ==
    /\ closed = FALSE /\ pending = {} /\ owed = {}
    \* The closer has nothing to write.
    /\ job = [j \in Tasks |->
            IF j = Closer THEN [Unused EXCEPT !.st = "serving", !.done = Parts]
            ELSE Unused]
    /\ queue = <<>> /\ buffer = <<>> /\ pipe = <<>> /\ row = <<>>

Sending == {j \in Tasks : job[j].st = "sending"}
Holds(j) == queue # <<>> /\ Head(queue) = j

-------------------------------------------------------------------------------
(* Requests *)

Admits(i) == Cardinality(pending) < MaxPending /\ i \notin pending

\* A request is received and counted.
Accept(j, i) ==
    /\ ~closed /\ Admits(i)
    /\ job[j].st = "free"
    /\ job' = [job EXCEPT ![j] =
                [st |-> "serving", id |-> i, done |-> 0, left |-> 0]]
    /\ pending' = pending \cup {i} /\ owed' = owed \cup {i}
    /\ UNCHANGED <<closed, queue, buffer, pipe, row>>

\* One too many, or one whose id is pending: the stream is closed.
Refuse(i) ==
    /\ ~closed /\ ~Admits(i)
    /\ closed' = TRUE /\ owed' = owed \cup {i}
    /\ UNCHANGED <<pending, job, queue, buffer, pipe, row>>

-------------------------------------------------------------------------------
(* Answers *)

Begin(j) ==
    /\ job[j].st = "serving"
    /\ job' = [job EXCEPT ![j].st = "sending", ![j].left = WriteTime]
    /\ queue' = Append(queue, j)

\* The handler is done and its answer handed to a task, which the SDK may do after
\* the stream was closed, too.
\* (Variant: the request counts no longer.)
AnswerReleasing(j) ==
    /\ Begin(j)
    /\ pending' = pending \ {job[j].id}
    /\ UNCHANGED <<closed, buffer, pipe, row, owed>>
Answer(j) ==
    /\ Begin(j)
    /\ UNCHANGED <<closed, pending, buffer, pipe, row, owed>>

\* The service closes the transport.
Close ==
    /\ closed' = TRUE
    /\ Begin(Closer)
    /\ UNCHANGED <<pending, buffer, pipe, row, owed>>

\* Stdout takes a piece of the answer once it has written the last one to the pipe.
\* (Variant: the mutex is not held.)
CanWriteAnyTime(j) ==
    /\ job[j].st = "sending" /\ job[j].done < Parts
    /\ buffer = <<>>
CanWrite(j) ==
    /\ job[j].st = "sending" /\ job[j].done < Parts
    /\ buffer = <<>> /\ Holds(j)
Write(j) ==
    /\ CanWrite(j)
    /\ buffer' = <<[id |-> job[j].id, n |-> job[j].done + 1]>>
    /\ job' = [job EXCEPT ![j].done = @ + 1]
    /\ UNCHANGED <<closed, pending, queue, pipe, row, owed>>

\* The thread behind stdout writes it to the pipe, whatever became of the task.
Flow ==
    /\ buffer # <<>> /\ Len(pipe) < Room
    /\ pipe' = pipe \o buffer /\ buffer' = <<>>
    /\ UNCHANGED <<closed, pending, job, queue, row, owed>>

\* All has been written and flushed to the pipe; the mutex comes free.  The closer's
\* shutdown of stdout may end without that.
Written(j) == job[j].st = "sending" /\ job[j].done = Parts /\ Holds(j)
Flushed(j) == Written(j) /\ buffer = <<>>
CanFinish(j) == Flushed(j) \/ (j = Closer /\ Written(j))
Finish(j) ==
    /\ CanFinish(j)
    /\ job' = [job EXCEPT ![j].st = "written", ![j].left = 0]
    /\ queue' = Tail(queue)
    /\ UNCHANGED <<closed, pending, buffer, pipe, row, owed>>

\* Then the id is counted no longer. (Variant: nobody sees to that.)
ReleaseNothing(j) ==
    /\ job[j].st = "written" /\ j # Closer
    /\ job' = [job EXCEPT ![j] = Unused]
    /\ UNCHANGED <<closed, pending, queue, buffer, pipe, row, owed>>
Release(j) ==
    /\ job[j].st = "written" /\ j # Closer
    /\ job' = [job EXCEPT ![j] = Unused]
    /\ pending' = pending \ {job[j].id}
    /\ UNCHANGED <<closed, queue, buffer, pipe, row, owed>>

\* A task that is dropped gives up the mutex or its place at it.
Leave(j) == \E i \in 1..Len(queue) : queue[i] = j /\ queue' = RemoveAt(queue, i)

\* The time is over and neither the write nor the flush can go on: the poll that ends
\* the task looks at them before it looks at the clock, and this step is that first
\* look.  The id goes on counting, though stdout may have taken all of the answer.
\* (Variant: time runs for the wait for the mutex only.)
TimeOutWaiting(j) ==
    /\ j \in Sending /\ job[j].left = 0
    /\ ~Holds(j)
    /\ job' = [job EXCEPT ![j] = Unused]
    /\ Leave(j)
    /\ UNCHANGED <<closed, pending, buffer, pipe, row, owed>>
TimeOut(j) ==
    /\ j \in Sending /\ job[j].left = 0
    /\ ~CanWrite(j) /\ ~Flushed(j)
    /\ job' = [job EXCEPT ![j] = Unused]
    /\ Leave(j)
    /\ UNCHANGED <<closed, pending, buffer, pipe, row, owed>>

-------------------------------------------------------------------------------
(* The peer and the clock *)

\* The peer reads a piece; the last one of an answer ends a line.  The line is an
\* answer if it consists of that answer's pieces.
Whole(r) == \A i \in 1..Len(r) : r[i] = [id |-> r[1].id, n |-> i]
ReadPiece ==
    /\ pipe # <<>>
    /\ pipe' = Tail(pipe)
    /\ LET r == Append(row, Head(pipe))
           ended == Head(pipe).n = Parts
       IN /\ row' = IF ended THEN <<>> ELSE r
          /\ owed' = IF ended /\ Whole(r) THEN owed \ {Head(pipe).id} ELSE owed
    /\ UNCHANGED <<closed, pending, job, queue, buffer>>

Tick ==
    /\ Sending # {}
    /\ \A j \in Sending : job[j].left > 0
    /\ job' = [j \in Tasks |->
                IF j \in Sending THEN [job[j] EXCEPT !.left = @ - 1] ELSE job[j]]
    /\ UNCHANGED <<closed, pending, queue, buffer, pipe, row, owed>>

Next ==
    \/ \E i \in Ids : Refuse(i) \/ \E j \in Jobs : Accept(j, i)
    \/ \E j \in Jobs : Answer(j) \/ Write(j) \/ Release(j)
    \/ \E j \in Tasks : Finish(j) \/ TimeOut(j)
    \/ Close \/ Flow \/ ReadPiece \/ Tick

Spec == Init /\ [][Next]_vars

\* Time passes, the runtime polls every task that can go on, and stdout writes what the
\* pipe has room for; no handler has to return, and the peer may stop sending and
\* reading.
FairSpec ==
    /\ Spec
    /\ WF_vars(Tick) /\ WF_vars(Flow)
    /\ \A j \in Tasks :
        WF_vars(Write(j)) /\ WF_vars(Finish(j)) /\ WF_vars(Release(j)) /\ WF_vars(TimeOut(j))

-------------------------------------------------------------------------------
(* Correctness *)

\* A peer that does not read cannot make answers pile up: no more requests are
\* being served or answered than may be pending, and no two of one id
\* (stdio.rs:21-23), and what stdout holds back is of a request that counts.
Live == {j \in Jobs : job[j].st # "free"}
AnswersBounded ==
    /\ Cardinality(Live) <= MaxPending
    /\ \A j, k \in Live : job[j].id = job[k].id => j = k
    /\ \A i \in 1..Len(buffer) : buffer[i].id \in pending

\* The pieces of an answer follow each other on stdout, unless its write was given
\* up: then its id stays pending with no task that sees to it.
Taken == pipe \o buffer
GivenUp(i) == i \in pending /\ \A j \in Live : job[j].id # i
Follows(p, q) ==
    \/ q.id = p.id /\ q.n = p.n + 1
    \/ q.n = 1 /\ (p.n = Parts \/ GivenUp(p.id))
Unmixed ==
    LET s == row \o Taken
    IN \A i \in 1..Len(s) - 1 : Follows(s[i], s[i + 1])

\* What is written on stdout is protocol messages only (docs/quickstart.md:99):
\* every line that ends is one whole answer.
LinesAreMessages ==
    [][Len(row') < Len(row) => Whole(row) /\ Head(pipe).id = row[1].id]_vars

\* No send lasts for ever, waiting for the mutex or for a peer that does not read,
\* and the transport can be closed behind them.
SendsEnd == \A j \in Tasks : job[j].st = "sending" ~> job[j].st # "sending"

\* A request ceases to count once all of its answer is in the pipe and its send has not
\* been given up before that, though the time of the send may run out in the same
\* moment.
AnsweredReleased ==
    \A i \in Ids :
        (\E j \in Live : job[j].id = i /\ job[j].done = Parts /\ buffer = <<>>)
            ~> i \notin pending

===============================================================================
