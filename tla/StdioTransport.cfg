\* Two ids, two may be pending, three tasks; answers of two pieces and a pipe for
\* one.  The peer may stop reading at any moment.
SPECIFICATION FairSpec
CONSTANTS
    Ids = {i1, i2}
    MaxPending = 2
    Jobs = {j1, j2, j3}
    Closer = Closer
    Parts = 2
    Room = 1
    WriteTime = 2
INVARIANTS AnswersBounded Unmixed
PROPERTIES SendsEnd AnsweredReleased
\* After the close nothing more has to happen.
CHECK_DEADLOCK FALSE
