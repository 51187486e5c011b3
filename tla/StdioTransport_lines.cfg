\* Three ids, two may be pending; answers of two pieces, of which stdout takes two
\* before the peer reads.
SPECIFICATION Spec
CONSTANTS
    Ids = {i1, i2, i3}
    MaxPending = 2
    Jobs = {j1, j2, j3}
    Closer = Closer
    Parts = 2
    Room = 2
    WriteTime = 1
SYMMETRY TaskSymmetry
PROPERTIES LinesAreMessages
\* After the close nothing more has to happen.
CHECK_DEADLOCK FALSE
