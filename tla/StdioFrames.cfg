\* Three lines of at most three bytes, two of them in the pipe at a time.
SPECIFICATION FramesSpec
CONSTANTS
    MaxFrame = 3
    MaxLines = 3
    PipeSize = 5
PROPERTY LinesDecided
\* A closed stream need do nothing more.
CHECK_DEADLOCK FALSE
