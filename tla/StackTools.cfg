\* Two calls at once, in every kind of process.
SPECIFICATION Spec
CONSTANTS
    Calls = {c1, c2}
    Empty = Empty
INVARIANTS ToolsAsListed Reconcilable
PROPERTY PartialUpdates
\* Every call ends.
CHECK_DEADLOCK FALSE
