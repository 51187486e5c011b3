\* Pages of one: more similar names than the search may read.
SPECIFICATION Spec
CONSTANTS
    Ids = {i1, i2, i3}
    Names = {1, 2, 3, 4, 5}
    Similar = {1, 2, 3, 4}
    Exact = {2, 3}
    PageSize = 1
    MaxPages = 3
    MaxChanges = 2
    Gone = Gone
SYMMETRY IdSymmetry
INVARIANTS SoundChoice RightWhenQuiet ActsOnTarget ReadsBounded
\* A resolution ends.
CHECK_DEADLOCK FALSE
