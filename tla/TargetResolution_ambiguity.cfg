\* Pages of two; one resource changes during the search.
SPECIFICATION Spec
CONSTANTS
    Ids = {i1, i2, i3}
    Names = {1, 2, 3, 4}
    Similar = {1, 2, 3}
    Exact = {2, 3}
    PageSize = 2
    MaxPages = 2
    MaxChanges = 1
    Gone = Gone
SYMMETRY IdSymmetry
INVARIANT FailsOnAmbiguity
\* A resolution ends.
CHECK_DEADLOCK FALSE
