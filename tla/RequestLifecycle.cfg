\* Two requests and a permit; no symmetry, which TLC's liveness checking does not
\* support.
SPECIFICATION FairSpec
CONSTANTS
    Requests = {r1, r2}
    Limit = 1
INVARIANTS PermitConservation HonestReport
PROPERTIES NoLateSubmission DrainedStaysAtRest ImplementsContract PermitReturns
\* Requests are answered once.
CHECK_DEADLOCK FALSE
