\* A fetcher, a caller that profits and one that does not; one key that comes and
\* goes.
SPECIFICATION FairSpec
CONSTANTS
    Callers = {c1, c2, c3}
    Keys = {k1}
    CacheTTL = 3
    Interval = 4
    FetchTime = 2
PROPERTIES BoundedTrust RefusedForCause FetchesBounded CallersAnswered
