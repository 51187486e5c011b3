\* Two files compete for one entry and one byte; two transfers at once, two subjects.
SPECIFICATION FairSpec
CONSTANTS
    Files = {f1, f2}
    Owners = {alice, bob}
    Transfers = {t1, t2}
    Sizes = {1}
    Capacity = 1
    MaxEntries = 1
    FileTTL = 2
    GrantTTL = 1
    MaxTokens = 2
    None = None
INVARIANTS LatestGrantOnly StoreBounded
PROPERTIES FreshUse ImplementsOneShot ExpiredErased
\* A store that was shut down stays still.
CHECK_DEADLOCK FALSE
