SPECIFICATION Spec
CONSTANTS
    Files = {f1}
    Owners = {alice}
    Transfers = {t1}
    Sizes = {1}
    Capacity = 1
    MaxEntries = 1
    FileTTL = 1
    GrantTTL = 1
    MaxTokens = 1
    None = None
INVARIANT ErasedOnShutdown
CHECK_DEADLOCK FALSE
