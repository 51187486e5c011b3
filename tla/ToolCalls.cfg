\* Walks: three items, pages of two, offsets up to one, two changes. Calls: texts of
\* five letters with a trace of two, at most two segments inline, room for two files,
\* lists and windows of two, times up to two.
SPECIFICATION ToolSpec
CONSTANTS
    Items = {1, 2, 3}
    Names = {1, 2}
    Limits = {0, 1, 2}
    PageSize = 2
    MaxOffset = 1
    MaxWindow = 3
    MaxChanges = 2
    Key <- MCKey
    Secret <- MCSecret
    Token <- MCToken
    MaxSegments = 2
    Letters = {1, 2}
    MaxText = 5
    MaxTrace = 2
    Room = 2
    Longest = 2
    Latest = 2
    Askers = {a1, a2, a3}
    VersionTTL = 2
    AttemptTime = 1
    ReuseTime = 1
INVARIANTS WalkIsExact NoOperationMissed
           NoLiteralInline OriginalAccounted OutcomeSurvives FilterExact ViewsAgree FormFits
PROPERTIES WalkEnds AskersServed
\* A walk ends, and a call is answered.
CHECK_DEADLOCK FALSE
