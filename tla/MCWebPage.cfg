CONSTANTS
    Deposits = {d1, d2}
    MaxPolls = 2
    MaxClicks = 1
    MaxChanges = 2
SPECIFICATION FairSpec
PROPERTIES
    OnlyOvertakenRepliesGoBack
    RefusedOnlyIfStale
    ScreenCatchesUp
CHECK_DEADLOCK FALSE
