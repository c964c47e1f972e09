CONSTANTS
    MaxStaleness = 24
    Day = 24
    Period = 12
    Runs <- MCRuns
    MaxDelay = 13
    Rates = {0, 1323, 1324}
    Horizon = 60
SPECIFICATION Spec
INVARIANTS
    AgeIsBounded
    PricedByRecentQuote
PROPERTIES
    QuotesDoNotGoBack
CHECK_DEADLOCK FALSE
