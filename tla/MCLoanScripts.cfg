CONSTANTS
    Lender = alice
    Borrower = bob
    lentAmounts = {1}
    owedAmounts = {2}
    Accounts = {alice, bob}
    LoanIds = {1}
    Auxiliary = auxiliary
    Others = {}
    None = none
    InitialTokens = 2
    MaxLogs = 2
    Offers <- MCOffers
    Payments = {1, 2}
    MaxBlock = 2
    MaxRuns = 2
    OthersProve = {1, 2}
SPECIFICATION FairScripts
INVARIANTS
    SuccessIsTrue
    FundingIsCovered
PROPERTIES
    ScriptsEnd
CHECK_DEADLOCK FALSE
