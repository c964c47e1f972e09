CONSTANTS
    alice = alice
    bob = bob
    due = {2}
    Accounts = {alice, bob}
    LoanIds = {1}
    Auxiliary = auxiliary
    Others = {}
    None = none
    InitialTokens = 1
    MaxLogs = 2
    Offers <- MCOffers
    Payments = {2}
    MaxBlock = 3
    MaxLogBlockRange = 2
    MaxProcessedTxs = 2
    ProvedByOthers = {}
SPECIFICATION FairSpec
PROPERTIES
    RoundsEnd
    FundingsAreProved
    RepaymentsAreProved
    TrackedLoansExpire
CHECK_DEADLOCK FALSE
