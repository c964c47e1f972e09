CONSTANTS
    d1 = d1
    d2 = d2
    e1 = e1
    bob = bob
    Deposits = {d1, e1}
    Home = {d1}
    Receiver <- MCReceiver
    Amount <- MCAmount
    DepositId <- MCDepositId
    Height <- MCHeight
    Payout <- MCPayout
    MaxRecords = 2
    MaxCalls = 1
    MaxBatch = 2
    MaxRestarts = 1
SPECIFICATION FairSpec
INVARIANTS
    ReleasedIsTrue
PROPERTIES
    SettlementsEnd
    RestoringEnds
    ImplementsTransferListings
CHECK_DEADLOCK FALSE
