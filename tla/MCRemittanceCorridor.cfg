CONSTANTS
    A = A
    B = B
    other = other
    alice = alice
    bob = bob
    DepositContracts = {A, B}
    OtherContracts = {other}
    Addresses = {alice, bob}
    ZeroAddress = zero
    FeedDecimals = {1}
    LogDecimals = {0, 1, 40}
    NoLog = nolog
    Readings <- MCReadings
    InitialReading <- MCInitialReading
    Transactions <- MCTransactions
    InitialUSD = 12
    MaxReceipts = 2
    PayoutTokens = {fNGN, fETH, foreign}
    MinterTokens = {fNGN, fETH}
    NoToken = none
    Admin = admin
    MaxRateDecimals = 36
    MaxWord = 60
    MaxBatch = 3
    MaxBlock = 2
SPECIFICATION Spec
INVARIANTS
    PaidAtMostOnce
    PaidAsAttested
    SupplyMatchesPayouts
    PayoutsAreBacked
    ReputationMatchesReleases
    DepositIdsAreDense
    DepositsAreReleasable
PROPERTIES
    ImplementsPayoutLedger
CHECK_DEADLOCK FALSE
