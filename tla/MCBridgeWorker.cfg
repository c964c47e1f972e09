CONSTANTS
    wallet = wallet
    fake = fake
    Holders = {wallet, multicall}
    Token = test
    Others = {fake}
    Wrapped = {btkt}
    None = none
    Supply = 2
    Calls <- MCCalls
    MaxTxs = 2
    MaxLogBlockRange = 2
    MaxProcessedTxs = 1
    MaxRestarts = 1
    MaxQueries = 1
SPECIFICATION FairSpec
INVARIANTS
    SubmitsOnce
    MintsAreBacked
PROPERTIES
    ImplementsPayoutLedger
    BurnsAreMinted
CHECK_DEADLOCK FALSE
