CONSTANTS
    alice = alice
    bob = bob
    due = {2, 3}
    Accounts = {alice, bob}
    LoanIds = {1}
    Auxiliary = auxiliary
    Others = {}
    None = none
    InitialTokens = 1
    MaxLogs = 3
    Offers <- MCOffers
    Payments = {1}
    MaxBlock = 3
    MaxLogBlockRange = 2
    MaxProcessedTxs = 2
    ProvedByOthers = {3}
SPECIFICATION WorkerSpec
INVARIANTS
    RepaymentsCountOnce
PROPERTIES
    ImplementsLoanManager
CHECK_DEADLOCK FALSE
