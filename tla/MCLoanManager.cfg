CONSTANTS
    alice = alice
    bob = bob
    Accounts = {alice, bob}
    LoanIds = {1, 2}
    Auxiliary = auxiliary
    Others = {fake}
    None = none
    InitialTokens = 2
    MaxLogs = 3
    Offers <- MCOffers
    Payments = {1, 2}
    MaxBlock = 3
SPECIFICATION Spec
INVARIANTS
    FundedIsLent
    RepaidIsPaid
    TokensFollowLoans
PROPERTIES
    StatusesMoveForward
CHECK_DEADLOCK FALSE
