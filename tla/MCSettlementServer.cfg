CONSTANTS
    d1 = d1
    d2 = d2
    e1 = e1
    bob = bob
    Deposits = {d1, d2}
    Home = {d1, d2}
    Receiver <- MCReceiver
    Amount <- MCAmount
    DepositId <- MCDepositId
    Height <- MCHeight
    Payout <- MCPayout
    MaxRecords = 2
    MaxCalls = 2
    MaxBatch = 2
    MaxRestarts = 1
SPECIFICATION Spec
INVARIANTS
    TypeOK
    OneSettlementPerRecord
    EventsMapOneToOne
    CountCatchesPruning
PROPERTIES
    ReleasedIsFinal
CHECK_DEADLOCK FALSE
