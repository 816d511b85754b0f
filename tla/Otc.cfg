SPECIFICATION FairOtcSpec
CONSTANTS
    alice = alice
    bob = bob
    Users = {alice, bob}
    Merchants = {alice}
    Quantities = {2}
    Parts = {1}
    Deposit <- MCDeposit
    CancelLimit = 1
    Timed = {"WAIT", "WAITPAY"}
    LateAppeal = FALSE
    MaxOrders = 2
    MaxRecords = 2
INVARIANTS
    OtcTypeOK
    FreezeExplained
    TradedByRecords
PROPERTIES
    WithdrawnStays
    DecidedStays
    WaitingEnds
    ImplementsEscrow
CHECK_DEADLOCK FALSE
