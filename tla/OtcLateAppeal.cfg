SPECIFICATION OtcSpec
CONSTANTS
    alice = alice
    bob = bob
    Users = {alice, bob}
    Merchants = {alice}
    Quantities = {1}
    Parts = {1}
    Deposit <- MCDeposit
    CancelLimit = 1
    Timed = {"WAIT", "WAITPAY"}
    LateAppeal = TRUE
    MaxOrders = 1
    MaxRecords = 1
PROPERTIES
    AppealsInTime
CHECK_DEADLOCK FALSE
