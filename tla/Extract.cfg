SPECIFICATION ExtractSpec
CONSTANTS
    a1 = a1
    a2 = a2
    p1 = p1
    p2 = p2
    Currencies = {"coin", "fee"}
    Coin = "coin"
    Deposit <- MCDeposit
    Kinds <- MCKinds
    Unit = 2
    AutoLimit = 2
    Admins = {a1, a2}
    Pollers = {p1, p2}
    MaxOrders = 2
    MaxListed = 3
    MaxEvents = 1
SYMMETRY Symmetry
INVARIANTS
    ExtractTypeOK
    FreezeExplained
    MoneyExplained
    PaidOnce
CHECK_DEADLOCK FALSE
