SPECIFICATION Spec
CONSTANTS
    alice = alice
    bob = bob
    bot = bot
    Users = {alice, bob, bot}
    Robots = {bot}
    White = {bob}
    Prices = {2, 3}
    Quantities = {1, 2}
    Unit = 2
    BuyRate = 1
    SellRate = 1
    RateScale = 2
    Deposit <- MCDeposit
    MaxOrders = 3
    MaxRecords = 2
INVARIANTS
    TypeOK
    FreezeBacked
    FreezeTight
    BalanceExplained
    FilledByRecords
    SettlementFunded
CHECK_DEADLOCK FALSE
