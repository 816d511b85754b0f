SPECIFICATION SettlementSpec
CONSTANTS
    alice = alice
    bot = bot
    t1 = t1
    t2 = t2
    Users = {alice}
    Robots = {}
    White = {}
    Prices = {1}
    Quantities = {1}
    Unit = 1
    BuyRate = 0
    SellRate = 0
    RateScale = 1
    Deposit <- MCDeposit
    MaxOrders = 2
    MaxRecords = 1
    Consumers = {t1, t2}
    Locking = TRUE
    ErrorLimit = 1
    DoneMayFail = TRUE
    MaxQueued = 1
    MaxFailures = 2
    MaxCrashes = 0
PROPERTIES
    DoneStaysDone
CHECK_DEADLOCK FALSE
