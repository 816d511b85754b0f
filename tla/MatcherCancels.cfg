SPECIFICATION MatcherSpec
CONSTANTS
    alice = alice
    bot = bot
    m1 = m1
    m2 = m2
    c1 = c1
    c2 = c2
    Users = {alice, bot}
    Robots = {bot}
    White = {}
    Prices = {1}
    Quantities = {1, 2}
    Unit = 1
    BuyRate = 0
    SellRate = 0
    RateScale = 1
    Deposit <- MCDeposit
    MaxOrders = 2
    MaxRecords = 2
    Matchers = {m1}
    Cancellers = {c1, c2}
    Locking = FALSE
    ErrorLimit = 0
    MaxFailures = 0
    MaxCancels = 2
    MaxCrashes = 1
SYMMETRY Symmetry
PROPERTIES
    ImplementsSpotTrade
CHECK_DEADLOCK FALSE
