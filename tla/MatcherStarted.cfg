SPECIFICATION FairRunSpec
CONSTANTS
    m1 = m1
    m2 = m2
    m3 = m3
    Runners = {m1, m2, m3}
    MaxSwitches = 3
    MaxCrashes = 1
PROPERTIES
    StartedRuns
CHECK_DEADLOCK FALSE
