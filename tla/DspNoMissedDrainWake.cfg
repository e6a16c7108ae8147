\* The drain can sleep through its only wake.
SPECIFICATION FairSpec
CONSTANTS
    Ratio = 3
    BatchCap = 6
    FlushMin = 2
    Costs <- MCCosts
    MaxCharged = 12
INVARIANT
    NoMissedDrainWake
CHECK_DEADLOCK FALSE
