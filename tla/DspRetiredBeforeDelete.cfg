\* The core can be deleted with its worker not retired.
SPECIFICATION FairSpec
CONSTANTS
    Ratio = 3
    BatchCap = 6
    FlushMin = 2
    Costs <- MCCosts
    MaxCharged = 12
INVARIANT
    RetiredBeforeDelete
CHECK_DEADLOCK FALSE
