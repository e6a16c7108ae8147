\* The threaded DSP under every interleaving and store-buffer delay.
SPECIFICATION FairSpec
CONSTANTS
    Ratio = 3
    BatchCap = 6
    FlushMin = 2
    Costs <- MCCosts
    MaxCharged = 12
INVARIANTS
    TypeOK
    RegistersExclusive
    NoMissedGrantWake
PROPERTIES
    GrantsExecuted
    ImplementsBudget
\* The run ends when gcn_dsp_free returns, and the bound stops the guest.
CHECK_DEADLOCK FALSE
