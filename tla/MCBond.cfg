CONSTANTS
    N = 2
    W = 2
    BOND_SIGNALS = 1
    BOND_RANGES = 1
    MaxCalls = 2
    Payloads <- MCPayloads
    Words <- MCWords
SPECIFICATION FairSpec
INVARIANTS
    NeverRefused
    CreditIsPublished
PROPERTIES
    
    
    EverySignalLands
    EveryCallReturns
