CONSTANTS
    uNumTotalBlks = 2
    uNumBlksThresh <- MCThresh
    NUM_TX_DESCRIPTORS = 2
    Traffic = {1, 2}
    UINT32 = 3
    UINT8 = 3
SPECIFICATION Spec
INVARIANTS Accounts Guaranteed
PROPERTY ImplementsTxResources
CHECK_DEADLOCK FALSE
