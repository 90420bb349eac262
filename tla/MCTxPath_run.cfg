CONSTANTS
    uNumTotalBlks = 4
    uNumBlksThresh <- MCThresh
    NUM_TX_DESCRIPTORS = 2
    CTRL_BLK_ENTRIES_NUM = 3
    Traffic = {1, 2}
    Blks <- MCBlks
    aQueueMaxSize <- MCQueueSize
    aTxSendPaceThresh <- MCPace
    bStopNetStackTx = TRUE
SPECIFICATION FairSpec
INVARIANTS BusyIsReleased NothingStranded
PROPERTY PacketServed
CHECK_DEADLOCK FALSE
