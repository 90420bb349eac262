CONSTANTS
    TRQ_DEPTH = 2
    CNTR_MOD = 3
    CbReturns = {TRUE, FALSE}
    MaxStops = 1
    MaxResults <- MCMaxResults
SPECIFICATION Spec
CHECK_DEADLOCK FALSE
INVARIANTS NoLostWakeup HandedOverOnce CountedInOrder InterruptKnown
