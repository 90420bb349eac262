CONSTANTS
    TRQ_DEPTH = 2
    CNTR_MOD = 3
    CbReturns = {TRUE, FALSE}
    MaxStops = 0
    MaxResults <- MCMaxResults
SPECIFICATION Spec
CHECK_DEADLOCK FALSE
INVARIANT ReportedInOrder
