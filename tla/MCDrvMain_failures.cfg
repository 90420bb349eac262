CONSTANTS
    start1 = start1
    start2 = start2
    stop1 = stop1
    stop2 = stop2
    None = None
    Actions = {start1, stop1, start2, stop2}
    StartActions = {start1, start2}
    MAX_NUM_OF_RECOVERY_TRIGGERS = 2
    Chunks = 2
    MaxFailures = 2
SPECIFICATION FairSpec
INVARIANTS OperationalConsistent InputsOffWhenDown PoweredWhileActive SignalsLiveAction FailureHasCause
PROPERTIES SteadyActions ActionServed RecoveryEnds
CHECK_DEADLOCK FALSE
