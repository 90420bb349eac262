CONSTANTS
    c = c
    d = d
    n = n
    ElpSleep = ElpSleep
    ElpAwake = ElpAwake
    None = None
    Txns = {c}
    WithCb = {c}
    UINT = 8
    MaxAwake = 1
    MaxRestarts = 2
SPECIFICATION Spec
INVARIANT WakeLockBalanced
PROPERTY RestartedClean
