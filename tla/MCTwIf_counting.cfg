CONSTANTS
    c = c
    d = d
    n = n
    ElpSleep = ElpSleep
    ElpAwake = ElpAwake
    None = None
    Txns = {c, n}
    WithCb = {c}
    UINT = 8
    MaxAwake = 1
    MaxRestarts = 0
SPECIFICATION FairSpec
INVARIANTS CountIsPending AwakeForPending
PROPERTY TxnCompletes
