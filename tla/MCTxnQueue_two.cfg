CONSTANTS
    e = e
    s = s
    q = q
    h = h
    a = a
    z = z
    Ext = Ext
    None = None
    Funcs = {1, 2}
    MAX_PRIORITY = 2
    Txns = {e, q, h}
    FuncOf <- TwoFuncOf
    PrioOf <- TwoPrioOf
    SingleStep = {e}
    AggregOn = {}
    AggregLast = {}
SPECIFICATION FairSpec
INVARIANTS SchedulerExclusive BusExclusive NothingStranded
PROPERTY SingleStepServed
