CONSTANTS
    e = e
    s = s
    q = q
    h = h
    a = a
    z = z
    Ext = Ext
    None = None
    Funcs = {1}
    MAX_PRIORITY = 2
    Txns = {e, s, a, z, h}
    FuncOf <- OneFuncOf
    PrioOf <- OnePrioOf
    SingleStep = {e, s}
    AggregOn = {a}
    AggregLast = {z}
SPECIFICATION Spec
INVARIANT DoneMatchesCurr
PROPERTY ImplementsService
