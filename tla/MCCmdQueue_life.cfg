CONSTANTS
    a = a
    b = b
    d = d
    None = None
    CmdTimer = CmdTimer
    FailTimer = FailTimer
    Timers = {CmdTimer, FailTimer}
    Clients = {a, b, d}
    WithCb = {a, d}
    NumSteps = 3
    DEPTH = 2
SPECIFICATION FairSpec
INVARIANTS MailboxOfHead AwakeWhileBusy OwedToClients HangIsNoticed
PROPERTIES ImplementsService CommandServed
CHECK_DEADLOCK FALSE
