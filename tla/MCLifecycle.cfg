SPECIFICATION FairLifecycle
CONSTANTS
    c1 = c1
    old = old
    new = new
    r1 = r1
    r2 = r2
    Contracts = {c1}
    Formations <- AllFormations
    ContractOf <- Owner
    TimestampOf <- Stamp
    Txs <- AllTxs
    None = None
    Invalid = Invalid
    Requests = {r1, r2}
    MaxMessages = 2
    FaultKinds = {"crash", "interrupt", "spynode", "stopSpyNode", "server", "hang", "disconnect"}
    MaxFaults = 4
CHECK_DEADLOCK FALSE
INVARIANT LifecycleTypeOK
INVARIANT DatabaseOutlivesRequests
INVARIANT CursorSkipsNothing
PROPERTY EndsUnlessStuck
PROPERTY CollectsUnlessStuck
