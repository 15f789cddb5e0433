SPECIFICATION Spec
CONSTANTS
    c1 = c1
    c2 = c2
    old = old
    new = new
    twin = twin
    other = other
    Contracts = {c1, c2}
    Formations <- AllFormations
    ContractOf <- Owner
    TimestampOf <- Stamp
    Txs <- AllTxs
    None = None
    Invalid = Invalid
    MaxMessages = 3
    FaultKinds = {"crash", "crashInShutdown", "stop", "disconnect", "contracts", "ready", "storage", "reset"}
    MaxFaults = 3
CHECK_DEADLOCK FALSE
INVARIANT TypeOK
PROPERTY OnlyAdvances
