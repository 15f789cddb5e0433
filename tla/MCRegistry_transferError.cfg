SPECIFICATION Spec
CONSTANTS
    name = name
    city = city
    acme = acme
    apex = apex
    oslo = oslo
    u1 = u1
    u2 = u2
    k1 = k1
    k2 = k2
    r1 = r1
    r2 = r2
    Scalars = {name, city}
    Texts = {acme, apex, oslo}
    Empty = Empty
    Requests = {r1}
    UserIds = {u1, u2}
    Keys = {k1, k2}
    XPubs = {x1}
    Signers = {1, 2}
    Entities <- Registered
    Claims <- Asked
    Contract = Contract
    None = None
    Ops = {"Register", "AddXPub", "TransferSignature"}
    FaultKinds = {"approver"}
    MaxFaults = 1
    MaxCalls = 3
SYMMETRY Symmetry
CHECK_DEADLOCK FALSE
INVARIANT ApproverErrorIsReturned
