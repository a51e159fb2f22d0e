CONSTANTS
    CNodes = {n1}
    Addrs = {x}
    Openers = {o, p, q}
    MaxOutbound = 2
    MaxInbound = 1
    None = None
SPECIFICATION Spec
INVARIANTS
    NotDeletedInUse
    SlotsConserved
PROPERTIES
    DisconnectedIsDeleted
