CONSTANTS
    CNodes = {n1, n2}
    Addrs = {x}
    Openers = {o, p}
    MaxOutbound = 2
    MaxInbound = 1
    None = None
SPECIFICATION Spec
INVARIANTS
    DisconnectedHasNoSlot
