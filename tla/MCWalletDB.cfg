CONSTANTS
    WalletHandles = {w1}
    FreeHandles = {f1}
    Encryption = enc
    Txs = {t1}
    Keys = {k1, k2}
    NewKeys = {k3}
    MaxUpdates = 3
    MaxStops = 1
SPECIFICATION Spec
INVARIANTS
    OpenHandleHasDb
    ClosedIsDurable
    KeysSurvive
PROPERTIES
    FlushesWhenIdle
