CONSTANTS
    WalletHandles = {w1}
    FreeHandles = {f1}
    Encryption = enc
    Txs = {t1}
    Keys = {k1, k2}
    NewKeys = {k3}
    MaxUpdates = 2
    MaxStops = 1
SPECIFICATION Spec
INVARIANT
    EncryptedFileIsRewritten
