CONSTANTS
    Blocks <- MCBlocks
    Genesis = "g"
    Null = Null
    Parent <- MCParent
    Height <- MCHeight
    ChainTrust <- MCChainTrust
    Tx = {}
    Vin <- Empty
    NOut <- Empty
    IsStake = {}
    TxsOf <- NoTxs
    SoundBlocks <- MCSoundBlocks
    Maturity = 2
    Payout <- FlatPayout
    RewardAt <- FlatReward
    CheckDepth = 2
    MaxFaults = 2
    Hardened = {"g", "a2"}
    SignedCheckpoints = {"a1", "a3", "b1", "c4"}
    MasterPubKeys = {"k1", "k2"}
SPECIFICATION CheckpointSpec
INVARIANTS
    CheckpointTypeOK
    CheckpointOnBestChain
    RelayedCheckpointIsCurrent
    PendingIsTakenUp
    PendingDescends
PROPERTIES
    CheckpointMovesForward
CHECK_DEADLOCK FALSE
