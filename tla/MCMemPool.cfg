CONSTANTS
    Blocks <- MCBlocks
    Genesis = "g"
    Null = Null
    Parent <- MCParent
    Height <- MCHeight
    ChainTrust <- MCHeight
    Tx <- MCTx
    Vin <- MCVin
    NOut <- MCNOut
    IsStake = {}
    TxsOf <- MCTxsOf
    SoundBlocks <- MCBlocks
    Maturity = 1
    Payout <- FlatPayout
    RewardAt <- FlatReward
    NonStandard = {}
    Cheap = {"c"}
    Large = {"r"}
    WalletTxs = {"c", "q"}
    MaxOrphans = 3
SPECIFICATION Spec
INVARIANTS
    PoolSpendsOnce
    PoolNotInChain
    OrphanTxMapsAgree
    OrphanTxsLimited
    PoolConnectsWhileGrowing
PROPERTIES
    AcceptedReleasesOrphans
