CONSTANTS
    Blocks <- MCBlocks
    Genesis = "g"
    Null = Null
    Parent <- MCParent
    Height <- MCHeight
    ChainTrust <- MCChainTrust
    Tx <- MCTx
    Vin <- MCVin
    NOut <- MCNOut
    IsStake = {}
    TxsOf <- MCTxsOf
    SoundBlocks <- AllSound
    Maturity = 2
    Payout <- HalvingPayout
    RewardAt <- HalvingReward
    CheckDepth = 2
    MaxFaults = 1
SPECIFICATION Spec
INVARIANTS
    MemoryMatchesDisk
CHECK_DEADLOCK FALSE
