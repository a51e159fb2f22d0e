CONSTANTS
    Blocks <- MCBlocks
    Genesis = "g"
    Null = Null
    Parent <- MCParent
    Height <- MCHeight
    ChainTrust <- MCChainTrust
    Tx <- MCTx
    Vin <- MCVin
    NOut <- MCNOut
    IsStake = {}
    TxsOf <- MCTxsOf
    SoundBlocks <- AllSound
    Maturity = 2
    Payout <- HalvingPayout
    RewardAt <- HalvingReward
    CheckDepth = 2
    MaxFaults = 3
SPECIFICATION Spec
INVARIANTS
    BestChainIsValid
    IndexMatchesBestChain
    LinksFollowBestChain
    BestIsHeaviest
PROPERTIES
    ImplementsBestChain
    SetBestChainReturns
CHECK_DEADLOCK FALSE
