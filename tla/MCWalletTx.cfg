CONSTANTS
    Blocks <- MCBlocks
    Genesis = "g"
    Null = Null
    Parent <- MCParent
    Height <- MCHeight
    ChainTrust <- MCChainTrust
    Tx <- MCTx
    Vin <- MCVin
    NOut <- MCNOut
    IsStake = {"s", "z"}
    TxsOf <- MCTxsOf
    SoundBlocks <- B4Unsound
    Maturity = 1
    Payout <- FlatPayout
    RewardAt <- FlatReward
    CheckDepth = 2
    MaxFaults = 2
    Mine <- MCMine
    OwnTxs = {"p", "q"}
    Confirmations = 1
    MaturityMargin = 1
SPECIFICATION WalletSpec
INVARIANTS
    WalletKnowsChain
    SpentIsMarked
    CoinNotLost
CHECK_DEADLOCK FALSE
