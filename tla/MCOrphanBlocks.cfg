CONSTANTS
    Blocks <- MCBlocks
    Genesis = "g"
    Null = Null
    Parent <- MCParent
    Height <- MCHeight
    ChainTrust <- MCHeight
    Stake <- MCStake
    SignedCheckpoints = {"c"}
    Fallible = {"a", "m", "x1", "x2", "x3", "c"}
SPECIFICATION FairSpec
INVARIANTS
    OrphanWaitsForParent
    OrphanMapsAgree
    StakeSeenIsHeld
    WantedIsLetIn
PROPERTIES
    OrphanIsReleased
