CONSTANTS
    Nodes <- MCNodes
    Txs = {"t", "u"}
    Needs <- MCNeeds
    Maker <- MCMaker
    NotTrickled <- MCNotTrickled
    Syncing = {"a"}
    FirstLinks <- MCLinks
    Gap = 2
    MaxDrops = 1
SPECIFICATION RelaySpec
INVARIANTS
    AnsweredOnce
PROPERTIES
    Delivered
    DiesOut
