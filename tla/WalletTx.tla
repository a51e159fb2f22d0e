------------------------------ MODULE WalletTx ------------------------------
(***************************************************************************)
(* What the wallet knows of its transactions (mapWallet in wallet.cpp)     *)
(* while the best chain moves.  BlockChain gives the steps of a switch; in *)
(* the middle of one, before anything is committed, ConnectBlock and       *)
(* DisconnectBlock tell the wallet (SyncWithWallets), which writes each    *)
(* change to wallet.dat at once.                                           *)
(*                                                                         *)
(* Sending takes cs_main and so falls between two switches.  repairwallet  *)
(* and ReacceptWalletTransactions take cs_wallet only, and read the chain  *)
(* as it was last committed.                                               *)
(*                                                                         *)
(* The outputs of one's own keys are Mine; a key that is added later is    *)
(* left out.  ClearOrphans has no caller.                                  *)
(***************************************************************************)
EXTENDS BlockChain

CONSTANTS
    Mine,           \* the outpoints that pay to keys of the wallet
    OwnTxs,         \* the transactions the user may make
    Confirmations,  \* the depth IsConfirmed asks of other people's coins
    MaturityMargin  \* blocks GetBlocksToMaturity adds to nCoinbaseMaturity

ASSUME WalletAssumption ==
    /\ Mine \subseteq Tx \X Nat
    /\ \A o \in Mine : o[2] < NOut[o[1]]
    /\ OwnTxs \subseteq Tx \ IsStake
    /\ \A t \in OwnTxs : Vin[t] # {} /\ Vin[t] \subseteq Mine
    /\ \A t \in TxsOf[Genesis] : IsCoinBase(t)
    /\ Confirmations \in Nat /\ MaturityMargin \in Nat

VARIABLES
    mapWallet,  \* of a CWalletTx: hashBlock, and spent (vfSpent)
    bestblock,  \* the locator that SetBestChain wrote to wallet.dat
    mempool,    \* mapTx; mapNextTx follows from it
    starting,   \* what the start of the node still has to do
    undone,     \* history: the wallet was told of blocks whose connection
                \* or disconnection did not go through, and not repaired since
    shaken,     \* history: so it was at some time
    raced       \* history: repaired or reaccepted in the middle of a switch

wallet == <<mapWallet, bestblock>>
walletHistory == <<undone, shaken, raced>>
walletVars == <<vars, wallet, mempool, starting, walletHistory>>

WalletEntry == [hashBlock : Blocks \cup {Null}, spent : SUBSET Nat]

\* The type of every variable that BlockChain does not have.
WalletTypeOK ==
    /\ DOMAIN mapWallet \subseteq Tx
    /\ mapWallet \in [DOMAIN mapWallet -> WalletEntry]
    /\ \A t \in DOMAIN mapWallet : mapWallet[t].spent \subseteq 0 .. NOut[t] - 1
    /\ bestblock \in Blocks \cup {Null}
    /\ mempool \subseteq Tx
    /\ starting \in {"rescan", "reaccept", "no"}
    /\ undone \in BOOLEAN /\ shaken \in BOOLEAN /\ raced \in BOOLEAN

WalletInit ==
    /\ Init
    /\ mapWallet = [t \in {} |-> 0]
    /\ bestblock = Null
    /\ mempool = {}
    /\ starting = "reaccept"
    /\ undone = FALSE /\ shaken = FALSE /\ raced = FALSE

-----------------------------------------------------------------------------

MineOf(t) == {n \in 0 .. NOut[t] - 1 : <<t, n>> \in Mine}

\* IsMine or IsFromMe: an output of t, or what it spends of w, is one's own.
Involves(w, t) ==
    \/ MineOf(t) # {}
    \/ \E o \in Vin[t] \cap Mine : o[1] \in DOMAIN w

\* Mutant: the coins that a transaction spends are not marked when it is in
\* the wallet already.
SyncMarksNewOnly(w, T, At, fUpdate) ==
    LET seen == IF fUpdate THEN T ELSE T \ DOMAIN w
        told == {t \in seen :
                    \/ t \in DOMAIN w \/ Involves(w, t)
                    \/ \E o \in Vin[t] \cap Mine : o[1] \in seen}
    IN [t \in DOMAIN w \cup told |->
           [hashBlock |-> IF t \in told /\ At[t] # Null THEN At[t]
                          ELSE IF t \in DOMAIN w THEN w[t].hashBlock ELSE Null,
            spent |-> (IF t \in DOMAIN w THEN w[t].spent ELSE {})
                      \cup {n \in MineOf(t) : <<t, n>> \in SpentBy(seen \ DOMAIN w)}]]

\* Mutant: AddToWallet does not merge hashBlock.
SyncKeepsBlock(w, T, At, fUpdate) ==
    LET seen == IF fUpdate THEN T ELSE T \ DOMAIN w
        told == {t \in seen :
                    \/ t \in DOMAIN w \/ Involves(w, t)
                    \/ \E o \in Vin[t] \cap Mine : o[1] \in seen}
    IN [t \in DOMAIN w \cup told |->
           [hashBlock |-> IF t \in DOMAIN w THEN w[t].hashBlock ELSE At[t],
            spent |-> (IF t \in DOMAIN w THEN w[t].spent ELSE {})
                      \cup {n \in MineOf(t) : <<t, n>> \in SpentBy(seen)}]]

\* AddToWalletIfInvolvingMe, AddToWallet and WalletUpdateSpent for each of T
\* in the order of the chain, At giving the block a transaction was found in.
\* A transaction that spends one's own output of another one of T comes after
\* that one, which is in the wallet by then.
Sync(w, T, At, fUpdate) ==
    LET seen == IF fUpdate THEN T ELSE T \ DOMAIN w
        told == {t \in seen :
                    \/ t \in DOMAIN w \/ Involves(w, t)
                    \/ \E o \in Vin[t] \cap Mine : o[1] \in seen}
    IN [t \in DOMAIN w \cup told |->
           [hashBlock |-> IF t \in told /\ At[t] # Null THEN At[t]
                          ELSE IF t \in DOMAIN w THEN w[t].hashBlock ELSE Null,
            spent |-> (IF t \in DOMAIN w THEN w[t].spent ELSE {})
                      \cup {n \in MineOf(t) : <<t, n>> \in SpentBy(seen)}]]

SyncBlock(w, b) == Sync(w, TxsOf[b], [t \in TxsOf[b] |-> b], TRUE)

\* Mutant: nothing is done for a coinstake that is disconnected.
DisableNothing(w, b) == w

\* DisableTransaction: the coins that an own coinstake of b spent are unspent.
DisableStakes(w, b) ==
    [t \in DOMAIN w |->
        [w[t] EXCEPT !.spent =
            @ \ {n \in MineOf(t) : <<t, n>> \in SpentBy(TxsOf[b] \cap IsStake)}]]

\* The blocks that following pnext from b visits.
Ahead(b) ==
    {x \in Blocks : /\ b \in Chain[x]
                    /\ \A y \in Chain[x] \ {x} :
                          b \in Chain[y] => pnext[y] = NextOnChain(y, x)}

\* ScanForWalletTransactions.
Scan(w, b, fUpdate) ==
    LET T == UNION {TxsOf[x] : x \in Ahead(b)}
    IN Sync(w, T, [t \in T |-> CHOOSE x \in Ahead(b) : t \in TxsOf[x]], fUpdate)

IsInMainChain(b) == pnext[b] # Null \/ b = pindexBest

Depth(t) ==
    LET b == mapWallet[t].hashBlock IN
    IF b # Null /\ b \in mapBlockIndex /\ IsInMainChain(b)
    THEN Height[pindexBest] - Height[b] + 1
    ELSE 0

\* IsConfirmed: deep enough, or one's own with all it depends on confirmed
\* or one's own in turn.
IsConfirmed(t) ==
    \/ Depth(t) >= Confirmations
    \/ \E D \in SUBSET DOMAIN mapWallet :
          /\ t \in D
          /\ \A u \in D :
                /\ \E o \in Vin[u] \cap Mine : o[1] \in DOMAIN mapWallet
                /\ \A o \in Vin[u] :
                      o[1] \in D \/ (o[1] \in DOMAIN mapWallet /\ Depth(o[1]) >= 1)

\* AvailableCoins.
Available ==
    {o \in Mine :
        /\ o[1] \in DOMAIN mapWallet
        /\ IsConfirmed(o[1])
        /\ IsCoinBase(o[1]) \/ o[1] \in IsStake =>
              Depth(o[1]) >= Maturity + MaturityMargin
        /\ o[2] \notin mapWallet[o[1]].spent}

-----------------------------------------------------------------------------

Loose(t) == ~IsCoinBase(t) /\ t \notin IsStake

\* CTxMemPool::accept with fCheckInputs false.
Passes(pool, t) == Loose(t) /\ t \notin pool /\ Vin[t] \cap SpentBy(pool) = {}

\* CTxMemPool::accept.
Acceptable(t) ==
    /\ Passes(mempool, t)
    /\ t \notin DOMAIN db.tx
    /\ \A o \in Vin[t] :
          IF o[1] \in DOMAIN db.tx
          THEN /\ o[2] \notin db.tx[o[1]].spent
               /\ Mature(o[1], db.tx[o[1]].pos, pindexBest)
          ELSE o[1] \in mempool

\* What a commit does to the pool: Reorganize returns the transactions of the
\* blocks it took off, and the connected ones leave.
PoolAfterCommit ==
    LET off == UNION {TxsOf[b] : b \in Chain[base] \ Chain[goal]}
        on  == UNION {TxsOf[b] : b \in Chain[goal] \ Chain[base]}
    IN (mempool \cup {t \in off : Passes(mempool, t)}) \ on

-----------------------------------------------------------------------------
(***************************************************************************)
(* The steps of BlockChain.                                                *)
(***************************************************************************)

\* RegisterWallet comes after LoadBlockIndex.
Registered == starting # "rescan"

\* The wallet was told of a step of the switch under way.
Told == pc \in Working /\ cursor # base

WalletConnectBlock ==
    /\ ConnectBlock
    /\ mapWallet' = (IF Registered THEN SyncBlock(mapWallet, Next2Connect) ELSE mapWallet)
    /\ UNCHANGED <<bestblock, mempool, starting, walletHistory>>

WalletDisconnectBlock ==
    /\ DisconnectBlock
    /\ mapWallet' = (IF Registered THEN DisableStakes(mapWallet, cursor) ELSE mapWallet)
    /\ UNCHANGED <<bestblock, mempool, starting, walletHistory>>

\* A switch at start-up, which no wallet hears of, counts as undone.
WalletTxnCommit ==
    /\ TxnCommit
    /\ mempool' = PoolAfterCommit
    /\ undone' = (undone \/ ~Registered)
    /\ shaken' = (shaken \/ ~Registered)
    /\ UNCHANGED <<wallet, starting, raced>>

\* CWallet::SetBestChain, unless the node is still downloading blocks.
WalletPublish ==
    /\ Publish
    /\ \/ Registered /\ bestblock' = pindexNew
       \/ UNCHANGED bestblock
    /\ UNCHANGED <<mapWallet, mempool, starting, walletHistory>>

\* The steps that drop what was not committed.
WalletAbort ==
    /\ BlockRefused \/ ReorganizeReadFails \/ CommitFails
    /\ undone' = (undone \/ Told)
    /\ shaken' = (shaken \/ Told)
    /\ UNCHANGED <<wallet, mempool, starting, raced>>

WalletCrash ==
    /\ Crash
    /\ mempool' = {}
    /\ starting' = "no"
    /\ undone' = (undone \/ Told)
    /\ shaken' = (shaken \/ Told)
    /\ UNCHANGED <<wallet, raced>>

WalletLoadBlockIndex ==
    /\ LoadBlockIndex
    /\ starting' = "rescan"
    /\ UNCHANGED <<wallet, mempool, walletHistory>>

\* The steps of BlockChain that the wallet takes no part in.
WalletElse ==
    /\ \/ Registered /\ \E b \in Blocks : AcceptBlock(b)
       \/ SetBestChain \/ ConnectFurther \/ PostponedReadFails
    /\ UNCHANGED <<wallet, mempool, starting, walletHistory>>

-----------------------------------------------------------------------------
(***************************************************************************)
(* The steps of the wallet.                                                *)
(***************************************************************************)

\* CBlockLocator::GetBlockIndex: the highest block of the locator's chain
\* that is in the main chain.
RescanFrom ==
    IF bestblock = Null THEN pindexBest
    ELSE CHOOSE b \in Chain[bestblock] :
            /\ b = Genesis \/ IsInMainChain(b)
            /\ \A c \in Chain[bestblock] :
                  c = Genesis \/ IsInMainChain(c) => Height[c] <= Height[b]

\* AppInit2, step 8: from the locator in wallet.dat, or from the genesis
\* block with -rescan.
Rescan ==
    /\ pc = "idle" /\ starting = "rescan"
    /\ starting' = "reaccept"
    /\ \E from \in {RescanFrom, Genesis} :
          mapWallet' = IF Height[pindexBest] > Height[from]
                       THEN Scan(mapWallet, from, TRUE) ELSE mapWallet
    /\ UNCHANGED <<vars, bestblock, mempool, walletHistory>>

\* The entries that ReacceptWalletTransactions does not look at.
SkippedByReaccept(t) ==
    \/ IsCoinBase(t) /\ 0 \in mapWallet[t].spent
    \/ t \in IsStake /\ 1 \in mapWallet[t].spent

\* Outputs that the index has as spent and the wallet does not.
Mismatch(t) ==
    {n \in MineOf(t) : t \in DOMAIN db.tx /\ n \in db.tx[t].spent \ mapWallet[t].spent}

Marked ==
    [t \in DOMAIN mapWallet |->
        IF SkippedByReaccept(t) THEN mapWallet[t]
        ELSE [mapWallet[t] EXCEPT !.spent = @ \cup Mismatch(t)]]

\* One turn of the loop of ReacceptWalletTransactions, which AppInit2 calls
\* with the network and RPC threads already running.  The loop ends when no
\* entry was marked or the scan found no new transaction.  Entries that are
\* in no block go to the pool, their inputs unchecked, in some order.
Reaccept ==
    /\ pc # "down" /\ starting = "reaccept"
    /\ mapWallet' = (IF Marked # mapWallet THEN Scan(Marked, Genesis, FALSE) ELSE Marked)
    /\ starting' = (IF DOMAIN mapWallet' = DOMAIN mapWallet THEN "no" ELSE "reaccept")
    /\ LET loose == {t \in DOMAIN mapWallet : Loose(t) /\ t \notin DOMAIN db.tx} IN
       \E T \in SUBSET loose :
          /\ mempool' = mempool \cup T
          /\ \A t \in T : Passes(mempool, t)
          /\ \A t, u \in T : t # u => Vin[t] \cap Vin[u] = {}
          /\ \A t \in loose \ T : ~Passes(mempool \cup T, t)
    /\ undone' = (undone /\ \E t \in DOMAIN mapWallet : SkippedByReaccept(t))
    /\ raced' = (raced \/ Told)
    /\ UNCHANGED <<vars, bestblock, shaken>>

\* repairwallet: FixSpentCoins.
FixSpentCoins ==
    /\ pc # "down" /\ Registered
    /\ mapWallet' =
          [t \in DOMAIN mapWallet |->
              [mapWallet[t] EXCEPT !.spent =
                  IF t \in DOMAIN db.tx
                  THEN (@ \ MineOf(t)) \cup (db.tx[t].spent \cap MineOf(t)) ELSE @]]
    /\ mapWallet' # mapWallet
    /\ undone' = FALSE
    /\ raced' = (raced \/ Told)
    /\ UNCHANGED <<vars, bestblock, mempool, starting, shaken>>

\* CreateTransaction and CommitTransaction: recorded and its coins marked
\* before the pool is asked.
CommitTransaction(t) ==
    /\ pc = "idle" /\ Registered
    /\ t \in OwnTxs \ DOMAIN mapWallet
    /\ Vin[t] \subseteq Available
    /\ mapWallet' = Sync(mapWallet, {t}, [u \in {t} |-> Null], TRUE)
    /\ mempool' = (IF Acceptable(t) THEN mempool \cup {t} ELSE mempool)
    /\ UNCHANGED <<vars, bestblock, starting, walletHistory>>

\* The tx message: from another node, or another copy of the wallet.
ReceiveTx(t) ==
    /\ pc = "idle" /\ Registered
    /\ Acceptable(t)
    /\ mempool' = mempool \cup {t}
    /\ mapWallet' = Sync(mapWallet, {t}, [u \in {t} |-> Null], TRUE)
    /\ UNCHANGED <<vars, bestblock, starting, walletHistory>>

-----------------------------------------------------------------------------

WalletStep ==
    \/ WalletConnectBlock \/ WalletDisconnectBlock \/ WalletTxnCommit \/ WalletPublish
    \/ WalletAbort \/ WalletCrash \/ WalletLoadBlockIndex \/ WalletElse

WalletNext ==
    \/ WalletStep
    \/ Rescan \/ Reaccept \/ FixSpentCoins
    \/ \E t \in Tx : CommitTransaction(t) \/ ReceiveTx(t)

WalletSpec == WalletInit /\ [][WalletNext]_walletVars

-----------------------------------------------------------------------------

\* What the best chain holds of the wallet's.
OwnOnChain ==
    {t \in TxsOfChain(db.hashBestChain) : MineOf(t) # {} \/ Vin[t] \cap Mine # {}}

\* At every moment, and so after a crash at any moment, the wallet has every
\* transaction of its own on the committed chain (SyncWithWallets comes before
\* TxnCommit), and between two switches in the block that the chain has it
\* in, unless a switch was undone.
WalletKnowsChain ==
    ~diverged =>
        /\ OwnOnChain \subseteq DOMAIN mapWallet
        /\ pc = "idle" /\ ~shaken =>
              \A t \in OwnOnChain : mapWallet[t].hashBlock = db.tx[t].pos

ChainCoinsMarked ==
    \A t \in OwnOnChain : MineOf(t) \cap db.tx[t].spent \subseteq mapWallet[t].spent

\* Between two switches every coin of the wallet that the best chain spends is
\* marked spent, so that it is not spent again, over reorganizations, crashes
\* and restarts: unless a switch was undone and not repaired since, or
\* repaired in the middle of another.
SpentIsMarked ==
    pc = "idle" /\ ~diverged /\ ~undone /\ ~raced => ChainCoinsMarked

\* A coin that is marked spent is not lost: a transaction of the wallet spends
\* it that is on the best chain or may still get there.  A coinstake off the
\* chain cannot, and DisableTransaction has unmarked what it spent.
CoinNotLost ==
    pc = "idle" /\ ~diverged /\ ~shaken /\ ~raced =>
        \A t \in DOMAIN mapWallet : \A n \in mapWallet[t].spent \cap MineOf(t) :
            \E u \in DOMAIN mapWallet :
                <<t, n>> \in Vin[u] /\ (u \in TxsOfChain(db.hashBestChain) \/ u \notin IsStake)
=============================================================================
