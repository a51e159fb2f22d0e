------------------------------ MODULE MemPool ------------------------------
(***************************************************************************)
(* The memory pool and the orphan transactions (main.cpp): CTxMemPool,     *)
(* AddOrphanTx, EraseOrphanTx, LimitOrphanTxSize, the "tx" message with    *)
(* its work queue, and what a move of the best chain does to the pool.     *)
(*                                                                         *)
(* The database stands at a block and holds the index of its chain: that   *)
(* is what BestChain promises and BlockChain implements.  All of this runs *)
(* under cs_main, and none of it is on disk.                               *)
(***************************************************************************)
EXTENDS TxIndex, Sequences

CONSTANTS
    NonStandard,  \* refused by CheckTransaction or IsStandard
    Cheap,        \* may be refused for its fee, by the rate limiter, or for a
                  \* time or signature that does not fit its inputs
    Large,        \* too large to be kept as an orphan
    WalletTxs,    \* the node's own transactions
    MaxOrphans    \* MAX_ORPHAN_TRANSACTIONS

ASSUME PoolAssumption ==
    /\ NonStandard \cup Cheap \cup Large \cup WalletTxs \subseteq Tx
    /\ MaxOrphans \in Nat

VARIABLES
    best,         \* the block the database stands at
    mempool,      \* mapTx and mapNextTx
    mapOrphanTransactions,
    mapOrphanTransactionsByPrev,  \* pairs <<hash it waits for, orphan>>
    vWorkQueue,   \* of the "tx" message
    i,            \* its position in vWorkQueue, from 0
    vEraseQueue,
    visited,      \* the orphans that the inner loop is done with
    accepted,     \* history: the transactions accepted by this message
    disturbed     \* history since the start of the node: a block was
                  \* disconnected, or a transaction taken in unchecked

orphanTxs == <<mapOrphanTransactions, mapOrphanTransactionsByPrev>>
queues == <<vWorkQueue, i, vEraseQueue, visited, accepted>>
vars == <<best, mempool, orphanTxs, queues, disturbed>>

txdb == IndexOfChain(best)

IsPool(p) ==
    /\ DOMAIN p = {"mapTx", "mapNextTx"}
    /\ p.mapTx \subseteq Tx
    /\ DOMAIN p.mapNextTx \subseteq Tx \X Nat
    /\ p.mapNextTx \in [DOMAIN p.mapNextTx -> Tx]

EmptyPool == [mapTx |-> {}, mapNextTx |-> [o \in {} |-> 0]]

TypeOK ==
    /\ best \in Blocks
    /\ IsPool(mempool)
    /\ mapOrphanTransactions \subseteq Tx
    /\ mapOrphanTransactionsByPrev \subseteq Tx \X Tx
    /\ vWorkQueue \in Seq(Tx)
    /\ i \in Nat /\ i < Len(vWorkQueue) + (IF vWorkQueue = <<>> THEN 1 ELSE 0)
    /\ vEraseQueue \subseteq Tx /\ visited \subseteq Tx /\ accepted \subseteq Tx
    /\ disturbed \in BOOLEAN

Init ==
    /\ best = Genesis
    /\ mempool = EmptyPool
    /\ mapOrphanTransactions = {} /\ mapOrphanTransactionsByPrev = {}
    /\ vWorkQueue = <<>> /\ i = 0 /\ vEraseQueue = {} /\ visited = {}
    /\ accepted = {}
    /\ disturbed = FALSE

-----------------------------------------------------------------------------

addUnchecked(p, T) ==
    [mapTx     |-> p.mapTx \cup T,
     mapNextTx |-> [o \in DOMAIN p.mapNextTx \cup SpentBy(T) |->
                       IF o \in SpentBy(T) THEN CHOOSE t \in T : o \in Vin[t]
                                           ELSE p.mapNextTx[o]]]

\* Mutant: the entries of mapNextTx stay.
RemoveKeepsNext(p, T) == [p EXCEPT !.mapTx = @ \ T]

remove(p, T) ==
    LET removed == p.mapTx \cap T IN
    [mapTx     |-> p.mapTx \ removed,
     mapNextTx |-> [o \in DOMAIN p.mapNextTx \ SpentBy(removed) |-> p.mapNextTx[o]]]

\* Loose transactions are neither coinbases nor coinstakes.
Loose == {t \in Tx : ~IsCoinBase(t)} \ (IsStake \cup NonStandard)

\* Mutant: conflicts with the pool are not looked for.
PassesUnchecked(p, t) == t \in Loose /\ t \notin p.mapTx

\* The tests of CTxMemPool::accept with fCheckInputs false.
Passes(p, t) ==
    /\ t \in Loose
    /\ t \notin p.mapTx
    /\ Vin[t] \cap DOMAIN p.mapNextTx = {}

\* FetchInputs: an input is neither in the database nor in the pool.
MissingInputs(p, t) == \E o \in Vin[t] : o[1] \notin DOMAIN txdb \cup p.mapTx

\* ConnectInputs for one outpoint, at the best block.
InputConnects(o) ==
    /\ o[2] < NOut[o[1]]
    /\ o[1] \in DOMAIN txdb =>
          o[2] \notin txdb[o[1]].spent /\ Mature(o[1], txdb[o[1]].pos, best)

\* CTxMemPool::accept with fCheckInputs true goes as far as FetchInputs.
Fetches(t) == Passes(mempool, t) /\ t \notin DOMAIN txdb

IsMissing(t) == Fetches(t) /\ MissingInputs(mempool, t)

Acceptable(t) ==
    /\ Fetches(t) /\ ~MissingInputs(mempool, t)
    /\ \A o \in Vin[t] : InputConnects(o)

\* A transaction that accept refuses, other than for missing inputs.
Refusable(t) == ~IsMissing(t) /\ (Acceptable(t) => t \in Cheap)

-----------------------------------------------------------------------------

\* EraseOrphanTx of each of T.
EraseOrphanTxs(T) ==
    /\ mapOrphanTransactions' = mapOrphanTransactions \ T
    /\ mapOrphanTransactionsByPrev' =
          {w \in mapOrphanTransactionsByPrev : w[2] \notin T}

\* Mutant: an orphan that is evicted stays in the map by previous hash.
StoreOrphanTxKeepsPrev(t) ==
    \E evicted \in SUBSET (mapOrphanTransactions \cup {t}) :
        /\ Cardinality(evicted) =
              (IF Cardinality(mapOrphanTransactions \cup {t}) > MaxOrphans THEN 1 ELSE 0)
        /\ mapOrphanTransactions' = (mapOrphanTransactions \cup {t}) \ evicted
        /\ mapOrphanTransactionsByPrev' =
              mapOrphanTransactionsByPrev \cup {<<o[1], t>> : o \in Vin[t]}

\* Mutant: nothing is evicted.
StoreOrphanTxUnlimited(t) ==
    /\ mapOrphanTransactions' = mapOrphanTransactions \cup {t}
    /\ mapOrphanTransactionsByPrev' =
          mapOrphanTransactionsByPrev \cup {<<o[1], t>> : o \in Vin[t]}

\* AddOrphanTx and LimitOrphanTxSize, which evicts at random, perhaps the new
\* one.
StoreOrphanTx(t) ==
    \E evicted \in SUBSET (mapOrphanTransactions \cup {t}) :
        /\ Cardinality(evicted) =
              (IF Cardinality(mapOrphanTransactions \cup {t}) > MaxOrphans THEN 1 ELSE 0)
        /\ mapOrphanTransactions' = (mapOrphanTransactions \cup {t}) \ evicted
        /\ mapOrphanTransactionsByPrev' =
              {w \in mapOrphanTransactionsByPrev \cup {<<o[1], t>> : o \in Vin[t]} :
                    w[2] \notin evicted}

\* No "tx" message is being processed.
Free == vWorkQueue = <<>>

\* The "tx" message: accepted, or kept as an orphan, or refused.
TxMessage(t) ==
    /\ Free
    /\ \/ /\ Acceptable(t)
          /\ mempool' = addUnchecked(mempool, {t})
          /\ vWorkQueue' = <<t>> /\ vEraseQueue' = {t} /\ accepted' = {t}
          /\ UNCHANGED orphanTxs
       \/ /\ IsMissing(t)
          /\ StoreOrphanTx(t) /\ t \notin Large
          /\ UNCHANGED <<mempool, vWorkQueue, vEraseQueue, accepted>>
    /\ UNCHANGED <<best, i, visited, disturbed>>

Waiting == {u \in mapOrphanTransactions :
                <<vWorkQueue[i + 1], u>> \in mapOrphanTransactionsByPrev}

\* Mutant: the orphans of an accepted orphan are not looked for.
VisitOrphanTxOnly(u) ==
    /\ ~Free /\ u \in Waiting \ visited
    /\ visited' = visited \cup {u}
    /\ \/ /\ Acceptable(u)
          /\ mempool' = addUnchecked(mempool, {u})
          /\ vEraseQueue' = vEraseQueue \cup {u} /\ accepted' = accepted \cup {u}
       \/ /\ Refusable(u)
          /\ vEraseQueue' = vEraseQueue \cup {u}
          /\ UNCHANGED <<mempool, accepted>>
       \/ IsMissing(u) /\ UNCHANGED <<mempool, vEraseQueue, accepted>>
    /\ UNCHANGED <<best, orphanTxs, vWorkQueue, i, disturbed>>

\* One turn of the inner loop.
VisitOrphanTx(u) ==
    /\ ~Free /\ u \in Waiting \ visited
    /\ visited' = visited \cup {u}
    /\ \/ /\ Acceptable(u)
          /\ mempool' = addUnchecked(mempool, {u})
          /\ vWorkQueue' = Append(vWorkQueue, u)
          /\ vEraseQueue' = vEraseQueue \cup {u} /\ accepted' = accepted \cup {u}
       \/ /\ Refusable(u)
          /\ vEraseQueue' = vEraseQueue \cup {u}
          /\ UNCHANGED <<mempool, vWorkQueue, accepted>>
       \/ IsMissing(u) /\ UNCHANGED <<mempool, vWorkQueue, vEraseQueue, accepted>>
    /\ UNCHANGED <<best, orphanTxs, i, disturbed>>

\* The end of a turn of the outer loop, and of the whole.
NextTxInQueue ==
    /\ ~Free /\ Waiting \subseteq visited
    /\ visited' = {}
    /\ IF i + 1 = Len(vWorkQueue)
       THEN /\ EraseOrphanTxs(vEraseQueue) /\ vEraseQueue' = {}
            /\ vWorkQueue' = <<>> /\ i' = 0 /\ accepted' = {}
       ELSE i' = i + 1 /\ UNCHANGED <<orphanTxs, vWorkQueue, vEraseQueue, accepted>>
    /\ UNCHANGED <<best, mempool, disturbed>>

\* A transaction of the node's own (CommitTransaction; sendrawtransaction does
\* the same to the pool).
CommitTransaction(t) ==
    /\ Free /\ t \in WalletTxs /\ Acceptable(t)
    /\ mempool' = addUnchecked(mempool, {t})
    /\ UNCHANGED <<best, orphanTxs, queues, disturbed>>

\* ReacceptWalletTransactions for one transaction: the inputs are not checked.
ReacceptWalletTransaction(t) ==
    /\ Free /\ t \in WalletTxs
    /\ t \notin DOMAIN txdb /\ Passes(mempool, t)
    /\ mempool' = addUnchecked(mempool, {t})
    /\ disturbed' = TRUE
    /\ UNCHANGED <<best, orphanTxs, queues>>

-----------------------------------------------------------------------------

\* Mutant: what conflicts with the block goes, what depends on that stays.
ExtendDropsConflicts(b) ==
    /\ Free
    /\ b # Genesis /\ Parent[b] = best /\ ValidChain(b)
    /\ best' = b
    /\ mempool' = remove(mempool, {t \in Tx : t \in TxsOf[b]
                                      \/ Vin[t] \cap SpentBy(TxsOf[b]) # {}})
    /\ UNCHANGED <<orphanTxs, queues, disturbed>>

\* SetBestChainInner: a block is connected on top of the best chain.
Extend(b) ==
    /\ Free
    /\ b # Genesis /\ Parent[b] = best /\ ValidChain(b)
    /\ best' = b
    /\ mempool' = remove(mempool, TxsOf[b])
    /\ UNCHANGED <<orphanTxs, queues, disturbed>>

TxsOfBlocks(B) == UNION {TxsOf[x] : x \in B}

\* AcceptToMemoryPool(txdb, false) of transactions of one chain.
Resurrect(p, T) == addUnchecked(p, {t \in T : Passes(p, t)})

\* Mutant: what the new branch holds is removed first.
ReorganizeDeletesFirst(b) ==
    /\ Free
    /\ best \notin Chain[b] /\ b \notin Chain[best] /\ ValidChain(b)
    /\ best' = b
    /\ mempool' = Resurrect(remove(mempool, TxsOfBlocks(Chain[b] \ Chain[best])),
                            TxsOfBlocks(Chain[best] \ Chain[b]))
    /\ disturbed' = TRUE
    /\ UNCHANGED <<orphanTxs, queues>>

\* Reorganize: transactions of disconnected blocks go back to the pool, those
\* of connected blocks leave it.  The new chain is heavier, or it is that of a
\* synchronized checkpoint.
Reorganize(b) ==
    /\ Free
    /\ best \notin Chain[b] /\ b \notin Chain[best] /\ ValidChain(b)
    /\ best' = b
    /\ mempool' = remove(Resurrect(mempool, TxsOfBlocks(Chain[best] \ Chain[b])),
                         TxsOfBlocks(Chain[b] \ Chain[best]))
    /\ disturbed' = TRUE
    /\ UNCHANGED <<orphanTxs, queues>>

Restart ==
    /\ mempool' = EmptyPool
    /\ mapOrphanTransactions' = {} /\ mapOrphanTransactionsByPrev' = {}
    /\ vWorkQueue' = <<>> /\ i' = 0 /\ vEraseQueue' = {} /\ visited' = {}
    /\ accepted' = {}
    /\ disturbed' = FALSE
    /\ UNCHANGED best

Next ==
    \/ \E t \in Tx : TxMessage(t)
    \/ \E u \in mapOrphanTransactions : VisitOrphanTx(u)
    \/ NextTxInQueue
    \/ \E t \in Tx : CommitTransaction(t) \/ ReacceptWalletTransaction(t)
    \/ \E b \in Blocks : Extend(b) \/ Reorganize(b)
    \/ Restart

Spec == Init /\ [][Next]_vars

-----------------------------------------------------------------------------
(***************************************************************************)
(* Properties.                                                             *)
(***************************************************************************)

SpendsOnce(p) ==
    /\ \A t, u \in p.mapTx : t # u => Vin[t] \cap Vin[u] = {}
    /\ DOMAIN p.mapNextTx = SpentBy(p.mapTx)
    /\ \A o \in DOMAIN p.mapNextTx :
          p.mapNextTx[o] \in p.mapTx /\ o \in Vin[p.mapNextTx[o]]

\* No two transactions of the pool spend one output, and mapNextTx says of
\* each output spent in the pool by which transaction (accept, remove).
PoolSpendsOnce == SpendsOnce(mempool)

\* No transaction is in the pool and in the best chain at once: a miner would
\* put it into a block that ConnectBlock refuses (Reorganize, "Delete redundant
\* memory transactions that are in the connected branch").
PoolNotInChain == mempool.mapTx \cap DOMAIN txdb = {}

\* The two maps of orphan transactions agree, and hold no more than they may
\* (LimitOrphanTxSize).
OrphanTxMapsAgree ==
    mapOrphanTransactionsByPrev =
        UNION {{<<o[1], t>> : o \in Vin[t]} : t \in mapOrphanTransactions}

OrphanTxsLimited == Cardinality(mapOrphanTransactions) <= MaxOrphans

\* When the "tx" message has been processed, no orphan is left that spends what
\* was accepted by it and has all its inputs, through any number of levels
\* ("Recursively process any orphan transactions that depended on this one").
AcceptedReleasesOrphans ==
    [][ ~Free /\ vWorkQueue' = <<>> /\ mempool' # EmptyPool =>
            \A u \in mapOrphanTransactions' :
                (\E t \in accepted : <<t, u>> \in mapOrphanTransactionsByPrev)
                    => MissingInputs(mempool, u) ]_vars

\* Every input of a transaction in the pool comes from the chain or the pool,
\* as long as the chain only grows and inputs are checked.
PoolConnectsWhileGrowing ==
    ~disturbed => \A t \in mempool.mapTx : ~MissingInputs(mempool, t)
=============================================================================
