--------------------------- MODULE MemPoolProofs ---------------------------
(***************************************************************************)
(* Proofs about MemPool: what is in the pool while the best chain moves,   *)
(* and the two maps of orphan transactions.                                *)
(*                                                                         *)
(* That no transaction is in the pool and in the chain at once rests on    *)
(* NoRepeatAssumption, and that Reorganize may put the transactions of a   *)
(* whole branch back rests on ValidChainSpendsOnce: on a valid chain no    *)
(* output is spent twice.                                                  *)
(*                                                                         *)
(* That a message leaves no orphan behind is a statement about its last    *)
(* step.  ReleaseInv carries it through the loop: an orphan that waits for *)
(* something just accepted is to be erased, lacks another input, or has a  *)
(* turn to come.                                                           *)
(***************************************************************************)
EXTENDS MemPool, TxIndexProofs, FiniteSetTheorems

\* Adding transactions that conflict neither with the pool nor with each other.
LEMMA AddUnchecked ==
    ASSUME NEW p, IsPool(p), SpendsOnce(p),
           NEW T \in SUBSET Tx,
           \A t, u \in T : t # u => Vin[t] \cap Vin[u] = {},
           \A t \in T : Passes(p, t)
    PROVE  /\ IsPool(addUnchecked(p, T)) /\ SpendsOnce(addUnchecked(p, T))
           /\ addUnchecked(p, T).mapTx = p.mapTx \cup T
<1> DEFINE q == addUnchecked(p, T)
           chosen(o) == CHOOSE t \in T : o \in Vin[t]
<1>1. /\ q.mapTx = p.mapTx \cup T
      /\ DOMAIN q = {"mapTx", "mapNextTx"}
      /\ DOMAIN q.mapNextTx = DOMAIN p.mapNextTx \cup SpentBy(T)
      /\ \A o \in DOMAIN q.mapNextTx :
            q.mapNextTx[o] = IF o \in SpentBy(T) THEN chosen(o) ELSE p.mapNextTx[o]
      /\ q.mapNextTx = [o \in DOMAIN q.mapNextTx |-> q.mapNextTx[o]]
  BY DEF addUnchecked
<1>2. \A o \in SpentBy(T) : chosen(o) \in T /\ o \in Vin[chosen(o)]
  BY DEF SpentBy
<1>3. SpentBy(T) \subseteq Tx \X Nat
  BY TxAssumption DEF TxAssumption, SpentBy
<1>4. \A o \in DOMAIN q.mapNextTx : q.mapNextTx[o] \in q.mapTx /\ o \in Vin[q.mapNextTx[o]]
  BY <1>1, <1>2 DEF SpendsOnce
<1>5. SpentBy(q.mapTx) = DOMAIN q.mapNextTx
  <2>1. SpentBy(p.mapTx \cup T) = SpentBy(p.mapTx) \cup SpentBy(T)
    BY SpentByUnion
  <2>2. DOMAIN p.mapNextTx = SpentBy(p.mapTx)
    BY DEF SpendsOnce
  <2> HIDE DEF q
  <2> QED BY <1>1, <2>1, <2>2
<1>6. \A t \in T, u \in p.mapTx : Vin[t] \cap Vin[u] = {}
  BY DEF Passes, SpendsOnce, SpentBy
<1>7. \A t, u \in q.mapTx : t # u => Vin[t] \cap Vin[u] = {}
  BY <1>1, <1>6 DEF SpendsOnce
<1>8. q.mapTx \subseteq Tx /\ DOMAIN q.mapNextTx \subseteq Tx \X Nat
  BY <1>1, <1>3 DEF IsPool
<1>9. q.mapNextTx \in [DOMAIN q.mapNextTx -> Tx]
  <2>1. \A o \in DOMAIN q.mapNextTx : q.mapNextTx[o] \in Tx
    BY <1>4, <1>8
  <2> QED BY <1>1, <2>1
<1> HIDE DEF q
<1>10. IsPool(q) /\ SpendsOnce(q)
  BY <1>1, <1>4, <1>5, <1>7, <1>8, <1>9 DEF IsPool, SpendsOnce
<1> QED BY <1>1, <1>10 DEF q

\* Removing transactions, in the pool or not.
LEMMA Remove ==
    ASSUME NEW p, IsPool(p), SpendsOnce(p), NEW T
    PROVE  /\ IsPool(remove(p, T)) /\ SpendsOnce(remove(p, T))
           /\ remove(p, T).mapTx = p.mapTx \ T
<1> DEFINE q == remove(p, T)
           removed == p.mapTx \cap T
<1>1. /\ q.mapTx = p.mapTx \ T
      /\ DOMAIN q = {"mapTx", "mapNextTx"}
      /\ DOMAIN q.mapNextTx = DOMAIN p.mapNextTx \ SpentBy(removed)
      /\ \A o \in DOMAIN q.mapNextTx : q.mapNextTx[o] = p.mapNextTx[o]
      /\ q.mapNextTx = [o \in DOMAIN q.mapNextTx |-> q.mapNextTx[o]]
  BY DEF remove
<1>2. \A o \in DOMAIN q.mapNextTx : q.mapNextTx[o] \in q.mapTx /\ o \in Vin[q.mapNextTx[o]]
  <2> SUFFICES ASSUME NEW o \in DOMAIN q.mapNextTx
               PROVE  p.mapNextTx[o] \in q.mapTx /\ o \in Vin[p.mapNextTx[o]]
    BY <1>1
  <2>1. p.mapNextTx[o] \in p.mapTx /\ o \in Vin[p.mapNextTx[o]]
    BY <1>1 DEF SpendsOnce
  <2>2. p.mapNextTx[o] \notin removed
    BY <1>1, <2>1 DEF SpentBy
  <2> QED BY <1>1, <2>1, <2>2
<1>3. SpentBy(q.mapTx) = DOMAIN q.mapNextTx
  <2>1. SpentBy(q.mapTx) \cap SpentBy(removed) = {}
    BY <1>1 DEF SpendsOnce, SpentBy
  <2>2. SpentBy(p.mapTx) = SpentBy(q.mapTx) \cup SpentBy(removed)
    BY <1>1 DEF SpentBy
  <2> QED BY <1>1, <2>1, <2>2 DEF SpendsOnce
<1>4. \A t, u \in q.mapTx : t # u => Vin[t] \cap Vin[u] = {}
  BY <1>1 DEF SpendsOnce
<1>5. q.mapTx \subseteq Tx /\ DOMAIN q.mapNextTx \subseteq Tx \X Nat
  BY <1>1 DEF IsPool
<1>6. q.mapNextTx \in [DOMAIN q.mapNextTx -> Tx]
  <2>1. \A o \in DOMAIN q.mapNextTx : q.mapNextTx[o] \in Tx
    BY <1>2, <1>5
  <2> QED BY <1>1, <2>1
<1> HIDE DEF q
<1>7. IsPool(q) /\ SpendsOnce(q)
  BY <1>1, <1>2, <1>3, <1>4, <1>5, <1>6 DEF IsPool, SpendsOnce
<1> QED BY <1>1, <1>7 DEF q

LEMMA EmptyPoolSpendsOnce == IsPool(EmptyPool) /\ SpendsOnce(EmptyPool) /\ EmptyPool.mapTx = {}
<1>1. /\ EmptyPool.mapTx = {}
      /\ DOMAIN EmptyPool = {"mapTx", "mapNextTx"}
      /\ DOMAIN EmptyPool.mapNextTx = {}
      /\ EmptyPool.mapNextTx = [o \in DOMAIN EmptyPool.mapNextTx |-> 0]
  BY DEF EmptyPool
<1>2. EmptyPool.mapNextTx \in [DOMAIN EmptyPool.mapNextTx -> Tx]
  BY <1>1
<1> QED BY <1>1, <1>2 DEF IsPool, SpendsOnce, SpentBy

-----------------------------------------------------------------------------

\* What the code relies on about pool and chain.
PoolInv ==
    /\ best \in Blocks /\ ValidChain(best)
    /\ IsPool(mempool) /\ PoolSpendsOnce
    /\ PoolNotInChain

LEMMA TxdbDomain == best \in Blocks => DOMAIN txdb = TxsOfChain(best)
BY IndexOfChainType DEF txdb

LEMMA InitPoolInv == Init => PoolInv
<1> SUFFICES ASSUME Init PROVE PoolInv
  OBVIOUS
<1>1. best \in Blocks /\ ValidChain(best)
  BY ValidChainGenesis, TreeAssumption DEF TreeAssumption, Init
<1> QED BY <1>1, EmptyPoolSpendsOnce DEF Init, PoolInv, PoolSpendsOnce, PoolNotInChain

\* A transaction that accept takes in, with its inputs checked or without.
LEMMA AddPoolInv ==
    ASSUME PoolInv, NEW t \in Tx, Passes(mempool, t), t \notin DOMAIN txdb,
           mempool' = addUnchecked(mempool, {t}), best' = best
    PROVE  PoolInv'
<1>1. /\ IsPool(mempool') /\ SpendsOnce(mempool')
      /\ mempool'.mapTx = mempool.mapTx \cup {t}
  BY AddUnchecked DEF PoolInv, PoolSpendsOnce
<1>2. txdb' = txdb
  BY DEF txdb
<1> QED BY <1>1, <1>2 DEF PoolInv, PoolSpendsOnce, PoolNotInChain

\* A block on top of the best chain takes its transactions out.
LEMMA ExtendPoolInv ==
    ASSUME PoolInv, NEW b \in Blocks, Extend(b)
    PROVE  PoolInv'
<1>1. b \in Blocks \ {Genesis} /\ Parent[b] = best /\ best' = b /\ ValidChain(b)
  BY DEF Extend
<1>2. /\ IsPool(mempool') /\ SpendsOnce(mempool')
      /\ mempool'.mapTx = mempool.mapTx \ TxsOf[b]
  BY Remove DEF Extend, PoolInv, PoolSpendsOnce
<1>3. DOMAIN txdb' = TxsOf[b] \cup TxsOfChain(best)
  BY <1>1, TxsOfChainStep, IndexOfChainType DEF txdb
<1>4. mempool.mapTx \cap TxsOfChain(best) = {}
  BY TxdbDomain DEF PoolInv, PoolNotInChain
<1> QED BY <1>1, <1>2, <1>3, <1>4 DEF PoolInv, PoolSpendsOnce, PoolNotInChain

\* No transaction of the branch that is left is on the part of the chain that
\* stays.
LEMMA BranchesShareNothing ==
    ASSUME NEW a \in Blocks, NEW b \in Blocks,
           NEW d \in Chain[a] \ Chain[b], NEW x \in Chain[a] \cap Chain[b]
    PROVE  TxsOf[x] \cap TxsOf[d] = {}
<1>1. d \in Blocks /\ x \in Blocks
  BY ChainClosed
<1>2. d \notin Chain[x]
  BY <1>1, ChainMonotone
<1>3. x \in Chain[d] \ {d}
  BY <1>2, ChainIsLinear
<1> QED BY <1>1, <1>3, NoRepeatAssumption DEF NoRepeatAssumption

\* Reorganize: what leaves the chain may come back to the pool, and what
\* enters it goes out of the pool.
LEMMA ReorganizePoolInv ==
    ASSUME PoolInv, NEW b \in Blocks, Reorganize(b)
    PROVE  PoolInv'
<1> DEFINE left == TxsOfBlocks(Chain[best] \ Chain[b])
           entered == TxsOfBlocks(Chain[b] \ Chain[best])
           back == {t \in left : Passes(mempool, t)}
           p == Resurrect(mempool, left)
<1>1. best \in Blocks /\ best' = b /\ ValidChain(b) /\ ValidChain(best) /\ mempool' = remove(p, entered)
  BY DEF Reorganize, PoolInv
<1>2. Genesis \in Chain[b] /\ Genesis \in Chain[best]
  BY <1>1, GenesisOnChain
<1>3. left \subseteq TxsOfChain(best) /\ left \subseteq Tx
  <2>1. left \subseteq TxsOfChain(best)
    BY <1>2 DEF TxsOfBlocks, TxsOfChain, Connected
  <2> QED BY <2>1, <1>1, TxsOfChainType
<1>4. \A t, u \in back : t # u => Vin[t] \cap Vin[u] = {}
  BY <1>1, <1>3, ValidChainSpendsOnce
<1>5. IsPool(p) /\ SpendsOnce(p) /\ p.mapTx = mempool.mapTx \cup back
  <2>1. back \in SUBSET Tx /\ \A t \in back : Passes(mempool, t)
    BY <1>3
  <2>2. p = addUnchecked(mempool, back)
    BY DEF Resurrect
  <2> HIDE DEF back
  <2> QED BY <1>4, <2>1, <2>2, AddUnchecked DEF PoolInv, PoolSpendsOnce
<1>6. /\ IsPool(mempool') /\ SpendsOnce(mempool')
      /\ mempool'.mapTx = (mempool.mapTx \cup back) \ entered
  BY <1>1, <1>5, Remove
<1>7. DOMAIN txdb' = TxsOfChain(b)
  BY <1>1, IndexOfChainType DEF txdb
<1>8. ASSUME NEW t \in mempool'.mapTx, t \in TxsOfChain(b)
      PROVE  FALSE
  <2>1. PICK x \in Chain[b] \ {Genesis} : t \in TxsOf[x]
    BY <1>8 DEF TxsOfChain, Connected
  <2>2. x \in Chain[best]
    BY <1>6, <2>1 DEF TxsOfBlocks
  <2>3. t \in TxsOfChain(best)
    BY <2>1, <2>2 DEF TxsOfChain, Connected
  <2>4. t \notin mempool.mapTx
    BY <2>3, <1>1, TxdbDomain DEF PoolInv, PoolNotInChain
  <2>5. PICK d \in Chain[best] \ Chain[b] : t \in TxsOf[d]
    BY <1>6, <2>4 DEF TxsOfBlocks
  <2> QED BY <1>1, <2>1, <2>2, <2>5, BranchesShareNothing
<1> QED BY <1>1, <1>6, <1>7, <1>8 DEF PoolInv, PoolSpendsOnce, PoolNotInChain

LEMMA NextPoolInv == PoolInv /\ [Next]_vars => PoolInv'
<1> SUFFICES ASSUME PoolInv, [Next]_vars PROVE PoolInv'
  OBVIOUS
<1>1. ASSUME UNCHANGED <<best, mempool>>
      PROVE  PoolInv'
  BY <1>1 DEF PoolInv, PoolSpendsOnce, PoolNotInChain, txdb
<1>2. ASSUME NEW t \in Tx, TxMessage(t)
      PROVE  PoolInv'
  <2>1. CASE mempool' = mempool
    BY <1>1, <1>2, <2>1 DEF TxMessage
  <2>2. CASE Acceptable(t) /\ mempool' = addUnchecked(mempool, {t})
    BY <1>2, <2>2, AddPoolInv DEF TxMessage, Acceptable, Fetches
  <2> QED BY <1>2, <2>1, <2>2 DEF TxMessage
<1>3. ASSUME NEW u \in mapOrphanTransactions, VisitOrphanTx(u)
      PROVE  PoolInv'
  <2>1. CASE mempool' = mempool
    BY <1>1, <1>3, <2>1 DEF VisitOrphanTx
  <2>2. CASE Acceptable(u) /\ mempool' = addUnchecked(mempool, {u})
    <3>1. u \in Tx
      BY <2>2 DEF Acceptable, Fetches, Passes, Loose
    <3> QED BY <1>3, <2>2, <3>1, AddPoolInv DEF VisitOrphanTx, Acceptable, Fetches
  <2> QED BY <1>3, <2>1, <2>2 DEF VisitOrphanTx
<1>4. CASE NextTxInQueue
  BY <1>1, <1>4 DEF NextTxInQueue
<1>5. ASSUME NEW t \in Tx, CommitTransaction(t)
      PROVE  PoolInv'
  BY <1>5, AddPoolInv DEF CommitTransaction, Acceptable, Fetches
<1>6. ASSUME NEW t \in Tx, ReacceptWalletTransaction(t)
      PROVE  PoolInv'
  BY <1>6, AddPoolInv DEF ReacceptWalletTransaction
<1>7. CASE Restart
  BY <1>7, EmptyPoolSpendsOnce DEF Restart, PoolInv, PoolSpendsOnce, PoolNotInChain
<1>8. CASE UNCHANGED vars
  BY <1>1, <1>8 DEF vars
<1> QED
  BY <1>2, <1>3, <1>4, <1>5, <1>6, <1>7, <1>8, ExtendPoolInv, ReorganizePoolInv DEF Next

THEOREM PoolInvHolds == Spec => []PoolInv
BY InitPoolInv, NextPoolInv, PTL DEF Spec

\* No two transactions of the pool spend one output, over every move of the
\* best chain, and mapNextTx names the one that does (accept, remove,
\* Reorganize).
THEOREM PoolAlwaysSpendsOnce == Spec => []PoolSpendsOnce
<1>1. PoolInv => PoolSpendsOnce
  BY DEF PoolInv
<1> QED BY <1>1, PoolInvHolds, PTL

\* No transaction is in the pool and in the best chain at once, over every
\* extension and reorganization (SetBestChainInner, Reorganize).
THEOREM PoolNeverInChain == Spec => []PoolNotInChain
<1>1. PoolInv => PoolNotInChain
  BY DEF PoolInv
<1> QED BY <1>1, PoolInvHolds, PTL

-----------------------------------------------------------------------------

OrphanTxsInv ==
    /\ mapOrphanTransactions \subseteq Tx /\ IsFiniteSet(mapOrphanTransactions)
    /\ OrphanTxMapsAgree
    /\ OrphanTxsLimited

LEMMA InitOrphanTxsInv == Init => OrphanTxsInv
<1> SUFFICES ASSUME Init PROVE OrphanTxsInv
  OBVIOUS
<1>1. /\ mapOrphanTransactions = {} /\ mapOrphanTransactionsByPrev = {}
      /\ MaxOrphans \in Nat
  BY PoolAssumption DEF Init, PoolAssumption
<1>2. IsFiniteSet(mapOrphanTransactions) /\ Cardinality(mapOrphanTransactions) = 0
  BY <1>1, FS_EmptySet
<1> QED BY <1>1, <1>2 DEF OrphanTxsInv, OrphanTxMapsAgree, OrphanTxsLimited

LEMMA EraseOrphanTxsInv ==
    ASSUME OrphanTxsInv, NEW T, EraseOrphanTxs(T)
    PROVE  OrphanTxsInv'
<1>1. mapOrphanTransactions' \in SUBSET mapOrphanTransactions
  BY DEF EraseOrphanTxs
<1>2. /\ IsFiniteSet(mapOrphanTransactions')
      /\ Cardinality(mapOrphanTransactions') <= Cardinality(mapOrphanTransactions)
  BY <1>1, FS_Subset DEF OrphanTxsInv
<1>3. Cardinality(mapOrphanTransactions') \in Nat /\ Cardinality(mapOrphanTransactions) \in Nat
  BY <1>2, FS_CardinalityType DEF OrphanTxsInv
<1>4. OrphanTxsLimited'
  BY <1>2, <1>3, PoolAssumption DEF PoolAssumption, OrphanTxsInv, OrphanTxsLimited
<1>5. OrphanTxMapsAgree'
  BY DEF EraseOrphanTxs, OrphanTxsInv, OrphanTxMapsAgree
<1> QED BY <1>1, <1>2, <1>4, <1>5 DEF OrphanTxsInv

LEMMA StoreOrphanTxInv ==
    ASSUME OrphanTxsInv, NEW t \in Tx, StoreOrphanTx(t)
    PROVE  OrphanTxsInv'
<1> DEFINE M == mapOrphanTransactions
           S == M \cup {t}
<1>1. IsFiniteSet(M) /\ Cardinality(M) \in Nat /\ Cardinality(M) <= MaxOrphans /\ MaxOrphans \in Nat
  BY FS_CardinalityType, PoolAssumption DEF PoolAssumption, OrphanTxsInv, OrphanTxsLimited
<1>2. IsFiniteSet(S) /\ Cardinality(S) \in Nat /\ Cardinality(S) <= MaxOrphans + 1
  <2>1. /\ IsFiniteSet(S)
        /\ Cardinality(S) = IF t \in M THEN Cardinality(M) ELSE Cardinality(M) + 1
    BY <1>1, FS_AddElement
  <2> HIDE DEF M, S
  <2> QED BY <1>1, <2>1
<1>3. PICK evicted \in SUBSET S :
         /\ Cardinality(evicted) = (IF Cardinality(S) > MaxOrphans THEN 1 ELSE 0)
         /\ mapOrphanTransactions' = S \ evicted
         /\ mapOrphanTransactionsByPrev' =
               {w \in mapOrphanTransactionsByPrev \cup {<<o[1], t>> : o \in Vin[t]} :
                     w[2] \notin evicted}
  BY DEF StoreOrphanTx
<1>4. IsFiniteSet(S \ evicted) /\ Cardinality(S \ evicted) = Cardinality(S) - Cardinality(evicted)
  <2>1. S \cap evicted = evicted
    BY <1>3
  <2> QED BY <1>2, <2>1, FS_Difference
<1>5. OrphanTxsLimited'
  BY <1>1, <1>2, <1>3, <1>4 DEF OrphanTxsLimited
<1>6. OrphanTxMapsAgree'
  BY <1>3 DEF OrphanTxsInv, OrphanTxMapsAgree
<1> QED BY <1>3, <1>4, <1>5, <1>6 DEF OrphanTxsInv

LEMMA NextOrphanTxsInv == OrphanTxsInv /\ [Next]_vars => OrphanTxsInv'
<1> SUFFICES ASSUME OrphanTxsInv, [Next]_vars PROVE OrphanTxsInv'
  OBVIOUS
<1>1. ASSUME UNCHANGED orphanTxs
      PROVE  OrphanTxsInv'
  BY <1>1 DEF orphanTxs, OrphanTxsInv, OrphanTxMapsAgree, OrphanTxsLimited
<1>2. ASSUME NEW t \in Tx, TxMessage(t)
      PROVE  OrphanTxsInv'
  BY <1>1, <1>2, StoreOrphanTxInv DEF TxMessage
<1>3. CASE NextTxInQueue
  BY <1>1, <1>3, EraseOrphanTxsInv DEF NextTxInQueue
<1>4. CASE Restart
  <2>1. EraseOrphanTxs(mapOrphanTransactions)
    BY <1>4 DEF Restart, EraseOrphanTxs, OrphanTxsInv, OrphanTxMapsAgree
  <2> QED BY <2>1, EraseOrphanTxsInv
<1>5. CASE UNCHANGED vars
  BY <1>1, <1>5 DEF vars
<1>6. ASSUME NEW u \in mapOrphanTransactions, VisitOrphanTx(u)
      PROVE  OrphanTxsInv'
  BY <1>1, <1>6 DEF VisitOrphanTx
<1>7. ASSUME NEW t \in Tx, CommitTransaction(t) \/ ReacceptWalletTransaction(t)
      PROVE  OrphanTxsInv'
  BY <1>1, <1>7 DEF CommitTransaction, ReacceptWalletTransaction
<1>8. ASSUME NEW b \in Blocks, Extend(b) \/ Reorganize(b)
      PROVE  OrphanTxsInv'
  BY <1>1, <1>8 DEF Extend, Reorganize
<1> QED BY <1>2, <1>3, <1>4, <1>5, <1>6, <1>7, <1>8 DEF Next

THEOREM OrphanTxsInvHolds == Spec => []OrphanTxsInv
BY InitOrphanTxsInv, NextOrphanTxsInv, PTL DEF Spec

\* The two maps of orphan transactions agree, whatever is evicted, and hold no
\* more than MAX_ORPHAN_TRANSACTIONS (AddOrphanTx, LimitOrphanTxSize).
THEOREM OrphanTxMapsAlwaysAgree == Spec => [](OrphanTxMapsAgree /\ OrphanTxsLimited)
<1>1. OrphanTxsInv => OrphanTxMapsAgree /\ OrphanTxsLimited
  BY DEF OrphanTxsInv
<1> QED BY <1>1, OrphanTxsInvHolds, PTL

-----------------------------------------------------------------------------

\* A turn of the outer loop is to come, or under way, that visits u.
Pending(u) ==
    \E k \in i + 1 .. Len(vWorkQueue) :
        /\ <<vWorkQueue[k], u>> \in mapOrphanTransactionsByPrev
        /\ k = i + 1 => u \notin visited

SpendsAccepted(u) == \E t \in accepted : <<t, u>> \in mapOrphanTransactionsByPrev

ReleaseInv ==
    /\ vWorkQueue \in Seq(Tx) /\ i \in Nat
    /\ Free => accepted = {} /\ visited = {} /\ i = 0
    /\ ~Free => i < Len(vWorkQueue)
    /\ \A u \in mapOrphanTransactions :
          SpendsAccepted(u) =>
              u \in vEraseQueue \/ MissingInputs(mempool, u) \/ Pending(u)

LEMMA InitReleaseInv == Init => ReleaseInv
BY DEF Init, ReleaseInv, Free, SpendsAccepted

\* Between two messages nothing is accepted by one.
LEMMA FreeReleaseInv ==
    ASSUME ReleaseInv, Free, UNCHANGED queues
    PROVE  ReleaseInv'
BY DEF ReleaseInv, Free, queues, SpendsAccepted

LEMMA TxMessageReleaseInv ==
    ASSUME ReleaseInv, NEW t \in Tx, TxMessage(t)
    PROVE  ReleaseInv'
<1>1. Free /\ visited = {} /\ i = 0 /\ visited' = {} /\ i' = 0
  BY DEF TxMessage, ReleaseInv
<1>2. CASE vWorkQueue' = vWorkQueue /\ accepted' = accepted
  BY <1>1, <1>2 DEF ReleaseInv, Free, SpendsAccepted
<1>3. CASE vWorkQueue' = <<t>> /\ accepted' = {t}
  <2>1. vWorkQueue' \in Seq(Tx) /\ Len(vWorkQueue') = 1 /\ vWorkQueue'[1] = t
    BY <1>3
  <2>2. \A u : SpendsAccepted(u)' => Pending(u)'
    BY <1>1, <1>3, <2>1 DEF SpendsAccepted, Pending
  <2>3. vWorkQueue' # <<>>
    BY <1>3
  <2>4. ~Free' /\ i' \in Nat /\ i' < Len(vWorkQueue')
    BY <1>1, <2>1, <2>3 DEF Free
  <2> QED BY <2>1, <2>2, <2>4 DEF ReleaseInv
<1> QED BY <1>2, <1>3 DEF TxMessage

\* An orphan that is accepted gets a turn, so the orphans it was missing from
\* have one to come.
LEMMA VisitReleaseInv ==
    ASSUME ReleaseInv, OrphanTxsInv, NEW u \in mapOrphanTransactions, VisitOrphanTx(u)
    PROVE  ReleaseInv'
<1>1. /\ vWorkQueue \in Seq(Tx) /\ i \in Nat /\ i < Len(vWorkQueue) /\ ~Free
      /\ visited' = visited \cup {u} /\ i' = i /\ best' = best /\ u \in Tx
      /\ UNCHANGED orphanTxs
  BY DEF ReleaseInv, VisitOrphanTx, OrphanTxsInv
<1>2. txdb' = txdb
  BY <1>1 DEF txdb
<1>3. CASE /\ vEraseQueue \subseteq vEraseQueue'
           /\ u \notin vEraseQueue' => MissingInputs(mempool, u)
           /\ mempool' = mempool /\ vWorkQueue' = vWorkQueue /\ accepted' = accepted
  <2> SUFFICES ASSUME NEW w \in mapOrphanTransactions, SpendsAccepted(w)
               PROVE  w \in vEraseQueue' \/ MissingInputs(mempool, w) \/ Pending(w)'
    BY <1>1, <1>2, <1>3 DEF ReleaseInv, Free, orphanTxs, SpendsAccepted, MissingInputs
  <2>1. CASE w \in vEraseQueue \/ MissingInputs(mempool, w)
    BY <1>3, <2>1
  <2>2. CASE Pending(w) /\ w # u
    BY <1>1, <1>3, <2>2 DEF Pending, orphanTxs
  <2>3. CASE w = u
    BY <1>3, <2>3
  <2> QED BY <2>1, <2>2, <2>3 DEF ReleaseInv
<1>4. CASE /\ mempool' = addUnchecked(mempool, {u})
           /\ vWorkQueue' = Append(vWorkQueue, u)
           /\ vEraseQueue' = vEraseQueue \cup {u} /\ accepted' = accepted \cup {u}
  <2>1. /\ vWorkQueue' \in Seq(Tx) /\ Len(vWorkQueue') = Len(vWorkQueue) + 1
        /\ vWorkQueue'[Len(vWorkQueue) + 1] = u
        /\ \A k \in 1 .. Len(vWorkQueue) : vWorkQueue'[k] = vWorkQueue[k]
    BY <1>1, <1>4
  <2>2. mempool'.mapTx = mempool.mapTx \cup {u}
    BY <1>4 DEF addUnchecked
  <2>3. \A w : <<u, w>> \in mapOrphanTransactionsByPrev => Pending(w)'
    <3>1. /\ Len(vWorkQueue) \in Nat
          /\ Len(vWorkQueue) + 1 \in i' + 1 .. Len(vWorkQueue')
          /\ Len(vWorkQueue) + 1 # i' + 1
      BY <1>1, <2>1
    <3>2. mapOrphanTransactionsByPrev' = mapOrphanTransactionsByPrev
      BY <1>1 DEF orphanTxs
    <3> QED BY <2>1, <3>1, <3>2 DEF Pending
  <2>4. ASSUME NEW w \in mapOrphanTransactions, SpendsAccepted(w)'
        PROVE  w \in vEraseQueue' \/ MissingInputs(mempool, w)' \/ Pending(w)'
    <3>1. CASE <<u, w>> \in mapOrphanTransactionsByPrev
      BY <2>3, <3>1
    <3>2. CASE <<u, w>> \notin mapOrphanTransactionsByPrev
      <4>1. SpendsAccepted(w)
        BY <1>1, <1>4, <2>4, <3>2 DEF SpendsAccepted, orphanTxs
      <4>2. CASE w \in vEraseQueue \/ w = u
        BY <1>4, <4>2
      <4>3. CASE MissingInputs(mempool, w)
        <5>1. \A o \in Vin[w] : o[1] # u
          BY <3>2, <2>4 DEF OrphanTxsInv, OrphanTxMapsAgree
        <5> QED BY <1>2, <2>2, <4>3, <5>1 DEF MissingInputs
      <4>4. CASE Pending(w) /\ w # u
        <5>1. PICK k \in i + 1 .. Len(vWorkQueue) :
                 /\ <<vWorkQueue[k], w>> \in mapOrphanTransactionsByPrev
                 /\ k = i + 1 => w \notin visited
          BY <4>4 DEF Pending
        <5>2. Len(vWorkQueue) \in Nat /\ k \in 1 .. Len(vWorkQueue) /\ k \in i' + 1 .. Len(vWorkQueue')
          BY <1>1, <2>1
        <5>3. vWorkQueue'[k] = vWorkQueue[k] /\ (k = i' + 1 => w \notin visited')
          BY <1>1, <2>1, <4>4, <5>1, <5>2
        <5> QED BY <1>1, <5>1, <5>2, <5>3 DEF Pending, orphanTxs
      <4> QED BY <4>1, <4>2, <4>3, <4>4 DEF ReleaseInv
    <3> QED BY <3>1, <3>2
  <2>5. ~Free' /\ i' < Len(vWorkQueue')
    BY <1>1, <2>1 DEF Free
  <2>6. mapOrphanTransactions' = mapOrphanTransactions /\ i' \in Nat
    BY <1>1 DEF orphanTxs
  <2> QED BY <2>1, <2>4, <2>5, <2>6 DEF ReleaseInv
<1>5. CASE /\ vEraseQueue' = vEraseQueue \cup {u}
           /\ mempool' = mempool /\ vWorkQueue' = vWorkQueue /\ accepted' = accepted
  BY <1>3, <1>5
<1>6. CASE /\ IsMissing(u) /\ vEraseQueue' = vEraseQueue
           /\ mempool' = mempool /\ vWorkQueue' = vWorkQueue /\ accepted' = accepted
  BY <1>3, <1>6 DEF IsMissing
<1> QED BY <1>4, <1>5, <1>6 DEF VisitOrphanTx

LEMMA NextTxReleaseInv ==
    ASSUME ReleaseInv, NextTxInQueue
    PROVE  ReleaseInv'
<1>1. CASE i + 1 = Len(vWorkQueue)
  <2>1. vWorkQueue' = <<>> /\ i' = 0 /\ accepted' = {} /\ visited' = {}
    BY <1>1 DEF NextTxInQueue
  <2> QED BY <2>1 DEF ReleaseInv, Free, SpendsAccepted
<1>2. CASE i + 1 # Len(vWorkQueue)
  <2>1. /\ vWorkQueue \in Seq(Tx) /\ i \in Nat /\ i < Len(vWorkQueue) /\ ~Free
        /\ Waiting \subseteq visited /\ visited' = {} /\ i' = i + 1
        /\ UNCHANGED <<best, mempool, vWorkQueue, vEraseQueue, accepted>> /\ UNCHANGED orphanTxs
    BY <1>2 DEF NextTxInQueue, ReleaseInv
  <2>2. Len(vWorkQueue) \in Nat /\ i' < Len(vWorkQueue)
    BY <1>2, <2>1
  <2>3. ASSUME NEW u \in mapOrphanTransactions, Pending(u)
        PROVE  Pending(u)'
    <3>1. PICK k \in i + 1 .. Len(vWorkQueue) :
             /\ <<vWorkQueue[k], u>> \in mapOrphanTransactionsByPrev
             /\ k = i + 1 => u \notin visited
      BY <2>3 DEF Pending
    <3>2. k # i + 1
      BY <2>1, <3>1 DEF Waiting
    <3>3. k \in i' + 1 .. Len(vWorkQueue')
      BY <2>1, <2>2, <3>2
    <3> QED BY <2>1, <3>1, <3>3 DEF Pending, orphanTxs
  <2>4. \A u : (SpendsAccepted(u)' <=> SpendsAccepted(u))
               /\ (MissingInputs(mempool, u)' <=> MissingInputs(mempool, u))
    BY <2>1 DEF SpendsAccepted, MissingInputs, txdb, orphanTxs
  <2> QED BY <2>1, <2>2, <2>3, <2>4 DEF ReleaseInv, Free, orphanTxs
<1> QED BY <1>1, <1>2

LEMMA NextReleaseInv == ReleaseInv /\ OrphanTxsInv /\ [Next]_vars => ReleaseInv'
<1> SUFFICES ASSUME ReleaseInv, OrphanTxsInv, [Next]_vars PROVE ReleaseInv'
  OBVIOUS
<1>1. ASSUME NEW t \in Tx, CommitTransaction(t) \/ ReacceptWalletTransaction(t)
      PROVE  ReleaseInv'
  BY <1>1, FreeReleaseInv DEF CommitTransaction, ReacceptWalletTransaction
<1>2. ASSUME NEW b \in Blocks, Extend(b) \/ Reorganize(b)
      PROVE  ReleaseInv'
  BY <1>2, FreeReleaseInv DEF Extend, Reorganize
<1>3. CASE Restart
  BY <1>3 DEF Restart, ReleaseInv, Free, SpendsAccepted
<1>4. CASE UNCHANGED vars
  BY <1>4 DEF vars, queues, orphanTxs, ReleaseInv, Free, SpendsAccepted, Pending,
              MissingInputs, txdb
<1> QED
  BY <1>1, <1>2, <1>3, <1>4, TxMessageReleaseInv, VisitReleaseInv, NextTxReleaseInv DEF Next

\* When a "tx" message has been processed, no orphan is left that spends what
\* it accepted and has all its inputs, through any number of levels ("tx" in
\* ProcessMessage).
THEOREM AcceptedAlwaysReleasesOrphans == Spec => AcceptedReleasesOrphans
<1> DEFINE Released == ~Free /\ vWorkQueue' = <<>> /\ mempool' # EmptyPool =>
                          \A u \in mapOrphanTransactions' :
                              (\E t \in accepted : <<t, u>> \in mapOrphanTransactionsByPrev)
                                  => MissingInputs(mempool, u)
<1>1. ReleaseInv /\ [Next]_vars => [Released]_vars
  <2> SUFFICES ASSUME ReleaseInv, [Next]_vars, ~Free, vWorkQueue' = <<>>, mempool' # EmptyPool,
                      NEW u \in mapOrphanTransactions', SpendsAccepted(u), vars' # vars
               PROVE  MissingInputs(mempool, u)
    BY DEF SpendsAccepted
  <2>1. NextTxInQueue
    <3>1. ASSUME NEW w \in mapOrphanTransactions, VisitOrphanTx(w) PROVE FALSE
      BY <3>1 DEF VisitOrphanTx, ReleaseInv, Free
    <3>2. ~Restart /\ ~UNCHANGED vars
      BY DEF Restart
    <3> QED
      BY <3>1, <3>2 DEF Next, TxMessage, CommitTransaction, ReacceptWalletTransaction,
                        Extend, Reorganize
  <2>2. i + 1 = Len(vWorkQueue) /\ Waiting \subseteq visited /\ EraseOrphanTxs(vEraseQueue)
    BY <2>1 DEF NextTxInQueue, Free
  <2>3. u \in mapOrphanTransactions \ vEraseQueue
    BY <2>2 DEF EraseOrphanTxs
  <2>4. ~Pending(u)
    <3>1. ASSUME NEW k \in i + 1 .. Len(vWorkQueue),
                 <<vWorkQueue[k], u>> \in mapOrphanTransactionsByPrev
          PROVE  k = i + 1 /\ u \in visited
      <4>1. i \in Nat /\ k = i + 1
        BY <2>2 DEF ReleaseInv
      <4>2. u \in Waiting
        BY <2>3, <3>1, <4>1 DEF Waiting
      <4> QED BY <2>2, <4>1, <4>2
    <3> QED BY <3>1 DEF Pending
  <2> QED BY <2>3, <2>4 DEF ReleaseInv
<1>2. Spec => []ReleaseInv
  BY InitReleaseInv, NextReleaseInv, OrphanTxsInvHolds, PTL DEF Spec
<1> QED BY <1>1, <1>2, PTL DEF Spec, AcceptedReleasesOrphans

-----------------------------------------------------------------------------

TypesInv ==
    /\ vEraseQueue \subseteq Tx /\ visited \subseteq Tx /\ accepted \subseteq Tx
    /\ disturbed \in BOOLEAN

LEMMA NextTypesInv == OrphanTxsInv /\ TypesInv /\ [Next]_vars => TypesInv'
<1> SUFFICES ASSUME OrphanTxsInv, TypesInv, [Next]_vars PROVE TypesInv'
  OBVIOUS
<1> USE DEF TypesInv
<1>1. ASSUME NEW t \in Tx, TxMessage(t) PROVE TypesInv'
  BY <1>1 DEF TxMessage
<1>2. ASSUME NEW u \in mapOrphanTransactions, VisitOrphanTx(u) PROVE TypesInv'
  BY <1>2 DEF VisitOrphanTx, OrphanTxsInv
<1>3. CASE NextTxInQueue
  BY <1>3 DEF NextTxInQueue
<1>4. ASSUME NEW t \in Tx, CommitTransaction(t) \/ ReacceptWalletTransaction(t)
      PROVE  TypesInv'
  BY <1>4 DEF CommitTransaction, ReacceptWalletTransaction, queues
<1>5. ASSUME NEW b \in Blocks, Extend(b) \/ Reorganize(b) PROVE TypesInv'
  BY <1>5 DEF Extend, Reorganize, queues
<1>6. CASE Restart
  BY <1>6 DEF Restart
<1>7. CASE UNCHANGED vars
  BY <1>7 DEF vars, queues
<1> QED BY <1>1, <1>2, <1>3, <1>4, <1>5, <1>6, <1>7 DEF Next

\* Every variable of MemPool keeps its type.
THEOREM PoolTypeCorrect == Spec => []TypeOK
<1>1. Init => TypesInv
  BY DEF Init, TypesInv
<1>2. PoolInv /\ OrphanTxsInv /\ ReleaseInv /\ TypesInv => TypeOK
  <2> SUFFICES ASSUME PoolInv, OrphanTxsInv, ReleaseInv, TypesInv PROVE TypeOK
    OBVIOUS
  <2>1. mapOrphanTransactionsByPrev \subseteq Tx \X Tx
    BY TxAssumption DEF TxAssumption, OrphanTxsInv, OrphanTxMapsAgree
  <2>2. i < Len(vWorkQueue) + (IF vWorkQueue = <<>> THEN 1 ELSE 0)
    BY DEF ReleaseInv, Free
  <2> QED BY <2>1, <2>2 DEF TypeOK, PoolInv, OrphanTxsInv, ReleaseInv, TypesInv
<1>3. Spec => []TypesInv
  BY <1>1, NextTypesInv, OrphanTxsInvHolds, PTL DEF Spec
<1>4. Spec => []ReleaseInv
  BY InitReleaseInv, NextReleaseInv, OrphanTxsInvHolds, PTL DEF Spec
<1> QED BY <1>2, <1>3, <1>4, PoolInvHolds, OrphanTxsInvHolds, PTL

LEMMA NextPoolConnects ==
    PoolInv /\ PoolConnectsWhileGrowing /\ [Next]_vars => PoolConnectsWhileGrowing'
<1> SUFFICES ASSUME PoolInv, PoolConnectsWhileGrowing, [Next]_vars
             PROVE  PoolConnectsWhileGrowing'
  OBVIOUS
<1>1. ASSUME UNCHANGED <<best, mempool, disturbed>>
      PROVE  PoolConnectsWhileGrowing'
  BY <1>1 DEF PoolConnectsWhileGrowing, MissingInputs, txdb
<1>2. ASSUME NEW t, Acceptable(t), mempool' = addUnchecked(mempool, {t}),
             best' = best, disturbed' = disturbed
      PROVE  PoolConnectsWhileGrowing'
  <2>1. mempool'.mapTx = mempool.mapTx \cup {t}
    BY <1>2 DEF addUnchecked
  <2>2. ~MissingInputs(mempool, t) /\ txdb' = txdb
    BY <1>2 DEF Acceptable, txdb
  <2> QED BY <1>2, <2>1, <2>2 DEF PoolConnectsWhileGrowing, MissingInputs
<1>3. ASSUME NEW b \in Blocks, Extend(b)
      PROVE  PoolConnectsWhileGrowing'
  <2>1. b \in Blocks \ {Genesis} /\ Parent[b] = best /\ best' = b /\ disturbed' = disturbed
    BY <1>3 DEF Extend
  <2>2. mempool'.mapTx = mempool.mapTx \ TxsOf[b]
    BY <1>3, Remove DEF Extend, PoolInv, PoolSpendsOnce
  <2>3. DOMAIN txdb = TxsOfChain(best) /\ DOMAIN txdb' = TxsOf[b] \cup TxsOfChain(best)
    BY <2>1, TxsOfChainStep, IndexOfChainType DEF txdb, PoolInv
  <2> QED BY <2>1, <2>2, <2>3 DEF PoolConnectsWhileGrowing, MissingInputs
<1>4. CASE Restart
  BY <1>4, EmptyPoolSpendsOnce DEF Restart, PoolConnectsWhileGrowing
<1>5. ASSUME NEW t \in Tx, TxMessage(t)
      PROVE  PoolConnectsWhileGrowing'
  <2>1. CASE mempool' = mempool
    BY <1>1, <1>5, <2>1 DEF TxMessage
  <2>2. CASE Acceptable(t) /\ mempool' = addUnchecked(mempool, {t})
    BY <1>2, <1>5, <2>2 DEF TxMessage
  <2> QED BY <1>5, <2>1, <2>2 DEF TxMessage
<1>6. ASSUME NEW u \in mapOrphanTransactions, VisitOrphanTx(u)
      PROVE  PoolConnectsWhileGrowing'
  <2>1. CASE mempool' = mempool
    BY <1>1, <1>6, <2>1 DEF VisitOrphanTx
  <2>2. CASE Acceptable(u) /\ mempool' = addUnchecked(mempool, {u})
    BY <1>2, <1>6, <2>2 DEF VisitOrphanTx
  <2> QED BY <1>6, <2>1, <2>2 DEF VisitOrphanTx
<1>7. ASSUME NEW t \in Tx, CommitTransaction(t) \/ ReacceptWalletTransaction(t)
      PROVE  PoolConnectsWhileGrowing'
  BY <1>2, <1>7 DEF CommitTransaction, ReacceptWalletTransaction, PoolConnectsWhileGrowing
<1>8. CASE NextTxInQueue
  BY <1>1, <1>8 DEF NextTxInQueue
<1>9. CASE UNCHANGED vars
  BY <1>1, <1>9 DEF vars
<1>10. ASSUME NEW b \in Blocks, Reorganize(b)
       PROVE  PoolConnectsWhileGrowing'
  BY <1>10 DEF Reorganize, PoolConnectsWhileGrowing
<1> QED
  BY <1>3, <1>4, <1>5, <1>6, <1>7, <1>8, <1>9, <1>10 DEF Next

\* As long as the chain only grows and inputs are checked, every input of a
\* transaction in the pool comes from the chain or the pool (accept, remove).
THEOREM PoolAlwaysConnectsWhileGrowing == Spec => []PoolConnectsWhileGrowing
<1>1. Init => PoolConnectsWhileGrowing
  BY EmptyPoolSpendsOnce DEF Init, PoolConnectsWhileGrowing
<1> QED BY <1>1, NextPoolConnects, PoolInvHolds, PTL DEF Spec
=============================================================================
