-------------------------- MODULE BlockChainProofs --------------------------
(***************************************************************************)
(* Proofs about BlockChain, for every tree of blocks, every choice of      *)
(* transactions and any number of faults.  The inductive invariant IInv    *)
(* adds to TypeOK where the locals of SetBestChain point and what the open *)
(* transaction holds between two of its steps.  It does not say why        *)
(* SetBestChain was called, so that it also holds where a checkpoint moves *)
(* the node to a lighter chain; TrustInv adds that the chain is heavier.   *)
(***************************************************************************)
EXTENDS BlockChain, TxIndexProofs

Calling == {"SetBestChain", "Further", "Publish"} \cup Working

\* The index on disk and the one in memory hold the same blocks, with every
\* block its ancestors, and the best blocks are among them.
IndexInv ==
    /\ mapBlockIndex = db.blockindex
    /\ Genesis \in mapBlockIndex /\ ClosedUnderParent(mapBlockIndex)
    /\ pindexBest \in mapBlockIndex /\ db.hashBestChain \in mapBlockIndex

\* The locals of the call under way.
CallInv ==
    /\ pc \in Calling => pindexNew \in mapBlockIndex
    /\ pc \in Working \cup {"Further"} => goal \in Chain[pindexNew]
    /\ pc = "Further" => goal # pindexNew
    /\ pc = "Extend" => goal = pindexNew
    /\ pc \in Working =>
          /\ base \in Blocks
          /\ cursor \in Chain[base] \cup Chain[goal]
          /\ Chain[base] \cap Chain[goal] \subseteq Chain[cursor]

\* The open transaction knows the blocks the database knows.
BatchInv ==
    /\ pc \notin Working => batch = Null
    /\ pc \in Working => IsDatabase(batch) /\ batch.blockindex = db.blockindex

\* The database stands at a valid chain with its index, and the open
\* transaction at the chain that ends in cursor.
ChainInv ==
    ~diverged =>
        /\ ValidChain(db.hashBestChain)
        /\ db.tx = IndexOfChain(db.hashBestChain)
        /\ pc = "Further" => goal = db.hashBestChain
        /\ pc \in Working =>
              /\ base = db.hashBestChain
              /\ ValidChain(cursor)
              /\ batch.tx = IndexOfChain(cursor)

\* The links that lead from the genesis block to b and nowhere else.
LinksOf(b) ==
    [x \in Blocks |-> IF x \in Chain[b] \ {b} THEN NextOnChain(x, b) ELSE Null]

\* The links on disk lead to the best chain and those in memory are the same,
\* while the links of the open transaction lead to cursor.
LinksInv ==
    ~diverged =>
        /\ db.hashNext = LinksOf(db.hashBestChain)
        /\ pc # "down" => pnext = db.hashNext
        /\ pc \in Working => batch.hashNext = LinksOf(cursor)

IInv == TypeOK /\ IndexInv /\ CallInv /\ BatchInv /\ ChainInv /\ LinksInv

\* A switch leads to a heavier chain, or back along the best one.
TrustInv ==
    /\ pc = "SetBestChain" => MakesBest(pindexNew) \/ pindexNew \in Chain[pindexBest]
    /\ pc \in Working => ChainTrust[goal] > ChainTrust[base] \/ goal \in Chain[base]

-----------------------------------------------------------------------------

\* What each kind of write does to a database.
LEMMA WriteBlockIndex ==
    ASSUME NEW d, IsDatabase(d), NEW b \in Blocks
    PROVE  LET e == [d EXCEPT !.blockindex = @ \cup {b}, !.hashNext[b] = Null]
           IN  /\ IsDatabase(e)
               /\ e.blockindex = d.blockindex \cup {b}
               /\ e.hashBestChain = d.hashBestChain
               /\ e.tx = d.tx
               /\ e.hashNext = [d.hashNext EXCEPT ![b] = Null]
BY DEF IsDatabase

LEMMA WriteDisconnect ==
    ASSUME NEW d, IsDatabase(d), NEW c \in Blocks \ {Genesis}
    PROVE  LET e == [d EXCEPT !.tx = Disconnect(@, c), !.hashNext[Parent[c]] = Null]
           IN  /\ IsDatabase(e)
               /\ e.blockindex = d.blockindex
               /\ e.tx = Disconnect(d.tx, c)
               /\ e.hashNext = [d.hashNext EXCEPT ![Parent[c]] = Null]
<1>1. IsIndex(Disconnect(d.tx, c))
  BY DisconnectType DEF IsDatabase
<1>2. Parent[c] \in Blocks
  BY ChainStep
<1> QED BY <1>1, <1>2 DEF IsDatabase

LEMMA WriteHashBestChain ==
    ASSUME NEW d, IsDatabase(d), NEW b \in Blocks
    PROVE  LET e == [d EXCEPT !.hashBestChain = b]
           IN  /\ IsDatabase(e)
               /\ e.blockindex = d.blockindex
               /\ e.hashBestChain = b
               /\ e.tx = d.tx
               /\ e.hashNext = d.hashNext
BY DEF IsDatabase

LEMMA WriteBestInvalidTrust ==
    ASSUME NEW d, IsDatabase(d), NEW n \in Nat
    PROVE  LET e == [d EXCEPT !.bnBestInvalidTrust = n]
           IN  /\ IsDatabase(e)
               /\ e.blockindex = d.blockindex
               /\ e.hashBestChain = d.hashBestChain
               /\ e.tx = d.tx
               /\ e.hashNext = d.hashNext
BY DEF IsDatabase

\* InvalidChainFound leaves all of the chain as it is.
LEMMA InvalidChainFoundWrites ==
    ASSUME TypeOK, NEW b \in Blocks, InvalidChainFound(b)
    PROVE  /\ IsDatabase(db') /\ bnBestInvalidTrust' \in Nat
           /\ db'.blockindex = db.blockindex
           /\ db'.hashBestChain = db.hashBestChain
           /\ db'.tx = db.tx
           /\ db'.hashNext = db.hashNext
<1>1. ChainTrust[b] \in Nat
  BY TrustAssumption DEF TrustAssumption
<1>2. CASE ChainTrust[b] > bnBestInvalidTrust
  <2>1. /\ bnBestInvalidTrust' = ChainTrust[b]
        /\ db' = [db EXCEPT !.bnBestInvalidTrust = ChainTrust[b]]
    BY <1>2 DEF InvalidChainFound
  <2>2. IsDatabase(db)
    BY DEF TypeOK
  <2> QED BY <1>1, <2>1, <2>2, WriteBestInvalidTrust
<1>3. CASE ~(ChainTrust[b] > bnBestInvalidTrust)
  BY <1>3 DEF InvalidChainFound, TypeOK
<1> QED BY <1>2, <1>3

-----------------------------------------------------------------------------

\* The walk of SetBestChain down from b stops at a block of b's chain.
LEMMA IntermediateOnChain ==
    ASSUME pindexBest \in Blocks, NEW b \in Blocks
    PROVE  /\ Intermediate(b) \in Chain[b]
           /\ Intermediate(b) = b \/ ChainTrust[Intermediate(b)] > ChainTrust[pindexBest]
<1> DEFINE Stop(x, e) == /\ x = e \/ ChainTrust[x] > ChainTrust[pindexBest]
                         /\ x = Genesis \/ ChainTrust[Parent[x]] <= ChainTrust[pindexBest]
           S == {e \in Blocks : \E x \in Chain[e] : Stop(x, e)}
<1>1. Genesis \in S
  BY ChainGenesis, TreeAssumption DEF TreeAssumption
<1>2. ASSUME NEW e \in Blocks \ {Genesis}, Parent[e] \in S
      PROVE  e \in S
  <2>1. PICK x \in Chain[Parent[e]] : Stop(x, Parent[e])
    BY <1>2
  <2>2. e \in Chain[e] /\ Chain[Parent[e]] \subseteq Chain[e]
    BY ChainClosed, ChainStep
  <2>3. CASE ChainTrust[Parent[e]] <= ChainTrust[pindexBest]
    <3>1. Stop(e, e)
      BY <2>3
    <3> QED BY <2>2, <3>1
  <2>4. CASE ~(ChainTrust[Parent[e]] <= ChainTrust[pindexBest])
    <3>1. ChainTrust[Parent[e]] > ChainTrust[pindexBest]
      BY <2>4, ChainStep, TrustAssumption DEF TrustAssumption
    <3>2. Stop(x, e)
      BY <2>1, <3>1
    <3> QED BY <2>1, <2>2, <3>2
  <2> QED BY <2>3, <2>4
<1>3. S = Blocks
  <2> HIDE DEF S
  <2>1. S \in SUBSET Blocks
    BY DEF S
  <2> QED BY <1>1, <1>2, <2>1, TreeInduction
<1>4. \E x \in Chain[b] : Stop(x, b)
  BY <1>3
<1> QED BY <1>4, Zenon DEF Intermediate

\* After ConnectBlock cursor is the next block of goal's chain.
LEMMA Next2ConnectOnChain ==
    ASSUME goal \in Blocks, cursor \in Chain[goal] \ {goal}
    PROVE  /\ Next2Connect \in Chain[goal]
           /\ Next2Connect \in Blocks \ {Genesis}
           /\ Parent[Next2Connect] = cursor
BY NextOnChainIsNext DEF Next2Connect

\* Connecting or disconnecting a block changes the links of one block only.
LEMMA LinksStep ==
    ASSUME NEW b \in Blocks \ {Genesis}
    PROVE  /\ LinksOf(b) = [LinksOf(Parent[b]) EXCEPT ![Parent[b]] = b]
           /\ LinksOf(Parent[b]) = [LinksOf(b) EXCEPT ![Parent[b]] = Null]
<1> DEFINE p == Parent[b]
<1>1. /\ p \in Blocks /\ Chain[b] = {b} \cup Chain[p] /\ p \in Chain[p]
      /\ b \notin Chain[p]
  BY ChainStep, ChainClosed, NotOnParentChain
<1>2. LinksOf(b)[p] = b /\ LinksOf(p)[p] = Null
  <2>1. NextOnChain(p, b) = b /\ p \in Chain[b] \ {b}
    BY NextOnChainUnique, ChainClosed
  <2> QED BY <1>1, <2>1 DEF LinksOf
<1>3. ASSUME NEW x \in Blocks, x # p
      PROVE  LinksOf(b)[x] = LinksOf(p)[x]
  <2>1. CASE x \in Chain[p]
    <3>1. /\ NextOnChain(x, p) \in Chain[p] \ {Genesis}
          /\ Parent[NextOnChain(x, p)] = x
      BY <1>1, <1>3, <2>1, NextOnChainIsNext
    <3>2. NextOnChain(x, b) = NextOnChain(x, p)
      BY <1>1, <3>1, NextOnChainUnique
    <3> QED BY <1>1, <1>3, <2>1, <3>2 DEF LinksOf
  <2>2. CASE x \notin Chain[p]
    BY <1>1, <2>2 DEF LinksOf
  <2> QED BY <2>1, <2>2
<1>4. \A c : LinksOf(c) = [x \in Blocks |-> LinksOf(c)[x]]
  BY DEF LinksOf
<1> QED BY <1>1, <1>2, <1>3, <1>4

\* The links that TxnCommit leaves in memory: those of the new chain.
LEMMA RelinkedIsLinksOf ==
    ASSUME base \in Blocks, goal \in Blocks, pnext = LinksOf(base)
    PROVE  Relinked = LinksOf(goal)
<1> SUFFICES ASSUME NEW x \in Blocks
             PROVE  Relinked[x] = LinksOf(goal)[x]
  BY DEF Relinked, LinksOf
<1> DEFINE n == NextOnChain(x, goal)
           Unlinked == \E d \in Chain[base] \ Chain[goal] : d # Genesis /\ Parent[d] = x
<1>1. CASE x \in Chain[goal] \ {goal}
  <2>1. n \in Chain[goal] \ {Genesis} /\ Parent[n] = x
    BY <1>1, NextOnChainIsNext
  <2>2. LinksOf(goal)[x] = n
    BY <1>1 DEF LinksOf
  <2>3. CASE n \notin Chain[base]
    BY <1>1, <2>2, <2>3 DEF Relinked
  <2>4. CASE n \in Chain[base]
    <3>1. x \in Chain[base] \ {base} /\ NextOnChain(x, base) = n
      BY <2>1, <2>4, NextOnChainUnique
    <3>2. ~Unlinked
      BY <2>1, <3>1, NextOnChainUnique
    <3>3. Relinked[x] = pnext[x]
      BY <2>4, <3>2 DEF Relinked
    <3> QED BY <2>2, <3>1, <3>3 DEF LinksOf
  <2> QED BY <2>3, <2>4
<1>2. CASE x \notin Chain[goal] \ {goal}
  <2>1. LinksOf(goal)[x] = Null
    BY <1>2 DEF LinksOf
  <2>2. CASE x \in Chain[base] \ {base}
    <3> DEFINE d == NextOnChain(x, base)
    <3>1. d \in Chain[base] \ {Genesis} /\ Parent[d] = x
      BY <2>2, NextOnChainIsNext
    <3>2. d \notin Chain[goal]
      BY <1>2, <3>1, NextOnChainUnique
    <3> HIDE DEF d
    <3>3. Unlinked
      BY <3>1, <3>2
    <3> QED BY <1>2, <2>1, <3>3 DEF Relinked
  <2>3. CASE x \notin Chain[base] \ {base}
    <3>1. pnext[x] = Null
      BY <2>3 DEF LinksOf
    <3> QED BY <1>2, <2>1, <3>1 DEF Relinked
  <2> QED BY <2>2, <2>3
<1> QED BY <1>1, <1>2

\* The blocks that CallInv speaks of are blocks.
LEMMA CallBlocks ==
    ASSUME IInv
    PROVE  /\ db.hashBestChain \in Blocks /\ pindexBest \in Blocks
           /\ pc \in Calling => pindexNew \in Blocks
           /\ pc \in Working \cup {"Further"} =>
                 goal \in Blocks /\ goal \in mapBlockIndex
           /\ pc \in Working => base \in Blocks /\ cursor \in Blocks
<1>1. mapBlockIndex \subseteq Blocks /\ db.hashBestChain \in Blocks /\ pindexBest \in Blocks
  BY DEF IInv, TypeOK, IndexInv
<1>2. pc \in Calling => pindexNew \in Blocks
  BY <1>1 DEF IInv, CallInv
<1>3. pc \in Working \cup {"Further"} => goal \in Blocks /\ goal \in mapBlockIndex
  <2> SUFFICES ASSUME pc \in Working \cup {"Further"}
               PROVE  goal \in Blocks /\ goal \in mapBlockIndex
    OBVIOUS
  <2>1. pindexNew \in mapBlockIndex /\ pindexNew \in Blocks /\ goal \in Chain[pindexNew]
    BY <1>2 DEF IInv, CallInv, Calling
  <2>2. Chain[pindexNew] \subseteq mapBlockIndex
    BY <2>1, ChainMinimal DEF IInv, IndexInv
  <2> QED BY <1>1, <2>1, <2>2
<1>4. pc \in Working => base \in Blocks /\ cursor \in Blocks
  BY <1>3, ChainClosed DEF IInv, CallInv
<1> QED BY <1>1, <1>2, <1>3, <1>4

-----------------------------------------------------------------------------

THEOREM InitIInv == Init => IInv
<1> SUFFICES ASSUME Init PROVE IInv
  OBVIOUS
<1>1. Genesis \in Blocks /\ ClosedUnderParent({Genesis})
  BY TreeAssumption DEF TreeAssumption, ClosedUnderParent
<1>2. IsIndex(db.tx) /\ db.tx = IndexOfChain(Genesis)
  <2>1. db.tx = [t \in {} |-> 0]
    BY DEF Init
  <2>2. IndexOfChain(Genesis) = [t \in {} |-> 0]
    BY ConnectedGenesis DEF IndexOfChain
  <2> QED BY <1>1, <2>1, <2>2, IndexOfChainType
<1>3. TypeOK
  <2>1. IsDatabase(db)
    BY <1>1, <1>2 DEF Init, IsDatabase
  <2>2. nFaults \in 0 .. MaxFaults
    BY BoundsAssumption DEF Init, BoundsAssumption
  <2>3. pnext \in [Blocks -> Blocks \cup {Null}]
    BY DEF Init
  <2> QED BY <1>1, <2>1, <2>2, <2>3 DEF Init, TypeOK, Phases
<1>4. IndexInv
  BY <1>1 DEF Init, IndexInv
<1>5. CallInv /\ BatchInv
  BY DEF Init, CallInv, BatchInv, Calling, Working
<1>6. ChainInv
  BY <1>2, ValidChainGenesis DEF Init, ChainInv, Working
<1>7. LinksInv
  BY <1>1, ChainGenesis DEF Init, LinksInv, LinksOf, Working
<1> QED BY <1>3, <1>4, <1>5, <1>6, <1>7 DEF IInv

\* Nothing but the call and the counters moves, or the call ends.
LEMMA ReturnIInv ==
    ASSUME IInv,
           IsDatabase(db'), db'.blockindex = db.blockindex,
           db'.hashBestChain = db.hashBestChain, db'.tx = db.tx,
           db'.hashNext = db.hashNext,
           batch' = Null, bnBestInvalidTrust' \in Nat,
           UNCHANGED <<mapBlockIndex, pnext, pindexBest, diverged>>,
           nFaults' \in 0 .. MaxFaults,
           NEW p \in {"idle", "Publish", "down"}, pc = "down" => p = "down",
           NEW b \in mapBlockIndex \cup {Null}, p = "Publish" => b # Null,
           Goto(p, b)
    PROVE  IInv'
<1>1. b \in Blocks \cup {Null}
  BY DEF IInv, TypeOK
<1>2. TypeOK'
  BY <1>1 DEF IInv, TypeOK, Goto, Phases
<1>3. IndexInv'
  BY DEF IInv, IndexInv, ClosedUnderParent
<1>4. CallInv' /\ BatchInv'
  BY DEF IInv, CallInv, BatchInv, Goto, Calling, Working
<1>5. ChainInv' /\ LinksInv'
  BY DEF IInv, ChainInv, LinksInv, Goto, Working
<1> QED BY <1>2, <1>3, <1>4, <1>5 DEF IInv

LEMMA AcceptBlockIInv ==
    ASSUME IInv, NEW b \in Blocks, AcceptBlock(b)
    PROVE  IInv'
<1>1. /\ IsDatabase(db')
      /\ db'.blockindex = db.blockindex \cup {b}
      /\ db'.hashBestChain = db.hashBestChain
      /\ db'.tx = db.tx
      /\ db'.hashNext = [db.hashNext EXCEPT ![b] = Null]
  <2>1. IsDatabase(db) /\ db' = [db EXCEPT !.blockindex = @ \cup {b}, !.hashNext[b] = Null]
    BY DEF IInv, TypeOK, AcceptBlock
  <2> QED BY <2>1, WriteBlockIndex
<1>2. \/ pc' = "SetBestChain" /\ pindexNew' = b /\ base' = Null /\ goal' = Null
         /\ cursor' = Null /\ MakesBest(b)
      \/ UNCHANGED call
  BY DEF AcceptBlock, Goto
<1>3. TypeOK'
  BY <1>1, <1>2 DEF IInv, TypeOK, AcceptBlock, call, Phases
<1>4. IndexInv'
  BY <1>1 DEF IInv, IndexInv, AcceptBlock, ClosedUnderParent
<1>5. CallInv'
  BY <1>2 DEF IInv, CallInv, AcceptBlock, call, Calling, Working, MakesBest
<1>6. BatchInv' /\ ChainInv'
  BY <1>1, <1>2 DEF IInv, BatchInv, ChainInv, AcceptBlock, call, Working
<1>7. LinksInv'
  <2> SUFFICES ASSUME ~diverged
               PROVE  db'.hashNext = db.hashNext
    BY <1>1, <1>2 DEF IInv, LinksInv, AcceptBlock, call, Working
  <2>1. db.hashBestChain \in Blocks /\ Chain[db.hashBestChain] \subseteq mapBlockIndex
    BY CallBlocks, ChainMinimal DEF IInv, IndexInv
  <2>2. db.hashNext = LinksOf(db.hashBestChain) /\ b \notin Chain[db.hashBestChain]
    BY <2>1 DEF IInv, LinksInv, AcceptBlock
  <2>3. db.hashNext[b] = Null
    BY <2>2 DEF LinksOf
  <2>4. db.hashNext \in [Blocks -> Blocks \cup {Null}]
    BY DEF IInv, TypeOK, IsDatabase
  <2> QED BY <1>1, <2>3, <2>4
<1> QED BY <1>3, <1>4, <1>5, <1>6, <1>7 DEF IInv

\* What SetBestChain starts with: the transaction is to end at pindexNew or
\* at a block below it that is heavier than the best one.
LEMMA SetBestChainGoal ==
    ASSUME pindexNew \in Blocks, pindexBest \in Blocks, SetBestChain
    PROVE  /\ base' = pindexBest /\ cursor' = pindexBest /\ batch' = db
           /\ (pc' = "Extend" /\ goal' = pindexNew) \/ pc' = "Reorganize"
           /\ goal' \in Chain[pindexNew]
           /\ goal' = pindexNew \/ ChainTrust[goal'] > ChainTrust[pindexBest]
<1>1. pindexNew \in Chain[pindexNew]
  BY ChainClosed
<1> QED BY <1>1, IntermediateOnChain DEF SetBestChain, TxnBegin

LEMMA SetBestChainIInv ==
    ASSUME IInv, SetBestChain
    PROVE  IInv'
<1>1. pindexNew \in Blocks /\ pindexBest \in Blocks
  BY CallBlocks DEF IInv, CallInv, SetBestChain, Calling
<1>2. PICK g \in Chain[pindexNew] :
         /\ \/ pc' = "Extend" /\ g = pindexNew
            \/ pc' = "Reorganize"
         /\ goal' = g /\ base' = pindexBest /\ cursor' = pindexBest /\ batch' = db
  BY <1>1, SetBestChainGoal
<1>4. g \in Blocks
  BY <1>1, ChainClosed
<1>5. TypeOK'
  BY <1>1, <1>2, <1>4 DEF IInv, TypeOK, SetBestChain, memory, Phases, Working
<1>6. IndexInv'
  BY DEF IInv, IndexInv, SetBestChain, memory
<1>7. CallInv'
  <2>1. pindexBest \in Chain[pindexBest]
    BY <1>1, ChainClosed
  <2> QED BY <1>1, <1>2, <2>1
          DEF IInv, CallInv, SetBestChain, memory, Calling, Working
<1>8. BatchInv'
  BY <1>2 DEF IInv, TypeOK, BatchInv, SetBestChain, Working
<1>9. ChainInv' /\ LinksInv'
  BY <1>2 DEF IInv, ChainInv, LinksInv, SetBestChain, memory, Working
<1> QED BY <1>5, <1>6, <1>7, <1>8, <1>9 DEF IInv

LEMMA DisconnectBlockIInv ==
    ASSUME IInv, DisconnectBlock
    PROVE  IInv'
<1>1. /\ pc = "Reorganize" /\ pc \in Working /\ pc' = pc
      /\ cursor \in Blocks /\ goal \in Blocks /\ base \in Blocks
      /\ cursor \in Chain[base] /\ cursor # Genesis
  BY CallBlocks, GenesisOnChain DEF IInv, CallInv, DisconnectBlock, Working
<1>2. /\ IsDatabase(batch')
      /\ batch'.blockindex = batch.blockindex
      /\ batch'.tx = Disconnect(batch.tx, cursor)
      /\ batch'.hashNext = [batch.hashNext EXCEPT ![Parent[cursor]] = Null]
  <2>1. /\ IsDatabase(batch) /\ cursor \in Blocks \ {Genesis}
        /\ batch' = [batch EXCEPT !.tx = Disconnect(@, cursor),
                                  !.hashNext[Parent[cursor]] = Null]
    BY <1>1 DEF IInv, BatchInv, DisconnectBlock
  <2> QED BY <2>1, WriteDisconnect
<1>3. Parent[cursor] \in Blocks /\ Parent[cursor] \in Chain[base]
  BY <1>1, ChainClosed, ChainStep DEF ClosedUnderParent
<1>4. TypeOK'
  BY <1>1, <1>2, <1>3 DEF IInv, TypeOK, DisconnectBlock, memory
<1>5. IndexInv'
  BY DEF IInv, IndexInv, DisconnectBlock, memory
<1>6. CallInv'
  <2>1. Chain[base] \cap Chain[goal] \subseteq Chain[Parent[cursor]]
    BY <1>1, ChainStep DEF IInv, CallInv, DisconnectBlock
  <2> QED BY <1>1, <1>3, <2>1
          DEF IInv, CallInv, DisconnectBlock, memory, Calling, Working
<1>7. BatchInv'
  BY <1>1, <1>2 DEF IInv, BatchInv, DisconnectBlock
<1>8. ChainInv'
  <2> SUFFICES ASSUME ~diverged
               PROVE  ValidChain(Parent[cursor]) /\ batch'.tx = IndexOfChain(Parent[cursor])
    BY <1>1 DEF IInv, ChainInv, DisconnectBlock, Working
  <2>1. ValidChain(cursor) /\ batch.tx = IndexOfChain(cursor)
    BY <1>1 DEF IInv, ChainInv
  <2> QED BY <1>1, <1>2, <2>1, ValidChainStep, DisconnectInverts
<1>9. LinksInv'
  <2> SUFFICES ASSUME ~diverged
               PROVE  batch'.hashNext = LinksOf(Parent[cursor])
    BY <1>1 DEF IInv, LinksInv, DisconnectBlock, memory, Working
  <2>1. batch.hashNext = LinksOf(cursor)
    BY <1>1 DEF IInv, LinksInv
  <2> QED BY <1>1, <1>2, <2>1, LinksStep
<1> QED BY <1>4, <1>5, <1>6, <1>7, <1>8, <1>9 DEF IInv

LEMMA ConnectBlockIInv ==
    ASSUME IInv, ConnectBlock
    PROVE  IInv'
<1> DEFINE x == Next2Connect
<1>1. /\ pc \in Working /\ pc' = pc /\ cursor' = x
      /\ cursor \in Blocks /\ goal \in Blocks /\ base \in Blocks
  BY CallBlocks DEF ConnectBlock
<1>2. x \in Chain[goal] /\ x \in Blocks \ {Genesis} /\ Parent[x] = cursor
  BY <1>1, Next2ConnectOnChain DEF ConnectBlock
<1>3. /\ IsDatabase(batch')
      /\ batch'.blockindex = batch.blockindex
      /\ batch'.tx = Connect(batch.tx, x)
      /\ batch'.hashNext = [batch.hashNext EXCEPT ![x] = pnext[x], ![cursor] = x]
  <2> DEFINE n == pnext[x]
  <2>1. IsDatabase(batch) /\ n \in Blocks \cup {Null}
    BY <1>1, <1>2 DEF IInv, TypeOK, BatchInv
  <2>2. batch' = [batch EXCEPT !.tx = Connect(@, x), !.hashNext[x] = n, !.hashNext[cursor] = x]
    BY DEF ConnectBlock
  <2> HIDE DEF x, n
  <2>3. x \in Blocks /\ cursor \in Blocks
    BY <1>1, <1>2
  <2>4. IsIndex(Connect(batch.tx, x))
    BY <2>1, <2>3, ConnectType DEF IsDatabase
  <2>5. /\ IsDatabase(batch')
        /\ batch'.blockindex = batch.blockindex
        /\ batch'.tx = Connect(batch.tx, x)
        /\ batch'.hashNext = [batch.hashNext EXCEPT ![x] = n, ![cursor] = x]
    BY <2>1, <2>2, <2>3, <2>4 DEF IsDatabase
  <2> QED BY <2>5 DEF n
<1> HIDE DEF x
<1>4. TypeOK'
  BY <1>1, <1>2, <1>3 DEF IInv, TypeOK, ConnectBlock, memory
<1>5. IndexInv'
  BY DEF IInv, IndexInv, ConnectBlock, memory
<1>6. CallInv'
  <2>1. Chain[base] \cap Chain[goal] \subseteq Chain[x]
    BY <1>1, <1>2, ChainStep DEF IInv, CallInv
  <2> QED BY <1>1, <1>2, <2>1 DEF IInv, CallInv, ConnectBlock, memory, Calling, Working
<1>7. BatchInv'
  BY <1>1, <1>3 DEF IInv, BatchInv, ConnectBlock
<1>8. ChainInv'
  <2> SUFFICES ASSUME ~diverged
               PROVE  ValidChain(x) /\ batch'.tx = IndexOfChain(x)
    BY <1>1 DEF IInv, ChainInv, ConnectBlock, Working
  <2>1. ValidChain(cursor) /\ batch.tx = IndexOfChain(cursor)
    BY <1>1 DEF IInv, ChainInv
  <2>2. CanConnect(IndexOfChain(cursor), x, pindexBest)
    BY <2>1 DEF ConnectBlock, x
  <2> QED BY <1>2, <1>3, <2>1, <2>2, ConnectValid, ConnectExtends
<1>9. LinksInv'
  <2> SUFFICES ASSUME ~diverged
               PROVE  batch'.hashNext = LinksOf(x)
    BY <1>1 DEF IInv, LinksInv, ConnectBlock, memory, Working
  <2>1. batch.hashNext = LinksOf(cursor) /\ pnext = LinksOf(base)
    BY <1>1 DEF IInv, LinksInv, ChainInv, Working
  <2>2. x \notin Chain[base]
    BY <1>1, <1>2, NotOnParentChain DEF IInv, CallInv
  <2>3. pnext[x] = Null
    BY <1>2, <2>1, <2>2 DEF LinksOf
  <2>4. LinksOf(cursor)[x] = Null /\ LinksOf(cursor) = [y \in Blocks |-> LinksOf(cursor)[y]]
    BY <1>1, <1>2, NotOnParentChain DEF LinksOf
  <2>5. batch'.hashNext = [LinksOf(cursor) EXCEPT ![cursor] = x]
    <3> DEFINE L == LinksOf(cursor)
    <3> HIDE DEF L
    <3>1. L[x] = Null /\ L = [y \in Blocks |-> L[y]]
      BY <2>4 DEF L
    <3>2. [L EXCEPT ![x] = Null] = L
      BY <1>2, <3>1
    <3> QED BY <1>3, <2>1, <2>3, <3>2 DEF L
  <2> QED BY <1>2, <2>5, LinksStep
<1> QED BY <1>4, <1>5, <1>6, <1>7, <1>8, <1>9 DEF IInv

LEMMA TxnCommitIInv ==
    ASSUME IInv, TxnCommit
    PROVE  IInv'
<1>1. /\ pc \in Working /\ goal \in Blocks /\ goal \in mapBlockIndex
      /\ base \in Blocks /\ goal \in Chain[pindexNew]
  BY CallBlocks DEF IInv, CallInv, TxnCommit
<1>2. /\ IsDatabase(db')
      /\ db'.blockindex = db.blockindex
      /\ db'.hashBestChain = goal
      /\ db'.tx = batch.tx
      /\ db'.hashNext = batch.hashNext
  <2>1. /\ IsDatabase(batch) /\ batch.blockindex = db.blockindex
        /\ db' = [batch EXCEPT !.hashBestChain = goal]
    BY <1>1 DEF IInv, BatchInv, TxnCommit
  <2> QED BY <1>1, <2>1, WriteHashBestChain
<1>3. /\ \/ pc' = "Publish"
         \/ pc' = "Further" /\ goal # pindexNew
      /\ UNCHANGED <<pindexNew, goal>>
  BY DEF TxnCommit
<1>4. pnext' \in [Blocks -> Blocks \cup {Null}]
  <2>1. ASSUME NEW y \in Chain[goal] \ {goal}
        PROVE  NextOnChain(y, goal) \in Blocks
    BY <1>1, NextOnChainIsNext
  <2>2. \A y \in Blocks : pnext[y] \in Blocks \cup {Null}
    BY DEF IInv, TypeOK
  <2> QED BY <2>1, <2>2 DEF TxnCommit, Relinked
<1>5. TypeOK'
  BY <1>2, <1>4 DEF IInv, TypeOK, TxnCommit, Phases
<1>6. IndexInv'
  BY <1>1, <1>2 DEF IInv, IndexInv, TxnCommit
<1>7. CallInv'
  BY <1>1, <1>3 DEF IInv, CallInv, TxnCommit, Calling, Working
<1>8. BatchInv'
  BY <1>3 DEF BatchInv, TxnCommit, Working
<1>9. ChainInv'
  BY <1>1, <1>2, <1>3 DEF IInv, ChainInv, TxnCommit, Working
<1>10. LinksInv'
  <2> SUFFICES ASSUME ~diverged
               PROVE  db'.hashNext = LinksOf(goal) /\ pnext' = LinksOf(goal)
    BY <1>2, <1>3 DEF LinksInv, TxnCommit, Working
  <2>1. batch.hashNext = LinksOf(goal) /\ pnext = LinksOf(base)
    BY <1>1 DEF IInv, LinksInv, ChainInv, TxnCommit, Working
  <2> QED BY <1>1, <1>2, <2>1, RelinkedIsLinksOf DEF TxnCommit
<1> QED BY <1>5, <1>6, <1>7, <1>8, <1>9, <1>10 DEF IInv

LEMMA ConnectFurtherIInv ==
    ASSUME IInv, ConnectFurther
    PROVE  IInv'
<1> DEFINE x == NextOnChain(goal, pindexNew)
<1>1. /\ pindexNew \in Blocks /\ goal \in Blocks
      /\ goal \in Chain[pindexNew] /\ goal # pindexNew
  BY CallBlocks DEF IInv, CallInv, ConnectFurther, Calling
<1>2. /\ pc' = "Postponed" /\ goal' = x /\ base' = goal /\ cursor' = goal /\ batch' = db
      /\ UNCHANGED <<db, memory, pindexNew, nFaults, diverged>>
  BY DEF ConnectFurther, TxnBegin
<1>3. x \in Chain[pindexNew] /\ x \in Blocks \ {Genesis} /\ Parent[x] = goal
  BY <1>1, NextOnChainIsNext
<1> HIDE DEF x
<1>4. goal \in Chain[x] /\ goal \in Chain[goal]
  BY <1>1, <1>3, ChainStep, ChainClosed
<1>5. TypeOK'
  BY <1>1, <1>2, <1>3 DEF IInv, TypeOK, memory, Phases, Working
<1>6. IndexInv'
  BY <1>2 DEF IInv, IndexInv, memory
<1>7. CallInv'
  BY <1>1, <1>2, <1>3, <1>4, ChainClosed
     DEF IInv, CallInv, ConnectFurther, memory, Calling, Working
<1>8. BatchInv'
  BY <1>2 DEF IInv, TypeOK, BatchInv, Working
<1>9. ChainInv' /\ LinksInv'
  BY <1>2 DEF IInv, ChainInv, LinksInv, ConnectFurther, memory, Working
<1> QED BY <1>5, <1>6, <1>7, <1>8, <1>9 DEF IInv

LEMMA PublishIInv ==
    ASSUME IInv, Publish
    PROVE  IInv'
<1>1. pindexNew \in mapBlockIndex /\ pindexNew \in Blocks
  BY CallBlocks DEF IInv, CallInv, Publish, Calling
<1>2. /\ pindexBest' = pindexNew /\ pc' = "idle"
      /\ pindexNew' = Null /\ base' = Null /\ goal' = Null /\ cursor' = Null
      /\ UNCHANGED <<db, batch, mapBlockIndex, pnext, bnBestInvalidTrust, nFaults, diverged>>
  BY DEF Publish, Return, Goto
<1>3. TypeOK'
  BY <1>1, <1>2 DEF IInv, TypeOK, Phases
<1>4. IndexInv'
  BY <1>1, <1>2 DEF IInv, IndexInv
<1>5. CallInv' /\ BatchInv' /\ ChainInv' /\ LinksInv'
  BY <1>2 DEF IInv, CallInv, BatchInv, ChainInv, LinksInv, Publish, Calling, Working
<1> QED BY <1>3, <1>4, <1>5 DEF IInv

\* The ways a transaction can end without a commit.
LEMMA FailureIInv ==
    ASSUME IInv, batch' = Null, nFaults' \in 0 .. MaxFaults,
           UNCHANGED <<mapBlockIndex, pnext, pindexBest, diverged>>,
           \/ pc \in Working /\ FailFirst
           \/ pc \in Working /\ FailPostponed
           \/ pc \in Working \cup {"Further"} /\ Goto("Publish", pindexNew)
              /\ UNCHANGED <<bnBestInvalidTrust, db>>
           \/ pc \in Working /\ Return /\ UNCHANGED <<bnBestInvalidTrust, db>>
           \/ Goto("down", Null) /\ UNCHANGED <<bnBestInvalidTrust, db>>
    PROVE  IInv'
<1>1. pc \in Working \cup {"Further"} =>
         pindexNew \in mapBlockIndex /\ pindexNew \in Blocks /\ goal \in Blocks
  BY CallBlocks DEF IInv, CallInv, Calling
<1>2. Null \notin Blocks
  BY TreeAssumption DEF TreeAssumption
<1>3. TypeOK
  BY DEF IInv
<1>4. ASSUME UNCHANGED <<bnBestInvalidTrust, db>>
      PROVE  /\ IsDatabase(db') /\ bnBestInvalidTrust' \in Nat
             /\ db'.blockindex = db.blockindex
             /\ db'.hashBestChain = db.hashBestChain /\ db'.tx = db.tx
             /\ db'.hashNext = db.hashNext
  BY <1>3, <1>4 DEF TypeOK
<1> USE DEF Working
<1>5. CASE pc \in Working /\ FailFirst
  <2>1. InvalidChainFound(pindexNew) /\ Goto("idle", Null)
    BY <1>5 DEF FailFirst, Return
  <2> QED BY <1>1, <1>3, <1>5, <2>1, InvalidChainFoundWrites, ReturnIInv
<1>6. CASE pc \in Working /\ FailPostponed
  <2>1. InvalidChainFound(goal) /\ Goto("Publish", pindexNew)
    BY <1>6 DEF FailPostponed
  <2> QED BY <1>1, <1>2, <1>3, <1>6, <2>1, InvalidChainFoundWrites, ReturnIInv
<1>7. CASE pc \in Working \cup {"Further"} /\ Goto("Publish", pindexNew)
           /\ UNCHANGED <<bnBestInvalidTrust, db>>
  BY <1>1, <1>2, <1>4, <1>7, ReturnIInv
<1>8. CASE pc \in Working /\ Return /\ UNCHANGED <<bnBestInvalidTrust, db>>
  BY <1>4, <1>8, ReturnIInv DEF Return
<1>9. CASE Goto("down", Null) /\ UNCHANGED <<bnBestInvalidTrust, db>>
  BY <1>4, <1>9, ReturnIInv
<1> QED BY <1>5, <1>6, <1>7, <1>8, <1>9

LEMMA LoadBlockIndexIInv ==
    ASSUME IInv, LoadBlockIndex
    PROVE  IInv'
<1>1. /\ mapBlockIndex' = db.blockindex /\ pnext' = db.hashNext
      /\ pindexBest' = db.hashBestChain /\ bnBestInvalidTrust' = 0
      /\ UNCHANGED <<db, batch, nFaults, diverged>>
      /\ base' = Null /\ goal' = Null /\ cursor' = Null
  BY DEF LoadBlockIndex, Return, Goto
<1>2. \/ pc' = "idle" /\ pindexNew' = Null
      \/ \E y \in Connected(db.hashBestChain) : pc' = "SetBestChain" /\ pindexNew' = Parent[y]
  BY DEF LoadBlockIndex, Return, Goto, BadBlocks
<1>3. db.hashBestChain \in Blocks /\ mapBlockIndex \subseteq Blocks
  BY CallBlocks DEF IInv, TypeOK
<1>4. ASSUME NEW y \in Connected(db.hashBestChain)
      PROVE  /\ Parent[y] \in Chain[db.hashBestChain]
             /\ Parent[y] \in mapBlockIndex
  <2>1. Parent[y] \in Chain[db.hashBestChain]
    BY <1>3, ChainClosed DEF Connected, ClosedUnderParent
  <2>2. Chain[db.hashBestChain] \subseteq mapBlockIndex
    BY <1>3, ChainMinimal DEF IInv, IndexInv
  <2> QED BY <2>1, <2>2
<1>5. TypeOK'
  BY <1>1, <1>2, <1>3, <1>4 DEF IInv, TypeOK, IsDatabase, Phases
<1>6. IndexInv'
  BY <1>1 DEF IInv, IndexInv
<1>7. CallInv'
  BY <1>1, <1>2, <1>4 DEF IInv, IndexInv, CallInv, Calling, Working
<1>8. BatchInv' /\ ChainInv'
  BY <1>1, <1>2 DEF IInv, BatchInv, ChainInv, LoadBlockIndex, Working
<1>9. LinksInv'
  BY <1>1, <1>2 DEF IInv, LinksInv, Working
<1> QED BY <1>5, <1>6, <1>7, <1>8, <1>9 DEF IInv

\* IInv is inductive.
THEOREM NextIInv == IInv /\ [Next]_vars => IInv'
<1> SUFFICES ASSUME IInv, [Next]_vars PROVE IInv'
  OBVIOUS
<1>1. nFaults \in 0 .. MaxFaults /\ MaxFaults \in Nat
  BY BoundsAssumption DEF IInv, TypeOK, BoundsAssumption
<1>2. nFaults < MaxFaults => nFaults + 1 \in 0 .. MaxFaults
  BY <1>1
<1>3. CASE UNCHANGED vars
  <2>1. UNCHANGED <<db, batch, mapBlockIndex, pnext, pindexBest, bnBestInvalidTrust,
                    pc, pindexNew, base, goal, cursor, nFaults, diverged>>
    BY <1>3 DEF vars, memory, call
  <2>2. TypeOK' /\ IndexInv'
    BY <2>1 DEF IInv, TypeOK, IndexInv
  <2>3. CallInv' /\ BatchInv' /\ ChainInv' /\ LinksInv'
    BY <2>1 DEF IInv, CallInv, BatchInv, ChainInv, LinksInv
  <2> QED BY <2>2, <2>3 DEF IInv
<1>4. CASE \E b \in Blocks : AcceptBlock(b)
  BY <1>4, AcceptBlockIInv
<1>5. CASE SetBestChain
  BY <1>5, SetBestChainIInv
<1>6. CASE DisconnectBlock
  BY <1>6, DisconnectBlockIInv
<1>7. CASE ConnectBlock
  BY <1>7, ConnectBlockIInv
<1>8. CASE TxnCommit
  BY <1>8, TxnCommitIInv
<1>9. CASE ConnectFurther
  BY <1>9, ConnectFurtherIInv
<1>10. CASE Publish
  BY <1>10, PublishIInv
<1>11. CASE BlockRefused
  BY <1>1, <1>11, FailureIInv DEF BlockRefused, Working
<1>12. CASE ReorganizeReadFails
  BY <1>2, <1>12, FailureIInv DEF ReorganizeReadFails, Working
<1>13. CASE PostponedReadFails
  <2>1. batch' = Null
    BY <1>13 DEF PostponedReadFails, IInv, BatchInv, Working
  <2> QED BY <1>2, <1>13, <2>1, FailureIInv DEF PostponedReadFails, memory
<1>14. CASE CommitFails
  BY <1>2, <1>14, FailureIInv DEF CommitFails, Working
<1>15. CASE Crash
  BY <1>2, <1>15, FailureIInv DEF Crash, memory
<1>16. CASE LoadBlockIndex
  BY <1>16, LoadBlockIndexIInv
<1> QED BY <1>3, <1>4, <1>5, <1>6, <1>7, <1>8, <1>9, <1>10, <1>11, <1>12, <1>13,
           <1>14, <1>15, <1>16 DEF Next, Step

THEOREM IInvHolds == Spec => []IInv
BY InitIInv, NextIInv, PTL DEF Spec

-----------------------------------------------------------------------------

\* Every variable has its type in every reachable state: SetBestChain never
\* dereferences a null pindexNew, goal or cursor.
THEOREM TypeCorrect == Spec => []TypeOK
<1>1. IInv => TypeOK
  BY DEF IInv
<1> QED BY <1>1, IInvHolds, PTL

\* As long as memory and disk have not diverged, the committed best chain
\* holds no double spend and no block ConnectBlock refuses, whatever the tree
\* of blocks, the order of arrival, the refusals and the crashes.
THEOREM BestChainAlwaysValid == Spec => []BestChainIsValid
<1>1. IInv => BestChainIsValid
  BY DEF IInv, ChainInv, BestChainIsValid
<1> QED BY <1>1, IInvHolds, PTL

\* The transaction index on disk is the index of the committed best chain:
\* nothing of an aborted or interrupted reorganization reaches the disk.
THEOREM IndexAlwaysMatches == Spec => []IndexMatchesBestChain
<1>1. IInv => IndexMatchesBestChain
  BY DEF IInv, ChainInv, IndexMatchesBestChain
<1> QED BY <1>1, IInvHolds, PTL

-----------------------------------------------------------------------------

\* Walking hashNext on disk, or pnext in memory, from the genesis block visits
\* the best chain and nothing else, whatever reorganizations, refusals and
\* crashes came before (GetBlockIndex of a locator and getblocks walk it).
THEOREM LinksAlwaysFollow == Spec => []LinksFollowBestChain
<1>1. IInv => LinksFollowBestChain
  <2> SUFFICES ASSUME IInv, ~diverged
               PROVE  /\ db.hashNext = LinksOf(db.hashBestChain)
                      /\ pc # "down" => pnext = db.hashNext
    BY DEF LinksFollowBestChain, LinksOf
  <2> QED BY DEF IInv, LinksInv
<1> QED BY <1>1, IInvHolds, PTL

-----------------------------------------------------------------------------

\* TrustInv is inductive relative to IInv.
LEMMA NextTrustInv ==
    ASSUME IInv, TrustInv, [Next]_vars
    PROVE  TrustInv'
<1>1. CASE UNCHANGED vars
  BY <1>1 DEF TrustInv, vars, memory, call, MakesBest
<1>2. CASE \E b \in Blocks : AcceptBlock(b)
  BY <1>2 DEF TrustInv, AcceptBlock, Goto, call, MakesBest, Working
<1>3. CASE SetBestChain
  <2>1. pindexNew \in Blocks /\ pindexBest \in Blocks
    BY <1>3, CallBlocks DEF SetBestChain, Calling
  <2>2. MakesBest(pindexNew) \/ pindexNew \in Chain[pindexBest]
    BY <1>3 DEF TrustInv, SetBestChain
  <2> QED BY <1>3, <2>1, <2>2, SetBestChainGoal DEF TrustInv, MakesBest, Working
<1>4. CASE DisconnectBlock \/ ConnectBlock
  BY <1>4 DEF TrustInv, DisconnectBlock, ConnectBlock, Working
<1>5. CASE ConnectFurther
  <2> DEFINE x == NextOnChain(goal, pindexNew)
  <2>1. /\ pindexNew \in Blocks /\ goal \in Chain[pindexNew] /\ goal # pindexNew
    BY <1>5, CallBlocks DEF IInv, CallInv, ConnectFurther, Calling
  <2>2. x \in Blocks \ {Genesis} /\ Parent[x] = goal
    BY <2>1, NextOnChainIsNext
  <2>3. pc' = "Postponed" /\ goal' = x /\ base' = goal
    BY <1>5 DEF ConnectFurther, TxnBegin
  <2> HIDE DEF x
  <2>4. ChainTrust[x] > ChainTrust[goal]
    BY <2>2, TrustAssumption DEF TrustAssumption
  <2> QED BY <2>3, <2>4 DEF TrustInv, Working
<1>6. CASE pc' \in {"idle", "Publish", "down", "Further"}
  BY <1>6 DEF TrustInv, Working
<1>7. CASE LoadBlockIndex
  <2>1. /\ pindexBest' = db.hashBestChain /\ db.hashBestChain \in Blocks
        /\ \/ pc' = "idle"
           \/ \E y \in Connected(db.hashBestChain) :
                 pc' = "SetBestChain" /\ pindexNew' = Parent[y]
    BY <1>7, CallBlocks DEF LoadBlockIndex, Return, Goto, BadBlocks
  <2>2. \A y \in Connected(db.hashBestChain) : Parent[y] \in Chain[db.hashBestChain]
    BY <2>1, ChainClosed DEF Connected, ClosedUnderParent
  <2> QED BY <2>1, <2>2 DEF TrustInv, Working
<1>8. ASSUME TxnCommit \/ Publish \/ BlockRefused \/ ReorganizeReadFails
             \/ PostponedReadFails \/ CommitFails \/ Crash
      PROVE  pc' \in {"idle", "Publish", "down", "Further"}
  BY <1>8 DEF TxnCommit, Publish, BlockRefused, ReorganizeReadFails, PostponedReadFails,
              CommitFails, Crash, FailFirst, FailPostponed, Return, Goto
<1> QED BY <1>1, <1>2, <1>3, <1>4, <1>5, <1>6, <1>7, <1>8 DEF Next, Step

\* SetBestChain is only ever called to go to a heavier chain or, by the
\* start-up check, back along the best one.
THEOREM TrustInvHolds == Spec => []TrustInv
<1>1. Init => TrustInv
  BY DEF Init, TrustInv, Working
<1>2. IInv /\ TrustInv /\ [Next]_vars => TrustInv'
  BY NextTrustInv
<1> QED BY <1>1, <1>2, IInvHolds, PTL DEF Spec

-----------------------------------------------------------------------------

\* A block is refused only if its chain does not connect from the genesis
\* block: what the open transaction holds is never the reason.
LEMMA RefusedDoesNotConnect ==
    ASSUME IInv, ~diverged, BlockRefused
    PROVE  /\ pc \in Working
           /\ ~AlwaysConnects(goal)
           /\ ~AlwaysConnects(pindexNew)
<1>1. /\ pc \in Working /\ goal \in Blocks /\ cursor \in Blocks /\ pindexBest \in Blocks
      /\ pindexNew \in Blocks /\ goal \in Chain[pindexNew]
      /\ ValidChain(cursor) /\ batch.tx = IndexOfChain(cursor)
  BY CallBlocks DEF BlockRefused, Working, IInv, ChainInv, CallInv, Calling
<1>2. ASSUME cursor \notin Chain[goal]
      PROVE  CanDisconnect(batch.tx, cursor)
  <2>1. cursor \in Blocks \ {Genesis}
    BY <1>1, <1>2, GenesisOnChain
  <2>2. Fits(cursor) /\ DOMAIN batch.tx = TxsOfChain(cursor)
    BY <1>1, <2>1, ValidChainStep, IndexOfChainType
  <2>3. TxsOf[cursor] \subseteq Tx
    BY <1>1, TxAssumption DEF TxAssumption
  <2>4. ASSUME NEW o \in SpentBy(TxsOf[cursor])
        PROVE  o[1] \in DOMAIN batch.tx /\ o[2] < NOut[o[1]]
    <3>1. o[1] \in TxsOfChain(cursor) /\ o[2] \in 0 .. NOut[o[1]] - 1
      BY <2>2 DEF Fits
    <3>2. NOut[o[1]] \in Nat
      BY <2>3, SpentByType, TxAssumption DEF TxAssumption
    <3> QED BY <2>2, <3>1, <3>2
  <2> QED BY <2>4 DEF CanDisconnect
<1>3. /\ cursor \in Chain[goal] \ {goal}
      /\ ~CanConnect(batch.tx, Next2Connect, pindexBest)
  BY <1>2 DEF BlockRefused
<1>4. ~AlwaysConnects(goal)
  <2>1. Next2Connect \in Connected(goal) /\ Parent[Next2Connect] = cursor
    BY <1>1, <1>3, Next2ConnectOnChain DEF Connected
  <2> QED BY <1>1, <1>3, <2>1 DEF AlwaysConnects
<1>5. Connected(goal) \subseteq Connected(pindexNew)
  BY <1>1, ChainMonotone DEF Connected
<1> QED BY <1>1, <1>4, <1>5 DEF AlwaysConnects

\* No block of S that could be connected is heavier than the best one.
HeaviestOf(S) ==
    \A b \in S : AlwaysConnects(b) => ChainTrust[b] <= ChainTrust[pindexBest]

\* While nothing has failed, the block SetBestChain works on is the only one
\* that may be heavier than the best block.
HeaviestInv ==
    nFaults = 0 /\ ~diverged =>
        /\ pc # "down"
        /\ pc = "idle" /\ pindexBest = db.hashBestChain => HeaviestOf(mapBlockIndex)
        /\ pc \in {"Extend", "Reorganize"} => pindexBest = db.hashBestChain
        /\ \/ pc \in Calling \ {"SetBestChain"}
           \/ pc = "SetBestChain" /\ pindexBest = db.hashBestChain
           => HeaviestOf(mapBlockIndex \ {pindexNew}) /\ MakesBest(pindexNew)

LEMMA NextHeaviestInv ==
    ASSUME IInv, HeaviestInv, [Next]_vars
    PROVE  HeaviestInv'
<1> SUFFICES ASSUME nFaults' = 0, ~diverged'
             PROVE  HeaviestInv'
  BY DEF HeaviestInv
<1>1. nFaults \in Nat /\ mapBlockIndex \subseteq Blocks /\ pindexBest \in Blocks
  BY BoundsAssumption DEF IInv, TypeOK, BoundsAssumption
<1>2. ChainTrust \in [Blocks -> Nat]
  BY TrustAssumption DEF TrustAssumption
<1> USE DEF Calling, Working
<1>3. CASE UNCHANGED vars
  BY <1>3 DEF HeaviestInv, HeaviestOf, MakesBest, vars, memory, call
<1>4. CASE \E b \in Blocks : AcceptBlock(b)
  <2>1. PICK b \in Blocks : AcceptBlock(b)
    BY <1>4
  <2>2. /\ pc = "idle" /\ nFaults = 0 /\ ~diverged /\ UNCHANGED pindexBest
        /\ mapBlockIndex' = mapBlockIndex \cup {b}
        /\ IsDatabase(db)
        /\ db' = [db EXCEPT !.blockindex = @ \cup {b}, !.hashNext[b] = Null]
        /\ \/ MakesBest(b) /\ pc' = "SetBestChain" /\ pindexNew' = b
           \/ ~MakesBest(b) /\ pc' = "idle"
    BY <2>1 DEF AcceptBlock, Goto, call, IInv, TypeOK
  <2>3. db'.hashBestChain = db.hashBestChain
    BY <2>2, WriteBlockIndex
  <2>4. pindexBest = db.hashBestChain => HeaviestOf(mapBlockIndex)
    BY <2>2 DEF HeaviestInv
  <2>5. ~MakesBest(b) => ChainTrust[b] <= ChainTrust[pindexBest]
    BY <1>1, <1>2 DEF MakesBest
  <2>6. CASE ~MakesBest(b)
    <3>1. HeaviestOf(mapBlockIndex) => HeaviestOf(mapBlockIndex)'
      BY <2>2, <2>5, <2>6 DEF HeaviestOf
    <3> QED BY <2>2, <2>3, <2>4, <2>6, <3>1 DEF HeaviestInv
  <2>7. CASE MakesBest(b)
    <3>1. HeaviestOf(mapBlockIndex) => HeaviestOf(mapBlockIndex \ {pindexNew})'
      BY <2>2, <2>7 DEF HeaviestOf
    <3>2. MakesBest(pindexNew)'
      BY <2>2, <2>7 DEF MakesBest
    <3> QED BY <2>2, <2>3, <2>4, <2>7, <3>1, <3>2 DEF HeaviestInv
  <2> QED BY <2>6, <2>7
<1>5. CASE SetBestChain
  <2>1. /\ pc = "SetBestChain" /\ nFaults = 0 /\ ~diverged /\ pindexBest = db.hashBestChain
        /\ pc' \in {"Extend", "Reorganize"}
        /\ UNCHANGED <<db, pindexBest, mapBlockIndex, pindexNew>>
    BY <1>5 DEF SetBestChain, TxnBegin, memory
  <2> QED BY <2>1 DEF HeaviestInv, HeaviestOf, MakesBest
<1>6. CASE DisconnectBlock \/ ConnectBlock
  BY <1>6 DEF HeaviestInv, HeaviestOf, MakesBest, DisconnectBlock, ConnectBlock, memory
<1>7. CASE TxnCommit \/ ConnectFurther
  <2>1. /\ pc \in Calling \ {"SetBestChain"} /\ pc' \in {"Further", "Publish", "Postponed"}
        /\ UNCHANGED <<pindexBest, mapBlockIndex, pindexNew, nFaults, diverged>>
    BY <1>7 DEF TxnCommit, ConnectFurther, TxnBegin, memory
  <2> QED BY <2>1 DEF HeaviestInv, HeaviestOf, MakesBest
<1>8. CASE Publish
  <2>1. /\ pc = "Publish" /\ pc' = "idle" /\ pindexBest' = pindexNew
        /\ nFaults = 0 /\ ~diverged /\ UNCHANGED mapBlockIndex
        /\ pindexNew \in Blocks
    BY <1>8, CallBlocks DEF Publish, Return, Goto
  <2>2. HeaviestOf(mapBlockIndex \ {pindexNew}) /\ MakesBest(pindexNew)
    BY <2>1 DEF HeaviestInv
  <2>3. HeaviestOf(mapBlockIndex)'
    BY <1>1, <1>2, <2>1, <2>2 DEF HeaviestOf, MakesBest
  <2> QED BY <2>1, <2>3 DEF HeaviestInv
<1>9. CASE BlockRefused
  <2>1. /\ pc \in Working /\ nFaults = 0 /\ ~diverged
        /\ UNCHANGED <<mapBlockIndex, pindexBest>>
        /\ \/ pc = "Postponed" /\ pc' = "Publish" /\ pindexNew' = pindexNew
           \/ pc' = "idle"
    BY <1>9 DEF BlockRefused, FailFirst, FailPostponed, Return, Goto
  <2>2. HeaviestOf(mapBlockIndex \ {pindexNew}) /\ MakesBest(pindexNew)
    BY <2>1 DEF HeaviestInv
  <2>3. ~AlwaysConnects(pindexNew)
    BY <1>9, <2>1, RefusedDoesNotConnect
  <2>4. HeaviestOf(mapBlockIndex)
    BY <2>2, <2>3 DEF HeaviestOf
  <2> QED BY <2>1, <2>2, <2>4 DEF HeaviestInv, HeaviestOf, MakesBest
<1>10. CASE ReorganizeReadFails \/ PostponedReadFails \/ CommitFails \/ Crash
  BY <1>1, <1>10 DEF ReorganizeReadFails, PostponedReadFails, CommitFails, Crash
<1>11. CASE LoadBlockIndex
  BY <1>11 DEF LoadBlockIndex, HeaviestInv
<1> QED BY <1>3, <1>4, <1>5, <1>6, <1>7, <1>8, <1>9, <1>10, <1>11 DEF Next, Step

\* While nothing has failed, no block that the node knows and could connect is
\* heavier than its best one, although AddToBlockIndex compares trust only
\* when a block arrives.
THEOREM BestAlwaysHeaviest == Spec => []BestIsHeaviest
<1>1. Init => HeaviestInv
  <2> SUFFICES ASSUME Init PROVE HeaviestInv
    OBVIOUS
  <2>1. mapBlockIndex = {Genesis} /\ pindexBest = Genesis /\ pc = "idle"
    BY DEF Init
  <2>2. ChainTrust[Genesis] \in Nat
    BY TreeAssumption, TrustAssumption DEF TreeAssumption, TrustAssumption
  <2> QED BY <2>1, <2>2 DEF HeaviestInv, HeaviestOf, Calling, Working
<1>2. IInv /\ HeaviestInv /\ [Next]_vars => HeaviestInv'
  BY NextHeaviestInv
<1>3. HeaviestInv => BestIsHeaviest
  BY DEF HeaviestInv, HeaviestOf, BestIsHeaviest
<1> QED BY <1>1, <1>2, <1>3, IInvHolds, PTL DEF Spec

-----------------------------------------------------------------------------

\* The operators that BestChain shares with BlockChain, under its INSTANCE.
LEMMA SameOperators ==
    /\ Abstract!Chain = Chain
    /\ \A b : Abstract!IndexOfChain(b) = IndexOfChain(b)
    /\ \A b : Abstract!ValidChain(b) <=> ValidChain(b)
<1>1. Abstract!Chain = Chain
  BY DEF Chain, Abstract!Chain, ClosedUnderParent, Abstract!ClosedUnderParent
<1>2. \A b : Abstract!Connected(b) = Connected(b)
  BY <1>1 DEF Connected, Abstract!Connected
<1>3. \A b : Abstract!TxsOfChain(b) = TxsOfChain(b)
  BY <1>2 DEF TxsOfChain, Abstract!TxsOfChain
<1>4. \A T : Abstract!SpentBy(T) = SpentBy(T)
  BY DEF SpentBy, Abstract!SpentBy
<1>5. \A t, T : Abstract!SpentOutputs(t, T) = SpentOutputs(t, T)
  BY <1>4 DEF SpentOutputs, Abstract!SpentOutputs
<1>6. \A b : Abstract!IndexOfChain(b) = IndexOfChain(b)
  BY <1>2, <1>3, <1>5, Zenon DEF IndexOfChain, Abstract!IndexOfChain
<1>7. \A b : Abstract!Fits(b) <=> Fits(b)
  BY <1>3, <1>4 DEF Fits, Abstract!Fits
<1>8. \A b : Abstract!ValidChain(b) <=> ValidChain(b)
  BY <1>2, <1>7 DEF ValidChain, Abstract!ValidChain
<1> QED BY <1>1, <1>6, <1>8

\* A step that moves neither the database nor the history is a stutter.
LEMMA StutterRefines ==
    ASSUME IInv,
           db'.blockindex = db.blockindex,
           db'.hashBestChain = db.hashBestChain,
           db'.tx = db.tx,
           diverged' = diverged
    PROVE  [Abstract!Next]_<<db.blockindex, db.hashBestChain, db.tx, diverged>>
OBVIOUS

LEMMA InitRefines == Init => Abstract!Init
<1> SUFFICES ASSUME Init PROVE Abstract!Init
  OBVIOUS
<1>1. IInv
  BY InitIInv
<1>2. db.blockindex = {Genesis} /\ db.hashBestChain = Genesis /\ diverged = FALSE
  BY DEF Init
<1>3. db.tx = IndexOfChain(Genesis)
  BY <1>1, <1>2 DEF IInv, ChainInv
<1> QED BY <1>2, <1>3, SameOperators DEF Abstract!Init

\* Every commit of the best chain is a switch to a heavier valid chain, or a
\* roll-back along the same one.
LEMMA TxnCommitRefines ==
    ASSUME IInv, TrustInv, TxnCommit
    PROVE  Abstract!Next
<1>1. /\ pc \in Working /\ goal \in Blocks /\ goal \in mapBlockIndex
  BY CallBlocks DEF TxnCommit
<1>2. /\ db'.blockindex = db.blockindex
      /\ db'.hashBestChain = goal
      /\ db'.tx = batch.tx
  <2>1. /\ IsDatabase(batch) /\ batch.blockindex = db.blockindex
        /\ db' = [batch EXCEPT !.hashBestChain = goal]
    BY <1>1 DEF IInv, BatchInv, TxnCommit
  <2> QED BY <1>1, <2>1, WriteHashBestChain
<1>3. diverged' = diverged /\ diverged \in BOOLEAN
  BY DEF IInv, TypeOK, TxnCommit
<1>4. CASE diverged
  BY <1>3, <1>4 DEF Abstract!Next
<1>5. CASE ~diverged
  <2>1. /\ goal \in db.blockindex
        /\ ValidChain(goal)
        /\ db'.tx = IndexOfChain(goal)
        /\ ChainTrust[goal] > ChainTrust[db.hashBestChain] \/ goal \in Chain[db.hashBestChain]
    BY <1>1, <1>2, <1>5 DEF IInv, IndexInv, ChainInv, TrustInv, TxnCommit
  <2>2. Abstract!MoveTo(goal)
    BY <1>2, <1>3, <2>1, SameOperators DEF Abstract!MoveTo
  <2>3. Abstract!SwitchTo(goal) \/ Abstract!RollBackTo(goal)
    BY <2>1, <2>2, SameOperators DEF Abstract!SwitchTo, Abstract!RollBackTo
  <2> QED BY <2>1, <2>3 DEF Abstract!Next
<1> QED BY <1>3, <1>4, <1>5

\* A block index entry for b is learning b.
LEMMA AcceptBlockRefines ==
    ASSUME IInv, NEW b \in Blocks, AcceptBlock(b)
    PROVE  Abstract!Next
<1>1. /\ db'.blockindex = db.blockindex \cup {b}
      /\ db'.hashBestChain = db.hashBestChain
      /\ db'.tx = db.tx
  <2>1. IsDatabase(db) /\ db' = [db EXCEPT !.blockindex = @ \cup {b}, !.hashNext[b] = Null]
    BY DEF IInv, TypeOK, AcceptBlock
  <2> QED BY <2>1, WriteBlockIndex
<1>2. Abstract!Learn(b)
  BY <1>1 DEF IInv, IndexInv, AcceptBlock, Abstract!Learn
<1> QED BY <1>2 DEF Abstract!Next

LEMMA FailureRefines ==
    ASSUME IInv, diverged' = diverged,
           \/ pc \in Working /\ FailFirst
           \/ pc \in Working /\ FailPostponed
           \/ db' = db
    PROVE  [Abstract!Next]_<<db.blockindex, db.hashBestChain, db.tx, diverged>>
<1>1. TypeOK /\ (pc \in Working => pindexNew \in Blocks /\ goal \in Blocks)
  BY CallBlocks DEF IInv, Calling
<1>2. /\ db'.blockindex = db.blockindex
      /\ db'.hashBestChain = db.hashBestChain
      /\ db'.tx = db.tx
  BY <1>1, InvalidChainFoundWrites DEF FailFirst, FailPostponed
<1> QED BY <1>2, StutterRefines

LEMMA NextRefines ==
    IInv /\ TrustInv /\ [Next]_vars
        => [Abstract!Next]_<<db.blockindex, db.hashBestChain, db.tx, diverged>>
<1> SUFFICES ASSUME IInv, TrustInv, [Next]_vars
             PROVE  [Abstract!Next]_<<db.blockindex, db.hashBestChain, db.tx, diverged>>
  OBVIOUS
<1>1. CASE UNCHANGED vars
  BY <1>1, FailureRefines DEF vars
<1>2. CASE \E b \in Blocks : AcceptBlock(b)
  BY <1>2, AcceptBlockRefines
<1>3. CASE SetBestChain
  <2>1. db' = db /\ (diverged' = diverged \/ diverged')
    BY <1>3 DEF SetBestChain, IInv, TypeOK
  <2>2. CASE diverged'
    BY <2>2 DEF Abstract!Next
  <2>3. CASE diverged' = diverged
    BY <2>1, <2>3, FailureRefines
  <2> QED BY <2>1, <2>2, <2>3
<1>4. CASE DisconnectBlock \/ ConnectBlock \/ ConnectFurther \/ Publish \/ PostponedReadFails
           \/ Crash \/ LoadBlockIndex
  <2>1. db' = db /\ diverged' = diverged
    BY <1>4 DEF DisconnectBlock, ConnectBlock, ConnectFurther, Publish, PostponedReadFails,
                Crash, LoadBlockIndex
  <2> QED BY <2>1, FailureRefines
<1>5. CASE TxnCommit
  BY <1>5, TxnCommitRefines
<1>6. CASE BlockRefused
  BY <1>6, FailureRefines DEF BlockRefused, Working
<1>7. CASE ReorganizeReadFails
  BY <1>7, FailureRefines DEF ReorganizeReadFails, Working
<1>8. CASE CommitFails
  BY <1>8, FailureRefines DEF CommitFails, Working
<1> QED BY <1>1, <1>2, <1>3, <1>4, <1>5, <1>6, <1>7, <1>8 DEF Next, Step

\* SetBestChain with its intermediate commits, refusals, failed reads and
\* crashes implements BestChain: the database goes from one valid chain to a
\* heavier one in single steps.
THEOREM BlockChainImplementsBestChain == Spec => ImplementsBestChain
BY InitRefines, NextRefines, IInvHolds, TrustInvHolds, PTL DEF Spec, ImplementsBestChain, Abstract!Spec
=============================================================================
