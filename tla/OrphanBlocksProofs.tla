------------------------- MODULE OrphanBlocksProofs -------------------------
(***************************************************************************)
(* Proofs about OrphanBlocks.  The safety invariants are not inductive:    *)
(* while the loop of ProcessBlock runs, an orphan may be held whose parent *)
(* was just accepted.  OrphanInv says that then the parent is in the work  *)
(* queue.                                                                  *)
(*                                                                         *)
(* Of TxIndexProofs only the facts about the block tree are used.  What it *)
(* assumes of transactions restricts nothing here: blocks without any will *)
(* do.                                                                     *)
(***************************************************************************)
EXTENDS OrphanBlocks, TxIndexProofs

\* The block an orphan waits for is on its chain and is not an orphan itself,
\* but has an orphan child.
LEMMA WantedIsMissing ==
  ASSUME NEW Held \in SUBSET (Blocks \ {Genesis}), NEW b \in Held
  PROVE  LET w == WantedByOrphan(b, Held)
         IN  w \in Blocks \ Held /\ \E c \in Held : Parent[c] = w
<1> DEFINE Missing == Chain[b] \ Held
           T == {Height[b] - Height[x] : x \in Missing}
           w == WantedByOrphan(b, Held)
<1>1. b \in Blocks /\ Missing \subseteq Blocks /\ Genesis \in Missing /\ b \notin Missing
  BY ChainClosed, GenesisOnChain
<1>2. Height \in [Blocks -> Nat]
  BY TreeAssumption DEF TreeAssumption
<1>3. T \in SUBSET Nat /\ T # {}
  <2>1. ASSUME NEW x \in Missing
        PROVE  Height[b] - Height[x] \in Nat
    <3>1. Height[x] < Height[b]
      BY <1>1, AncestorsAreLower
    <3> QED BY <3>1, <1>1, <1>2
  <2> QED BY <2>1, <1>1
<1>4. \E x \in Missing : \A y \in Missing : Height[y] <= Height[x]
  <2>1. PICK m \in T : \A k \in T : m <= k
    <3> HIDE DEF T
    <3> QED BY <1>3, LeastNatural
  <2>2. PICK x \in Missing : m = Height[b] - Height[x]
    OBVIOUS
  <2>3. ASSUME NEW y \in Missing
        PROVE  Height[y] <= Height[x]
    <3>1. Height[b] - Height[x] <= Height[b] - Height[y]
      BY <2>1, <2>2
    <3>2. Height[b] \in Nat /\ Height[x] \in Nat /\ Height[y] \in Nat
      BY <1>1, <1>2
    <3> QED BY <3>1, <3>2
  <2> QED BY <2>3
<1>5. w \in Missing /\ \A y \in Missing : Height[y] <= Height[w]
  BY <1>4 DEF WantedByOrphan
<1> DEFINE c == NextOnChain(w, b)
<1>6. c \in Chain[b] \ {Genesis} /\ c \in Blocks /\ Parent[c] = w
  BY <1>1, <1>5, NextOnChainIsNext
<1>7. c \in Held
  <2>1. Height[c] = Height[w] + 1 /\ Height[w] \in Nat
    BY <1>1, <1>2, <1>5, <1>6, TreeAssumption DEF TreeAssumption
  <2> QED BY <2>1, <1>5, <1>6
<1> QED
  BY <1>1, <1>5, <1>6, <1>7

-----------------------------------------------------------------------------

Queued == {vWorkQueue[i] : i \in 1 .. Len(vWorkQueue)}

\* An orphan whose parent is in the index waits for its turn, or missed it
\* because the parent's AcceptBlock returned false.
OrphanTurns ==
    \A b \in mapOrphanBlocks :
        Parent[b] \in mapBlockIndex => Parent[b] \in failed \cup Queued

OrphanInv == TypeOK /\ OrphanMapsAgree /\ StakeSeenIsHeld /\ OrphanTurns

LEMMA InitOrphanInv == Init => OrphanInv
BY TreeAssumption DEF TreeAssumption, Init, OrphanInv, TypeOK, OrphanMapsAgree,
   StakeSeenIsHeld, OrphanTurns, Queued

\* What AcceptBlock does to the index, whatever it returns.
LEMMA AcceptBlockTypes ==
  ASSUME TypeOK, NEW b \in Blocks, Accepted(b) \/ NotAccepted(b)
  PROVE  /\ {Genesis} \subseteq mapBlockIndex' /\ mapBlockIndex' \subseteq Blocks
         /\ failed' \subseteq Blocks
         /\ hashPendingCheckpoint' \in Blocks \cup {Null}
         /\ mapBlockIndex \subseteq mapBlockIndex'
         /\ mapBlockIndex' \subseteq mapBlockIndex \cup {b}
         /\ failed \ {b} \subseteq failed'
         /\ NotAccepted(b) => b \in failed'
BY DEF TypeOK, Accepted, NotAccepted

LEMMA AskedTypes ==
  ASSUME TypeOK, NEW b \in Blocks
  PROVE  Answered(b) \cup AskForPendingSyncCheckpoint \subseteq Blocks
BY DEF TypeOK, Answered, AskForPendingSyncCheckpoint

LEMMA ParentInBlocks == \A b \in Blocks \ {Genesis} : Parent[b] \in Blocks
BY TreeAssumption DEF TreeAssumption

LEMMA StakeOfType == \A b \in Blocks : StakeOf(b) \subseteq Stakes
BY DEF StakeOf, Stakes

-----------------------------------------------------------------------------

LEMMA RefusalOrphanInv ==
  ASSUME OrphanInv, NEW b \in Blocks, RefuseBlock(b) \/ RefuseOrphan(b)
  PROVE  OrphanInv'
<1> USE DEF OrphanInv, orphans
<1>1. UNCHANGED <<mapBlockIndex, orphans, hashPendingCheckpoint, vWorkQueue>>
  BY DEF RefuseBlock, RefuseOrphan
<1>2. failed \subseteq failed' /\ failed' \subseteq Blocks
  BY DEF RefuseBlock, RefuseOrphan, TypeOK
<1>3. askedFor' \subseteq Blocks
  BY AskedTypes DEF RefuseBlock, RefuseOrphan
<1>4. TypeOK'
  BY <1>1, <1>2, <1>3 DEF TypeOK
<1>5. OrphanMapsAgree' /\ StakeSeenIsHeld'
  BY <1>1 DEF OrphanMapsAgree, StakeSeenIsHeld
<1>6. OrphanTurns'
  BY <1>1, <1>2 DEF OrphanTurns, Queued
<1> QED BY <1>4, <1>5, <1>6

LEMMA HoldOrphanInv ==
  ASSUME OrphanInv, NEW b \in Blocks, HoldOrphan(b)
  PROVE  OrphanInv'
<1> USE DEF OrphanInv, orphans
<1>1. /\ b # Genesis /\ vWorkQueue = <<>> /\ Parent[b] \notin mapBlockIndex
      /\ mapOrphanBlocks' = mapOrphanBlocks \cup {b}
      /\ mapOrphanBlocksByPrev' = mapOrphanBlocksByPrev \cup {b}
      /\ setStakeSeenOrphan' = setStakeSeenOrphan \cup StakeOf(b)
      /\ UNCHANGED <<mapBlockIndex, hashPendingCheckpoint, vWorkQueue, failed>>
  BY DEF HoldOrphan, IsNew, Arrives
<1>2. mapOrphanBlocks' \in SUBSET (Blocks \ {Genesis}) /\ b \in mapOrphanBlocks'
  BY <1>1 DEF TypeOK
<1>3. WantedByOrphan(b, mapOrphanBlocks') \in Blocks
  BY <1>2, WantedIsMissing
<1>4. askedFor' \subseteq Blocks
  BY <1>3, AskedTypes DEF HoldOrphan
<1>5. TypeOK'
  BY <1>1, <1>2, <1>4, StakeOfType DEF TypeOK
<1>6. OrphanMapsAgree'
  BY <1>1 DEF OrphanMapsAgree
<1>7. StakeSeenIsHeld'
  BY <1>1 DEF StakeSeenIsHeld
<1>8. OrphanTurns'
  BY <1>1 DEF OrphanTurns, Queued
<1> QED BY <1>5, <1>6, <1>7, <1>8

LEMMA AcceptArrivedInv ==
  ASSUME OrphanInv, NEW b \in Blocks, AcceptArrived(b)
  PROVE  OrphanInv'
<1> USE DEF OrphanInv, orphans
<1>1. /\ vWorkQueue = <<>>
      /\ \/ Accepted(b) /\ vWorkQueue' = <<b>>
         \/ NotAccepted(b) /\ UNCHANGED vWorkQueue
      /\ UNCHANGED orphans
  BY DEF AcceptArrived, IsNew, Arrives
<1>2. askedFor' \subseteq Blocks
  BY AskedTypes DEF AcceptArrived
<1>3. TypeOK'
  <2>1. <<b>> \in Seq(Blocks) /\ vWorkQueue \in Seq(Blocks)
    BY DEF TypeOK
  <2> QED BY <1>1, <1>2, <2>1, AcceptBlockTypes DEF TypeOK
<1>4. OrphanMapsAgree'
  BY <1>1 DEF OrphanMapsAgree
<1>5. StakeSeenIsHeld'
  BY <1>1 DEF StakeSeenIsHeld
<1>6. OrphanTurns'
  <2>1. b \in failed' \cup Queued'
    <3>1. CASE vWorkQueue' = <<b>>
      <4>1. 1 \in 1 .. Len(vWorkQueue') /\ vWorkQueue'[1] = b
        BY <3>1
      <4> QED BY <4>1 DEF Queued
    <3>2. CASE NotAccepted(b)
      BY <3>2, AcceptBlockTypes
    <3> QED BY <1>1, <3>1, <3>2
  <2>2. Queued = {}
    BY <1>1 DEF Queued
  <2> QED
    BY <1>1, <2>1, <2>2, AcceptBlockTypes DEF OrphanTurns
<1> QED BY <1>3, <1>4, <1>5, <1>6

LEMMA AcceptOrphanInv ==
  ASSUME OrphanInv, NEW b \in mapOrphanBlocks, AcceptOrphan(b)
  PROVE  OrphanInv'
<1> USE DEF OrphanInv
<1>1. b \in Blocks /\ vWorkQueue \in Seq(Blocks)
  BY DEF TypeOK
<1>2. /\ vWorkQueue # <<>> /\ Parent[b] = Head(vWorkQueue)
      /\ \/ Accepted(b) /\ vWorkQueue' = Append(vWorkQueue, b)
         \/ NotAccepted(b) /\ UNCHANGED vWorkQueue
      /\ mapOrphanBlocks' = mapOrphanBlocks \ {b}
      /\ setStakeSeenOrphan' = setStakeSeenOrphan \ StakeOf(b)
      /\ UNCHANGED <<mapOrphanBlocksByPrev, askedFor>>
  BY DEF AcceptOrphan, Unvisited, OrphanChildren
<1>3. TypeOK'
  <2>1. vWorkQueue' \in Seq(Blocks)
    BY <1>1, <1>2
  <2> QED BY <1>1, <1>2, <2>1, AcceptBlockTypes DEF TypeOK
<1>4. OrphanMapsAgree'
  <2>1. vWorkQueue' # <<>> /\ Head(vWorkQueue') = Head(vWorkQueue)
    BY <1>1, <1>2
  <2> QED BY <1>2, <2>1 DEF OrphanMapsAgree
<1>5. StakeSeenIsHeld'
  BY <1>2 DEF StakeSeenIsHeld
<1>6. OrphanTurns'
  <2>1. Queued \subseteq Queued' /\ b \in failed' \cup Queued'
    <3>1. CASE Accepted(b) /\ vWorkQueue' = Append(vWorkQueue, b)
      <4>1. /\ Len(vWorkQueue') = Len(vWorkQueue) + 1 /\ Len(vWorkQueue) \in Nat
            /\ \A i \in 1 .. Len(vWorkQueue) : vWorkQueue'[i] = vWorkQueue[i]
            /\ vWorkQueue'[Len(vWorkQueue) + 1] = b
        BY <3>1, <1>1
      <4> QED BY <4>1 DEF Queued
    <3>2. CASE NotAccepted(b) /\ UNCHANGED vWorkQueue
      BY <3>2, <1>1, AcceptBlockTypes DEF Queued
    <3> QED BY <1>2, <3>1, <3>2
  <2> QED BY <1>1, <1>2, <2>1, AcceptBlockTypes DEF OrphanTurns
<1> QED BY <1>3, <1>4, <1>5, <1>6

LEMMA NextInQueueInv ==
  ASSUME OrphanInv, NextInQueue
  PROVE  OrphanInv'
<1> USE DEF OrphanInv
<1>1. vWorkQueue \in Seq(Blocks) /\ vWorkQueue # <<>>
  BY DEF NextInQueue, TypeOK
<1>2. /\ mapOrphanBlocksByPrev' = mapOrphanBlocksByPrev \ OrphanChildren(Head(vWorkQueue))
      /\ vWorkQueue' = Tail(vWorkQueue)
      /\ UNCHANGED <<mapBlockIndex, mapOrphanBlocks, setStakeSeenOrphan,
                     hashPendingCheckpoint, askedFor, failed>>
  BY DEF NextInQueue
<1>3. \A o \in mapOrphanBlocks :
          o \in mapOrphanBlocksByPrev /\ Parent[o] # Head(vWorkQueue)
  BY DEF NextInQueue, Unvisited, OrphanChildren, OrphanMapsAgree
<1>4. TypeOK'
  <2>1. vWorkQueue' \in Seq(Blocks)
    BY <1>1, <1>2
  <2> QED BY <1>2, <2>1 DEF TypeOK
<1>5. OrphanMapsAgree'
  BY <1>2, <1>3 DEF OrphanMapsAgree, OrphanChildren
<1>6. StakeSeenIsHeld'
  BY <1>2 DEF StakeSeenIsHeld
<1>7. OrphanTurns'
  <2>1. Queued \subseteq {Head(vWorkQueue)} \cup Queued'
    <3> SUFFICES ASSUME NEW i \in 1 .. Len(vWorkQueue), i # 1
                 PROVE  vWorkQueue[i] \in Queued'
      BY <1>1 DEF Queued
    <3>1. /\ Len(Tail(vWorkQueue)) = Len(vWorkQueue) - 1
          /\ i - 1 \in 1 .. Len(Tail(vWorkQueue))
          /\ Tail(vWorkQueue)[i - 1] = vWorkQueue[i]
      BY <1>1
    <3> QED BY <1>2, <3>1 DEF Queued
  <2> QED BY <1>2, <1>3, <2>1 DEF OrphanTurns
<1> QED BY <1>4, <1>5, <1>6, <1>7

LEMMA ProcessSyncCheckpointInv ==
  ASSUME OrphanInv, NEW h \in SignedCheckpoints, ProcessSyncCheckpoint(h)
  PROVE  OrphanInv'
<1> USE DEF OrphanInv, orphans
<1>1. h \in Blocks
  BY OrphanAssumption DEF OrphanAssumption
<1>2. /\ UNCHANGED <<mapBlockIndex, orphans, vWorkQueue, failed>>
      /\ hashPendingCheckpoint' \in {hashPendingCheckpoint, Null, h}
  BY DEF ProcessSyncCheckpoint
<1>3. askedFor' \subseteq Blocks
  <2>1. h \in mapOrphanBlocks => WantedByOrphan(h, mapOrphanBlocks) \in Blocks
    BY WantedIsMissing DEF TypeOK
  <2> QED BY <1>1, <2>1 DEF ProcessSyncCheckpoint, TypeOK
<1>4. TypeOK'
  BY <1>1, <1>2, <1>3 DEF TypeOK
<1>5. OrphanMapsAgree' /\ StakeSeenIsHeld' /\ OrphanTurns'
  BY <1>2 DEF OrphanMapsAgree, StakeSeenIsHeld, OrphanTurns, Queued
<1> QED BY <1>4, <1>5

LEMMA RestartInv ==
  ASSUME OrphanInv, Restart
  PROVE  OrphanInv'
BY DEF Restart, OrphanInv, TypeOK, OrphanMapsAgree, StakeSeenIsHeld, OrphanTurns, Queued

LEMMA NextOrphanInv ==
  ASSUME OrphanInv, [Next]_vars
  PROVE  OrphanInv'
<1>1. CASE \E b \in Blocks : ProcessBlock(b)
  BY <1>1, RefusalOrphanInv, HoldOrphanInv, AcceptArrivedInv DEF ProcessBlock
<1>2. CASE WorkQueue
  BY <1>2, AcceptOrphanInv, NextInQueueInv DEF WorkQueue
<1>3. CASE \E h \in SignedCheckpoints : ProcessSyncCheckpoint(h)
  BY <1>3, ProcessSyncCheckpointInv
<1>4. CASE Restart
  BY <1>4, RestartInv
<1>5. CASE UNCHANGED vars
  BY <1>5 DEF vars, orphans, OrphanInv, TypeOK, OrphanMapsAgree, StakeSeenIsHeld,
     OrphanTurns, Queued
<1> QED BY <1>1, <1>2, <1>3, <1>4, <1>5 DEF Next

-----------------------------------------------------------------------------

\* At every step of ProcessBlock's loop, an orphan whose parent is in the index
\* is still to be visited, or the parent's AcceptBlock returned false.
THEOREM OrphanInvHolds == Spec => []OrphanInv
<1>1. OrphanInv /\ [Next]_vars => OrphanInv'
  BY NextOrphanInv
<1> QED BY InitOrphanInv, <1>1, PTL DEF Spec

\* The type invariant, for every tree of blocks.
THEOREM OrphanTypeCorrect == Spec => []TypeOK
<1>1. OrphanInv => TypeOK
  BY DEF OrphanInv
<1> QED BY <1>1, OrphanInvHolds, PTL

\* The work queue of ProcessBlock misses no orphan that can be accepted.
THEOREM OrphanAlwaysWaitsForParent == Spec => []OrphanWaitsForParent
<1>1. OrphanInv => OrphanWaitsForParent
  BY DEF OrphanInv, OrphanTurns, OrphanWaitsForParent, Queued
<1> QED BY <1>1, OrphanInvHolds, PTL

\* mapOrphanBlocks and mapOrphanBlocksByPrev hold the same orphans, and no
\* stake stays in setStakeSeenOrphan without an orphan.
THEOREM OrphanMapsAlwaysAgree == Spec => [](OrphanMapsAgree /\ StakeSeenIsHeld)
<1>1. OrphanInv => OrphanMapsAgree /\ StakeSeenIsHeld
  BY DEF OrphanInv
<1> QED BY <1>1, OrphanInvHolds, PTL

\* Whatever blocks and stakes arrive in whatever order, the limit on duplicate
\* stakes never stands between an orphan and its ancestors.
THEOREM WantedAlwaysLetIn == Spec => []WantedIsLetIn
<1>1. OrphanInv => WantedIsLetIn
  <2> SUFFICES ASSUME OrphanInv, NEW o \in mapOrphanBlocks
               PROVE  OrphanChildren(WantedByOrphan(o, mapOrphanBlocks)) # {}
    BY DEF WantedIsLetIn, Duplicated
  <2>1. mapOrphanBlocks \in SUBSET (Blocks \ {Genesis})
    BY DEF OrphanInv, TypeOK
  <2>2. \E c \in mapOrphanBlocks : Parent[c] = WantedByOrphan(o, mapOrphanBlocks)
    BY <2>1, WantedIsMissing
  <2> QED BY <2>2 DEF OrphanInv, OrphanMapsAgree, OrphanChildren
<1> QED BY <1>1, OrphanInvHolds, PTL
=============================================================================
