------------------------ MODULE SyncCheckpointProofs ------------------------
(***************************************************************************)
(* Proofs about SyncCheckpoint, in three parts.                            *)
(*                                                                         *)
(* CheckpointInv says what the handler that waits for SetBestChain may     *)
(* rely on when it goes on: the checkpoint it asked for was valid and no   *)
(* other was recorded meanwhile.  Nothing about the chain itself is needed *)
(* for it.                                                                 *)
(*                                                                         *)
(* IInv, the invariant of BlockChain, holds with the checkpoint handlers   *)
(* too, since it does not say why SetBestChain was called.  On top of it   *)
(* RecordInv keeps the checkpoint on every chain that a switch stands at,  *)
(* and PendingInv and TakenUpInv follow a pending checkpoint from the      *)
(* arrival of its block to its record.                                     *)
(***************************************************************************)
EXTENDS SyncCheckpoint, BlockChainProofs

\* The callers that are steps of a start of the node.
Starting == {"LoadBlockIndex", "ResetSyncCheckpoint", "ResetToHardened"}

CheckpointInv ==
    /\ pc # "down" =>
          /\ hashSyncCheckpoint = syncRecord
          /\ checkpointMessagePending \in {Null, hashPendingCheckpoint}
    /\ RelayedCheckpointIsCurrent
    /\ caller \in {"AcceptPendingSyncCheckpoint", "ProcessSyncCheckpoint"} =>
          hashSyncCheckpoint \in Chain[asked]
    /\ caller = "AcceptPendingSyncCheckpoint" => asked = hashPendingCheckpoint
    /\ caller \in Starting => checkpointMessage = Null

USE DEF CheckpointInv, RelayedCheckpointIsCurrent, Starting

-----------------------------------------------------------------------------

LEMMA InitCheckpointInv == CheckpointInit => CheckpointInv
  BY DEF CheckpointInit, Init

\* The steps that leave the checkpoint and its messages alone.
LEMMA UntouchedCheckpointInv ==
  ASSUME CheckpointInv,
         UNCHANGED <<records, pending, checkpoint>>,
         pc = "down" => pc' = "down",
         \/ UNCHANGED calling
         \/ caller' \in {"none", "AcceptBlock"}
  PROVE  CheckpointInv' /\ UNCHANGED syncRecord
  BY DEF records, pending, checkpoint, calling

\* The steps of a switch are taken while the node is up.
LEMMA SwitchingIsUp == Switching => pc # "down"
  BY DEF Switching, Step, SetBestChain, DisconnectBlock, ConnectBlock, TxnCommit,
         ConnectFurther, Publish, BlockRefused, ReorganizeReadFails,
         PostponedReadFails, CommitFails, Working

LEMMA ReceiveBlockCheckpointInv ==
  ASSUME CheckpointInv, NEW b \in Blocks, ReceiveBlock(b)
  PROVE  CheckpointInv' /\ UNCHANGED syncRecord
<1>1. pc # "down"
  BY DEF ReceiveBlock, AcceptBlock
<1> QED
  BY <1>1, UntouchedCheckpointInv DEF ReceiveBlock

\* What a step has to do with the record: nothing, a move to a descendant, or
\* a reset.
Forward ==
    \/ syncRecord' = syncRecord
    \/ syncRecord \in Chain[syncRecord']
    \/ caller \in {"ResetSyncCheckpoint", "ResetToHardened"}

LEMMA MessageCheckpointInv ==
  ASSUME CheckpointInv, NEW h \in SignedCheckpoints, Message(h)
  PROVE  CheckpointInv' /\ Forward
<1> USE DEF Returned, chainVars, vars, call, records, pending, checkpoint, calling, Forward
<1>1. CASE PostponeCheckpoint(h)
  BY <1>1 DEF PostponeCheckpoint
<1>2. CASE RejectCheckpoint(h)
  BY <1>2 DEF RejectCheckpoint
<1>3. CASE SwitchToCheckpoint(h)
  BY <1>3 DEF SwitchToCheckpoint, CallSetBestChain, Goto, Valid
<1>4. CASE RecordCheckpoint(h)
  BY <1>4 DEF RecordCheckpoint, ReadyToRecord, WriteSyncCheckpoint, ClearPending, Done, Valid
<1> QED
  BY <1>1, <1>2, <1>3, <1>4 DEF Message

LEMMA HandlingCheckpointInv ==
  ASSUME CheckpointInv, Handling
  PROVE  CheckpointInv' /\ Forward
<1> USE DEF Returned, chainVars, vars, call, records, pending, checkpoint, calling, Forward, Done
<1>1. CASE AcceptBlockReturns
  BY <1>1 DEF AcceptBlockReturns, ClearPending
<1>2. CASE SwitchToPending
  BY <1>2 DEF SwitchToPending, CallSetBestChain, Goto, Valid
<1>3. CASE RecordPending
  BY <1>3 DEF RecordPending, ReadyToRecordPending, WriteSyncCheckpoint, ClearPending, Valid
<1>4. CASE CheckpointFails
  BY <1>4 DEF CheckpointFails
<1>5. CASE CheckMasterKey
  BY <1>5 DEF CheckMasterKey
<1>6. CASE SwitchToHardened
  BY <1>6 DEF SwitchToHardened, CallSetBestChain, Goto
<1>7. CASE ResetFails
  BY <1>7 DEF ResetFails, Goto
<1>8. CASE ResetSyncCheckpoint
  <2>1. checkpointMessage = Null
    BY <1>8 DEF ResetSyncCheckpoint, ReadyToReset
  <2> QED
    BY <1>8, <2>1 DEF ResetSyncCheckpoint, ReadyToReset, WriteSyncCheckpoint
<1> QED
  BY <1>1, <1>2, <1>3, <1>4, <1>5, <1>6, <1>7, <1>8 DEF Handling

LEMMA HandlerFailsCheckpointInv ==
  ASSUME CheckpointInv, HandlerFails
  PROVE  CheckpointInv' /\ UNCHANGED syncRecord
<1>1. pc # "down" /\ caller' = "none"
  BY DEF HandlerFails, Returned, Done
<1> QED
  BY <1>1, UntouchedCheckpointInv DEF HandlerFails

LEMMA SwitchingCheckpointInv ==
  ASSUME CheckpointInv, Switching
  PROVE  CheckpointInv' /\ UNCHANGED syncRecord
<1>1. pc # "down"
  BY SwitchingIsUp
<1> QED
  BY <1>1, UntouchedCheckpointInv DEF Switching

LEMMA NodeCrashCheckpointInv ==
  ASSUME CheckpointInv, NodeCrash
  PROVE  CheckpointInv' /\ UNCHANGED syncRecord
<1>1. pc' = "down" /\ caller' = "none"
  BY DEF NodeCrash, Crash, Goto, Done
<1> QED
  BY <1>1, UntouchedCheckpointInv DEF NodeCrash

LEMMA StartUpCheckpointInv ==
  ASSUME CheckpointInv, StartUp
  PROVE  CheckpointInv' /\ UNCHANGED syncRecord
BY DEF StartUp, ClearPending

LEMMA NextCheckpointInv ==
  ASSUME CheckpointInv, [CheckpointNext]_allVars
  PROVE  CheckpointInv' /\ Forward
<1>1. CASE \E b \in Blocks : ReceiveBlock(b)
  BY <1>1, ReceiveBlockCheckpointInv DEF Forward
<1>2. CASE \E h \in SignedCheckpoints : Message(h)
  BY <1>2, MessageCheckpointInv
<1>3. CASE Handling
  BY <1>3, HandlingCheckpointInv
<1>4. CASE HandlerFails
  BY <1>4, HandlerFailsCheckpointInv DEF Forward
<1>5. CASE Switching
  BY <1>5, SwitchingCheckpointInv DEF Forward
<1>6. CASE NodeCrash
  BY <1>6, NodeCrashCheckpointInv DEF Forward
<1>7. CASE StartUp
  BY <1>7, StartUpCheckpointInv DEF Forward
<1>8. CASE UNCHANGED allVars
  BY <1>8 DEF allVars, chainVars, vars, call, records, pending, checkpoint, calling, Forward
<1> QED
  BY <1>1, <1>2, <1>3, <1>4, <1>5, <1>6, <1>7, <1>8 DEF CheckpointNext

-----------------------------------------------------------------------------

\* A handler that waits for SetBestChain finds on its return the checkpoint it
\* validated its block against, in memory and on disk.
THEOREM CheckpointInvHolds == CheckpointSpec => []CheckpointInv
<1>1. CheckpointInit => CheckpointInv
  BY InitCheckpointInv
<1>2. CheckpointInv /\ [CheckpointNext]_allVars => CheckpointInv'
  BY NextCheckpointInv
<1> QED
  BY <1>1, <1>2, PTL DEF CheckpointSpec

\* The message sent to peers that connect is the one of the checkpoint in force
\* (main.cpp, "relay sync-checkpoint").
THEOREM RelayedCheckpointAlwaysCurrent == CheckpointSpec => []RelayedCheckpointIsCurrent
<1>1. CheckpointInv => RelayedCheckpointIsCurrent
  OBVIOUS
<1> QED
  BY <1>1, CheckpointInvHolds, PTL

\* The recorded checkpoint only ever moves to a descendant, across crashes and
\* restarts too, unless the master key changed (ValidateSyncCheckpoint).
THEOREM CheckpointAlwaysMovesForward == CheckpointSpec => CheckpointMovesForward
<1>1. CheckpointInv /\ [CheckpointNext]_allVars =>
        [ \/ syncRecord \in Chain[syncRecord']
          \/ caller \in {"ResetSyncCheckpoint", "ResetToHardened"} ]_syncRecord
  BY NextCheckpointInv DEF Forward
<1> QED
  BY <1>1, CheckpointInvHolds, PTL DEF CheckpointSpec, CheckpointMovesForward

HIDE DEF CheckpointInv, RelayedCheckpointIsCurrent, Starting

-----------------------------------------------------------------------------

\* A handler calls SetBestChain for a block of the index.
LEMMA CallIInv ==
    ASSUME IInv, pc = "idle", NEW b \in mapBlockIndex, NEW c, CallSetBestChain(c, b)
    PROVE  IInv'
<1>1. /\ pc' = "SetBestChain" /\ pindexNew' = b
      /\ base' = Null /\ goal' = Null /\ cursor' = Null
      /\ UNCHANGED <<db, batch, mapBlockIndex, pnext, pindexBest, bnBestInvalidTrust,
                     nFaults, diverged>>
  BY DEF CallSetBestChain, Goto, memory
<1>2. b \in Blocks
  BY DEF IInv, TypeOK
<1>3. TypeOK'
  BY <1>1, <1>2 DEF IInv, TypeOK, Phases
<1>4. IndexInv' /\ CallInv' /\ BatchInv'
  BY <1>1 DEF IInv, IndexInv, CallInv, BatchInv, Calling, Working
<1>5. ChainInv' /\ LinksInv'
  BY <1>1 DEF IInv, ChainInv, LinksInv, Working
<1> QED BY <1>3, <1>4, <1>5 DEF IInv

\* The invariant of the block chain holds whatever the checkpoint handlers do.
LEMMA CheckpointNextIInv ==
    ASSUME IInv, [CheckpointNext]_allVars
    PROVE  IInv'
<1>1. ASSUME UNCHANGED chainVars PROVE IInv'
  BY <1>1, NextIInv DEF chainVars
<1>2. ASSUME Next PROVE IInv'
  BY <1>2, NextIInv
<1>3. CASE \E b \in Blocks : ReceiveBlock(b)
  BY <1>2, <1>3 DEF ReceiveBlock, Next
<1>4. CASE \E h \in SignedCheckpoints : Message(h)
  <2>1. PICK h \in SignedCheckpoints : Message(h)
    BY <1>4
  <2>2. CASE SwitchToCheckpoint(h)
    BY <2>2, CallIInv DEF SwitchToCheckpoint, Returned
  <2>3. CASE ~SwitchToCheckpoint(h)
    BY <1>1, <2>1, <2>3 DEF Message, PostponeCheckpoint, RejectCheckpoint, RecordCheckpoint
  <2> QED BY <2>2, <2>3
<1>5. CASE Handling
  <2>1. CASE AcceptBlockReturns \/ RecordPending \/ CheckpointFails \/ CheckMasterKey
             \/ ResetSyncCheckpoint
    BY <1>1, <2>1 DEF AcceptBlockReturns, RecordPending, CheckpointFails, CheckMasterKey,
                      ResetSyncCheckpoint
  <2>2. CASE SwitchToPending
    BY <2>2, CallIInv DEF SwitchToPending, Returned, PendingArrived
  <2>3. CASE SwitchToHardened
    BY <2>3, CallIInv DEF SwitchToHardened, Returned
  <2>4. CASE ResetFails
    <3>1. nFaults' \in 0 .. MaxFaults /\ bnBestInvalidTrust \in Nat /\ IsDatabase(db)
      <4>1. nFaults \in 0 .. MaxFaults /\ MaxFaults \in Nat
        BY BoundsAssumption DEF IInv, TypeOK, BoundsAssumption
      <4>2. nFaults < MaxFaults => nFaults + 1 \in 0 .. MaxFaults
        BY <4>1
      <4> QED BY <2>4, <4>1, <4>2 DEF ResetFails, IInv, TypeOK
    <3>2. pc = "idle" /\ batch = Null /\ Goto("down", Null)
          /\ UNCHANGED <<db, batch, mapBlockIndex, pnext, pindexBest, bnBestInvalidTrust, diverged>>
      BY <2>4 DEF ResetFails, Returned, IInv, BatchInv, Working, memory
    <3> QED BY <3>1, <3>2, ReturnIInv
  <2> QED BY <1>5, <2>1, <2>2, <2>3, <2>4 DEF Handling
<1>6. CASE HandlerFails
  <2>1. /\ nFaults' \in 0 .. MaxFaults
        /\ UNCHANGED <<db, batch, mapBlockIndex, pnext, pindexBest, bnBestInvalidTrust,
                       pc, pindexNew, base, goal, cursor, diverged>>
    <3>1. nFaults \in 0 .. MaxFaults /\ MaxFaults \in Nat
      BY BoundsAssumption DEF IInv, TypeOK, BoundsAssumption
    <3>2. nFaults < MaxFaults => nFaults + 1 \in 0 .. MaxFaults
      BY <3>1
    <3> QED BY <1>6, <3>2 DEF HandlerFails, Fault, memory, call
  <2>2. TypeOK' /\ IndexInv'
    BY <2>1 DEF IInv, TypeOK, IndexInv
  <2>3. CallInv' /\ BatchInv' /\ ChainInv' /\ LinksInv'
    BY <2>1 DEF IInv, CallInv, BatchInv, ChainInv, LinksInv
  <2> QED BY <2>2, <2>3 DEF IInv
<1>7. CASE Switching \/ NodeCrash \/ StartUp
  BY <1>2, <1>7 DEF Switching, NodeCrash, StartUp, Next
<1>8. CASE UNCHANGED allVars
  BY <1>1, <1>8 DEF allVars
<1> QED BY <1>3, <1>4, <1>5, <1>6, <1>7, <1>8 DEF CheckpointNext

\* The chain, its index and its links are as sound with checkpoints that move
\* the best chain to a lighter one as without.
THEOREM CheckpointIInvHolds == CheckpointSpec => []IInv
<1>1. CheckpointInit => IInv
  BY InitIInv DEF CheckpointInit
<1>2. IInv /\ [CheckpointNext]_allVars => IInv'
  BY CheckpointNextIInv
<1> QED BY <1>1, <1>2, PTL DEF CheckpointSpec

-----------------------------------------------------------------------------

\* mapCheckpoints has a last entry: it is finite, and strict inclusion is
\* well-founded on the sets of its entries above a given one.
LEMMA LastHardenedIsHardened == LastHardened \in Hardened
<1> DEFINE Above(h) == {x \in Hardened : Height[x] > Height[h]}
           A == {Above(h) : h \in Hardened}
<1>1. /\ Hardened \subseteq Blocks /\ Genesis \in Hardened /\ IsFiniteSet(Hardened)
      /\ Height \in [Blocks -> Nat]
  BY CheckpointAssumption, TreeAssumption DEF CheckpointAssumption, TreeAssumption
<1>2. A \subseteq FiniteSubsetsOf(Hardened) /\ A # {}
  <2>1. ASSUME NEW h \in Hardened PROVE Above(h) \in FiniteSubsetsOf(Hardened)
    <3>1. Above(h) \subseteq Hardened
      OBVIOUS
    <3>2. IsFiniteSet(Above(h))
      BY <1>1, <3>1, FS_Subset
    <3> HIDE DEF Above
    <3> QED BY <3>1, <3>2 DEF FiniteSubsetsOf
  <2> QED BY <1>1, <2>1
<1>3. \E s \in A : \A r \in A : ~ (<<r, s>> \in StrictSubsetOrdering(Hardened))
  <2> HIDE DEF A
  <2> QED BY <1>2, FS_StrictSubsetOrderingWellFounded, WFMin, Zenon
<1>4. PICK h \in Hardened :
         \A x \in Hardened : ~ (<<Above(x), Above(h)>> \in StrictSubsetOrdering(Hardened))
  BY <1>3
<1>5. ASSUME NEW x \in Hardened, Height[x] > Height[h]
      PROVE  FALSE
  <2>1. Above(x) \subseteq Above(h)
    BY <1>1, <1>5
  <2>2. x \in Above(h) /\ x \notin Above(x)
    BY <1>1, <1>5
  <2>3. Above(x) \in SUBSET Hardened /\ Above(h) \in SUBSET Hardened
    OBVIOUS
  <2>4. <<Above(x), Above(h)>> \in StrictSubsetOrdering(Hardened)
    <3> HIDE DEF Above
    <3> QED BY <2>1, <2>2, <2>3, Zenon DEF StrictSubsetOrdering
  <2> QED BY <1>4, <2>4
<1>6. \A x \in Hardened : Height[x] <= Height[h]
  BY <1>1, <1>5
<1> QED BY <1>6, Zenon DEF LastHardened

LEMMA NextCheckpointType ==
    ASSUME IInv, CheckpointInv, CheckpointTypeOK, [CheckpointNext]_allVars
    PROVE  CheckpointTypeOK'
<1>1. TypeOK' /\ mapBlockIndex \subseteq Blocks /\ pindexBest \in Blocks
  BY CheckpointNextIInv DEF IInv, TypeOK
<1>2. /\ Hardened \subseteq Blocks /\ SignedCheckpoints \subseteq Blocks
      /\ LastHardened \in Blocks
  BY LastHardenedIsHardened, CheckpointAssumption DEF CheckpointAssumption
<1>3. /\ Null \in Blocks \cup {Null}
      /\ caller = "AcceptPendingSyncCheckpoint" => asked = hashPendingCheckpoint
  BY DEF CheckpointInv
<1> USE <1>1, <1>2, <1>3 DEF CheckpointTypeOK, Callers, records, pending, checkpoint, calling
<1>4. CASE \E b \in Blocks : ReceiveBlock(b)
  BY <1>4 DEF ReceiveBlock
<1>5. CASE \E h \in SignedCheckpoints : Message(h)
  <2>1. PICK h \in SignedCheckpoints : Message(h)
    BY <1>5
  <2>2. CASE PostponeCheckpoint(h) \/ RejectCheckpoint(h)
    BY <2>2 DEF PostponeCheckpoint, RejectCheckpoint, NoteInvalid
  <2>3. CASE SwitchToCheckpoint(h)
    BY <2>3 DEF SwitchToCheckpoint, CallSetBestChain
  <2>4. CASE RecordCheckpoint(h)
    BY <2>4 DEF RecordCheckpoint, WriteSyncCheckpoint, ClearPending, Done
  <2> QED BY <2>1, <2>2, <2>3, <2>4 DEF Message
<1>6. CASE AcceptBlockReturns
  BY <1>6 DEF AcceptBlockReturns, NoteInvalid, ClearPending, PendingArrived, Done
<1>7. CASE SwitchToPending
  BY <1>7 DEF SwitchToPending, CallSetBestChain, PendingArrived
<1>8. CASE RecordPending
  <2>1. hashPendingCheckpoint \in Blocks
    BY <1>8 DEF RecordPending, ReadyToRecordPending, Returned, SetBestChainSucceeded,
                PendingArrived
  <2> QED BY <1>8, <2>1 DEF RecordPending, WriteSyncCheckpoint, ClearPending, Done
<1>9. CASE CheckpointFails
  BY <1>9 DEF CheckpointFails, Done
<1>10. CASE CheckMasterKey
  BY <1>10 DEF CheckMasterKey
<1>11. CASE SwitchToHardened
  BY <1>11 DEF SwitchToHardened, CallSetBestChain
<1>12. CASE ResetSyncCheckpoint
  BY <1>12 DEF ResetSyncCheckpoint, WriteSyncCheckpoint, Done
<1>13. CASE ResetFails
  BY <1>13 DEF ResetFails, Done
<1>14. CASE HandlerFails
  BY <1>14 DEF HandlerFails, Done
<1>15. CASE Switching
  BY <1>15 DEF Switching
<1>16. CASE NodeCrash
  BY <1>16 DEF NodeCrash, Done
<1>17. CASE StartUp
  BY <1>17 DEF StartUp, ClearPending
<1>18. CASE UNCHANGED allVars
  BY <1>18 DEF allVars
<1> QED BY <1>4, <1>5, <1>6, <1>7, <1>8, <1>9, <1>10, <1>11, <1>12, <1>13, <1>14, <1>15,
           <1>16, <1>17, <1>18 DEF CheckpointNext, Handling

\* Every variable has its type: no null or unknown checkpoint is ever recorded,
\* in force or looked up.
THEOREM CheckpointTypeCorrect == CheckpointSpec => []CheckpointTypeOK
<1>1. CheckpointInit => CheckpointTypeOK
  <2>1. Genesis \in Blocks
    BY TreeAssumption DEF TreeAssumption
  <2> QED BY <2>1, InitIInv DEF CheckpointInit, CheckpointTypeOK, IInv, Callers
<1>2. IInv /\ CheckpointInv /\ CheckpointTypeOK /\ [CheckpointNext]_allVars => CheckpointTypeOK'
  BY NextCheckpointType
<1> QED BY <1>1, <1>2, CheckpointIInvHolds, CheckpointInvHolds, PTL DEF CheckpointSpec

-----------------------------------------------------------------------------

\* While no block was published without being connected and start-up moved
\* nothing back, no transaction starts from the wrong block.
SettledInv ==
    ~unsettled =>
        /\ ~diverged
        /\ pc \in {"idle", "SetBestChain", "Extend", "Reorganize"} =>
              pindexBest = db.hashBestChain

\* The recorded checkpoint is a known block, and lies on every chain that the
\* switch under way stands at or leads to, its intermediate commits included.
RecordInv ==
    /\ syncRecord \in db.blockindex
    /\ caller \in {"ResetSyncCheckpoint", "ResetToHardened"} => resetDue
    /\ ~unsettled /\ ~resetDue =>
          /\ syncRecord \in Chain[db.hashBestChain]
          /\ pc # "down" => syncRecord \in Chain[pindexBest]
          /\ pc \in Calling => syncRecord \in Chain[pindexNew]
          /\ pc \in Working \cup {"Further"} => syncRecord \in Chain[goal]

\* What the steps of SetBestChain that neither publish nor commit do.
LEMMA FailedSwitch ==
    ASSUME IInv,
           BlockRefused \/ ReorganizeReadFails \/ PostponedReadFails \/ CommitFails
    PROVE  /\ db'.hashBestChain = db.hashBestChain /\ db'.blockindex = db.blockindex
           /\ UNCHANGED <<pindexBest, diverged>>
           /\ \/ pc' = "idle" /\ pc \in {"Extend", "Reorganize"}
              \/ pc' = "Publish" /\ pindexNew' = pindexNew
           /\ pc \in Working \cup {"Further"}
<1>1. /\ pc \in Working \cup {"Further"}
      /\ UNCHANGED <<pindexBest, diverged>>
      /\ \/ pc' = "idle" /\ pc \in {"Extend", "Reorganize"}
         \/ pc' = "Publish" /\ pindexNew' = pindexNew
  BY DEF BlockRefused, ReorganizeReadFails, PostponedReadFails, CommitFails, FailFirst,
         FailPostponed, Return, Goto, memory, Working
<1>2. pindexNew \in Blocks /\ goal \in Blocks /\ TypeOK
  BY <1>1, CallBlocks DEF Calling, IInv
<1>3. UNCHANGED db \/ InvalidChainFound(pindexNew) \/ InvalidChainFound(goal)
  BY DEF BlockRefused, ReorganizeReadFails, PostponedReadFails, CommitFails, FailFirst,
         FailPostponed
<1>4. db'.hashBestChain = db.hashBestChain /\ db'.blockindex = db.blockindex
  BY <1>2, <1>3, InvalidChainFoundWrites
<1> QED BY <1>1, <1>4

\* What a commit does to the database.
LEMMA CommitWrites ==
    ASSUME IInv, TxnCommit
    PROVE  db'.hashBestChain = goal /\ db'.blockindex = db.blockindex
<1>1. /\ IsDatabase(batch) /\ batch.blockindex = db.blockindex /\ goal \in Blocks
      /\ db' = [batch EXCEPT !.hashBestChain = goal]
  BY CallBlocks DEF IInv, BatchInv, TxnCommit
<1> QED BY <1>1, WriteHashBestChain

LEMMA NextSettledInv ==
    ASSUME IInv, SettledInv, [CheckpointNext]_allVars
    PROVE  SettledInv'
<1> SUFFICES ASSUME ~unsettled'
             PROVE  SettledInv'
  BY DEF SettledInv
<1> USE DEF SettledInv
<1>1. CASE \E b \in Blocks : ReceiveBlock(b)
  <2>1. PICK b \in Blocks : ReceiveBlock(b)
    BY <1>1
  <2>2. IsDatabase(db) /\ db' = [db EXCEPT !.blockindex = @ \cup {b}, !.hashNext[b] = Null]
    BY <2>1 DEF ReceiveBlock, AcceptBlock, IInv, TypeOK
  <2>3. db'.hashBestChain = db.hashBestChain
    BY <2>2, WriteBlockIndex
  <2> QED BY <2>1, <2>3 DEF ReceiveBlock, AcceptBlock, Goto, call
<1>2. CASE UNCHANGED <<chainVars, unsettled>>
  BY <1>2 DEF chainVars, vars, memory, call
<1>3. CASE SwitchToPending \/ SwitchToHardened \/ \E h \in SignedCheckpoints : SwitchToCheckpoint(h)
  BY <1>3 DEF SwitchToPending, SwitchToHardened, SwitchToCheckpoint, CallSetBestChain, Returned,
              Goto, memory
<1>4. CASE ResetFails \/ NodeCrash
  BY <1>4 DEF ResetFails, NodeCrash, Crash, Goto, memory
<1>5. CASE HandlerFails
  BY <1>5 DEF HandlerFails, Fault, memory, call
<1>6. CASE Switching
  <2>1. ~unsettled /\ (pc = "Publish" => pindexNew = db.hashBestChain)
    BY <1>6 DEF Switching
  <2>2. CASE SetBestChain
    BY <2>1, <2>2 DEF SetBestChain, TxnBegin, memory
  <2>3. CASE DisconnectBlock \/ ConnectBlock \/ ConnectFurther
    BY <2>1, <2>3 DEF DisconnectBlock, ConnectBlock, ConnectFurther, TxnBegin, memory, Working
  <2>4. CASE TxnCommit
    BY <2>1, <2>4 DEF TxnCommit
  <2>5. CASE Publish
    BY <2>1, <2>5 DEF Publish, Return, Goto
  <2>6. CASE BlockRefused \/ ReorganizeReadFails \/ PostponedReadFails \/ CommitFails
    BY <2>1, <2>6, FailedSwitch
  <2> QED BY <1>6, <2>2, <2>3, <2>4, <2>5, <2>6 DEF Switching, Step
<1>7. CASE StartUp
  BY <1>7 DEF StartUp, LoadBlockIndex, Return, Goto
<1>8. CASE UNCHANGED allVars
  BY <1>2, <1>8 DEF allVars
<1> QED BY <1>1, <1>2, <1>3, <1>4, <1>5, <1>6, <1>7, <1>8
        DEF CheckpointNext, Message, Handling, PostponeCheckpoint, RejectCheckpoint,
            RecordCheckpoint, AcceptBlockReturns, RecordPending, CheckpointFails, CheckMasterKey,
            ResetSyncCheckpoint

\* Of two blocks of a chain the heavier one is above the other.
LEMMA HeavierIsAbove ==
    ASSUME NEW b \in Blocks, NEW x \in Chain[b], NEW g \in Chain[b],
           ChainTrust[g] >= ChainTrust[x]
    PROVE  x \in Chain[g]
<1>1. x \in Blocks /\ g \in Blocks /\ x \in Chain[x]
  BY ChainClosed
<1>2. ChainTrust[g] \in Nat /\ ChainTrust[x] \in Nat
  BY <1>1, TrustAssumption DEF TrustAssumption
<1>3. x \in Chain[g] \/ g \in Chain[x]
  BY ChainIsLinear
<1>4. g \in Chain[x] /\ g # x => ChainTrust[g] < ChainTrust[x]
  BY <1>1, AncestorsAreLower
<1> QED BY <1>1, <1>2, <1>3, <1>4

\* A new block that passes CheckSync descends from the checkpoint in force.
LEMMA CheckSyncDescends ==
    ASSUME IInv, CheckpointTypeOK, hashSyncCheckpoint \in mapBlockIndex,
           NEW b \in Blocks, b \notin mapBlockIndex, b # Genesis, CheckSync(b)
    PROVE  hashSyncCheckpoint \in Chain[b] \ {b}
<1>1. Height[b] \in Nat /\ Height[hashSyncCheckpoint] \in Nat
  BY TreeAssumption DEF TreeAssumption, CheckpointTypeOK
<1>2. hashSyncCheckpoint \in Chain[Parent[b]]
  BY <1>1 DEF CheckSync
<1> QED BY <1>2, ChainStep, NotOnParentChain

\* IsInMainChain says what it should as long as memory and disk agree.
LEMMA InMainChain ==
    ASSUME IInv, SettledInv, ~unsettled, pc = "idle", NEW b \in Blocks, IsInMainChain(b)
    PROVE  b \in Chain[pindexBest] /\ pindexBest = db.hashBestChain
<1>1. /\ pindexBest = db.hashBestChain /\ pindexBest \in Blocks
      /\ pnext = LinksOf(db.hashBestChain)
  BY DEF SettledInv, IInv, TypeOK, LinksInv
<1>2. pnext[b] # Null => b \in Chain[pindexBest]
  BY <1>1 DEF LinksOf
<1> QED BY <1>1, <1>2, ChainClosed DEF IsInMainChain

\* A record written between two calls of SetBestChain.
LEMMA WrittenRecordInv ==
    ASSUME IInv, SettledInv, RecordInv, pc = "idle",
           UNCHANGED <<chainVars, unsettled>>,
           NEW h \in mapBlockIndex, WriteSyncCheckpoint(h),
           IsInMainChain(h),
           caller' = "none"
    PROVE  RecordInv'
<1>1. h \in Blocks /\ h \in db.blockindex
  BY DEF IInv, TypeOK, IndexInv
<1>2. UNCHANGED <<db, pindexBest, pc>> /\ syncRecord' = h
  BY DEF chainVars, vars, memory, call, WriteSyncCheckpoint
<1>3. ~unsettled => h \in Chain[pindexBest] /\ pindexBest = db.hashBestChain
  BY <1>1, InMainChain
<1> QED BY <1>1, <1>2, <1>3 DEF RecordInv, Calling, Working

LEMMA SwitchingRecordInv ==
    ASSUME IInv, RecordInv, Switching
    PROVE  RecordInv'
<1>1. /\ UNCHANGED <<syncRecord, caller, resetDue>>
      /\ ~unsettled' => ~unsettled
  BY DEF Switching, records, calling
<1>2. ASSUME db'.blockindex = db.blockindex,
             ~unsettled /\ ~resetDue =>
                /\ syncRecord \in Chain[db'.hashBestChain]
                /\ pc' # "down" => syncRecord \in Chain[pindexBest']
                /\ pc' \in Calling => syncRecord \in Chain[pindexNew']
                /\ pc' \in Working \cup {"Further"} => syncRecord \in Chain[goal']
      PROVE  RecordInv'
  BY <1>1, <1>2 DEF RecordInv
<1> DEFINE R == ~unsettled /\ ~resetDue
<1> USE DEF Calling, Working
<1>3. CASE SetBestChain
  <2>1. pindexNew \in Blocks /\ pindexBest \in Blocks
    BY <1>3, CallBlocks DEF SetBestChain
  <2>2. /\ goal' \in Chain[pindexNew]
        /\ goal' = pindexNew \/ ChainTrust[goal'] > ChainTrust[pindexBest]
    BY <1>3, <2>1, SetBestChainGoal
  <2>3. UNCHANGED <<db, pindexBest, pindexNew>>
    BY <1>3 DEF SetBestChain, memory
  <2>4. R => /\ syncRecord \in Chain[pindexBest] /\ syncRecord \in Chain[pindexNew]
             /\ syncRecord \in Chain[db.hashBestChain]
    BY <1>3 DEF RecordInv, SetBestChain
  <2>5. ASSUME R PROVE syncRecord \in Chain[goal']
    <3>1. CASE goal' = pindexNew
      BY <2>4, <2>5, <3>1
    <3>2. CASE ChainTrust[goal'] > ChainTrust[pindexBest]
      <4>1. syncRecord \in Blocks /\ goal' \in Blocks
        BY <2>1, <2>2, <2>4, <2>5, ChainClosed
      <4>2. {ChainTrust[goal'], ChainTrust[pindexBest], ChainTrust[syncRecord]} \subseteq Nat
        BY <2>1, <4>1, TrustAssumption DEF TrustAssumption
      <4>3. ChainTrust[syncRecord] <= ChainTrust[pindexBest]
        BY <2>1, <2>4, <2>5, <4>2, AncestorsAreLower
      <4>4. ChainTrust[goal'] >= ChainTrust[syncRecord]
        BY <3>2, <4>2, <4>3
      <4> QED BY <2>1, <2>2, <2>4, <2>5, <4>4, HeavierIsAbove
    <3> QED BY <2>2, <3>1, <3>2
  <2> QED BY <1>2, <2>3, <2>4, <2>5
<1>4. CASE DisconnectBlock \/ ConnectBlock
  BY <1>2, <1>4 DEF RecordInv, DisconnectBlock, ConnectBlock, memory
<1>5. CASE TxnCommit
  <2>1. db'.hashBestChain = goal /\ db'.blockindex = db.blockindex
    BY <1>5, CommitWrites
  <2> QED BY <1>2, <1>5, <2>1 DEF RecordInv, TxnCommit
<1>6. CASE ConnectFurther
  <2>1. pindexNew \in Blocks /\ goal \in Chain[pindexNew] /\ goal # pindexNew
    BY <1>6, CallBlocks DEF IInv, CallInv, ConnectFurther
  <2>2. /\ pc' = "Postponed" /\ goal' = NextOnChain(goal, pindexNew)
        /\ UNCHANGED <<db, pindexBest, pindexNew>>
    BY <1>6 DEF ConnectFurther, TxnBegin, memory
  <2>3. goal' \in Blocks \ {Genesis} /\ Parent[goal'] = goal
    BY <2>1, <2>2, NextOnChainIsNext
  <2>4. Chain[goal] \subseteq Chain[goal']
    BY <2>3, ChainStep
  <2> QED BY <1>2, <1>6, <2>2, <2>4 DEF RecordInv, ConnectFurther
<1>7. CASE Publish
  BY <1>2, <1>7 DEF RecordInv, Publish, Return, Goto
<1>8. CASE BlockRefused \/ ReorganizeReadFails \/ PostponedReadFails \/ CommitFails
  <2>1. /\ db'.hashBestChain = db.hashBestChain /\ db'.blockindex = db.blockindex
        /\ pindexBest' = pindexBest
        /\ pc' = "idle" \/ (pc' = "Publish" /\ pindexNew' = pindexNew)
        /\ pc \in Working \cup {"Further"}
    <3> HIDE DEF Working
    <3> QED BY <1>8, FailedSwitch
  <2> QED BY <1>2, <2>1 DEF RecordInv
<1> QED BY <1>3, <1>4, <1>5, <1>6, <1>7, <1>8 DEF Switching, Step

LEMMA NextRecordInv ==
    ASSUME IInv, CheckpointInv, CheckpointTypeOK, SettledInv, RecordInv,
           [CheckpointNext]_allVars
    PROVE  RecordInv'
<1>1. /\ mapBlockIndex = db.blockindex /\ mapBlockIndex \subseteq Blocks
      /\ pindexBest \in mapBlockIndex
      /\ pc # "down" => hashSyncCheckpoint = syncRecord
  BY DEF IInv, TypeOK, IndexInv, CheckpointInv
<1> USE DEF Calling, Working
\* Steps that leave the chain and the record alone.
<1>2. ASSUME UNCHANGED <<chainVars, syncRecord, unsettled>>,
             caller' \in {"none", caller}, resetDue' = resetDue
      PROVE  RecordInv'
  BY <1>2 DEF RecordInv, chainVars, vars, memory, call
\* A handler calls SetBestChain for a block b.
<1>3. ASSUME NEW b \in mapBlockIndex, NEW c, CallSetBestChain(c, b), pc = "idle",
             UNCHANGED <<syncRecord, unsettled, resetDue>>,
             hashSyncCheckpoint \in Chain[b],
             c \notin {"ResetSyncCheckpoint", "ResetToHardened"}
      PROVE  RecordInv'
  BY <1>1, <1>3 DEF RecordInv, CallSetBestChain, Goto, memory
\* The block SetBestChain was called for is recorded after it.
<1>4. SetBestChainSucceeded => asked \in mapBlockIndex /\ IsInMainChain(asked)
  BY <1>1 DEF SetBestChainSucceeded, IsInMainChain
<1>5. CASE \E b \in Blocks : ReceiveBlock(b)
  <2>1. PICK b \in Blocks : ReceiveBlock(b)
    BY <1>5
  <2>2. /\ pc = "idle" /\ b \notin mapBlockIndex /\ b # Genesis /\ CheckSync(b)
        /\ (pc' = "SetBestChain" /\ pindexNew' = b) \/ pc' = "idle"
        /\ UNCHANGED <<pindexBest, syncRecord, unsettled, resetDue>>
        /\ caller' = "AcceptBlock"
        /\ IsDatabase(db)
        /\ db' = [db EXCEPT !.blockindex = @ \cup {b}, !.hashNext[b] = Null]
    BY <2>1 DEF ReceiveBlock, AcceptBlock, Goto, call, records, IInv, TypeOK
  <2>3. db'.hashBestChain = db.hashBestChain /\ db'.blockindex = db.blockindex \cup {b}
    BY <2>2, WriteBlockIndex
  <2>4. syncRecord \in Chain[b]
    BY <1>1, <2>2, CheckSyncDescends DEF RecordInv
  <2> QED BY <2>2, <2>3, <2>4 DEF RecordInv
<1>6. CASE \E h \in SignedCheckpoints : Message(h)
  <2>1. PICK h \in SignedCheckpoints : Message(h)
    BY <1>6
  <2>2. CASE PostponeCheckpoint(h) \/ RejectCheckpoint(h)
    BY <1>2, <2>2 DEF PostponeCheckpoint, RejectCheckpoint, records, calling
  <2>3. CASE SwitchToCheckpoint(h)
    BY <1>3, <2>3 DEF SwitchToCheckpoint, Returned, Valid, records
  <2>4. CASE RecordCheckpoint(h)
    <3>1. pc = "idle" /\ h \in mapBlockIndex /\ IsInMainChain(h)
      BY <1>4, <2>4 DEF RecordCheckpoint, ReadyToRecord, Returned
    <3> QED BY <2>4, <3>1, WrittenRecordInv DEF RecordCheckpoint, Done
  <2> QED BY <2>1, <2>2, <2>3, <2>4 DEF Message
<1>7. CASE AcceptBlockReturns \/ CheckpointFails
  BY <1>2, <1>7 DEF AcceptBlockReturns, CheckpointFails, Done, records
<1>8. CASE SwitchToPending
  BY <1>3, <1>8 DEF SwitchToPending, PendingArrived, Returned, Valid, records
<1>9. CASE RecordPending
  <2>1. pc = "idle" /\ hashPendingCheckpoint \in mapBlockIndex
        /\ IsInMainChain(hashPendingCheckpoint)
    BY <1>4, <1>9 DEF RecordPending, ReadyToRecordPending, Returned, PendingArrived,
                      CheckpointInv
  <2> QED BY <1>9, <2>1, WrittenRecordInv DEF RecordPending, Done
<1>10. CASE CheckMasterKey
  <2>1. /\ UNCHANGED <<chainVars, syncRecord, unsettled>> /\ caller = "LoadBlockIndex"
        /\ \/ caller' = "none" /\ resetDue' = resetDue
           \/ resetDue'
    BY <1>10 DEF CheckMasterKey, Returned, CheckpointTypeOK
  <2> QED BY <1>2, <2>1 DEF RecordInv, chainVars, vars
<1>11. CASE SwitchToHardened
  <2>1. resetDue
    BY <1>11 DEF SwitchToHardened, Returned, RecordInv
  <2>2. /\ UNCHANGED <<db, pindexBest, syncRecord, unsettled, resetDue>>
        /\ pc' = "SetBestChain"
    BY <1>11 DEF SwitchToHardened, CallSetBestChain, Goto, records, memory
  <2> QED BY <2>1, <2>2 DEF RecordInv
<1>12. CASE ResetSyncCheckpoint
  <2>1. PICK h \in Hardened \cap mapBlockIndex : IsInMainChain(h) /\ WriteSyncCheckpoint(h)
    BY <1>12 DEF ResetSyncCheckpoint
  <2>2. pc = "idle"
    BY <1>12 DEF ResetSyncCheckpoint, ReadyToReset, Returned
  <2> QED BY <1>12, <2>1, <2>2, WrittenRecordInv DEF ResetSyncCheckpoint, Done
<1>13. CASE ResetFails
  BY <1>13 DEF ResetFails, Goto, Done, RecordInv, records
<1>14. CASE HandlerFails
  BY <1>14 DEF HandlerFails, Fault, Done, RecordInv, records, memory, call
<1>15. CASE Switching
  BY <1>15, SwitchingRecordInv
<1>16. CASE NodeCrash
  BY <1>16 DEF NodeCrash, Crash, Goto, Done, RecordInv, records
<1>17. CASE StartUp
  BY <1>17 DEF StartUp, LoadBlockIndex, Return, Goto, RecordInv
<1>18. CASE UNCHANGED allVars
  BY <1>2, <1>18 DEF allVars, records, calling
<1> QED BY <1>5, <1>6, <1>7, <1>8, <1>9, <1>10, <1>11, <1>12, <1>13, <1>14, <1>15,
           <1>16, <1>17, <1>18 DEF CheckpointNext, Handling

\* A switch never stands at, nor leads to, a chain without the checkpoint, as
\* long as memory and disk agree.
THEOREM RecordInvHolds == CheckpointSpec => [](SettledInv /\ RecordInv)
<1>1. CheckpointInit => SettledInv /\ RecordInv
  <2> SUFFICES ASSUME CheckpointInit PROVE SettledInv /\ RecordInv
    OBVIOUS
  <2>1. /\ db.blockindex = {Genesis} /\ db.hashBestChain = Genesis /\ pindexBest = Genesis
        /\ pc = "idle" /\ ~diverged /\ syncRecord = Genesis /\ caller = "none"
    BY DEF CheckpointInit, Init
  <2> QED BY <2>1, ChainGenesis DEF SettledInv, RecordInv, Calling, Working
<1>2. IInv /\ CheckpointInv /\ CheckpointTypeOK /\ SettledInv /\ RecordInv
      /\ [CheckpointNext]_allVars => SettledInv' /\ RecordInv'
  BY NextSettledInv, NextRecordInv
<1> QED BY <1>1, <1>2, CheckpointIInvHolds, CheckpointInvHolds, CheckpointTypeCorrect, PTL
        DEF CheckpointSpec

\* The checkpoint lies on the best chain, on disk after every commit of every
\* switch and in memory: the node never refuses its own best chain.
THEOREM CheckpointAlwaysOnBestChain == CheckpointSpec => []CheckpointOnBestChain
<1>1. CheckpointInv /\ RecordInv => CheckpointOnBestChain
  BY DEF CheckpointInv, RecordInv, CheckpointOnBestChain
<1> QED BY <1>1, RecordInvHolds, CheckpointInvHolds, PTL

-----------------------------------------------------------------------------

\* A start of the node knows of no pending checkpoint, and one whose block has
\* arrived descends from the checkpoint in force.
PendingInv ==
    /\ caller \in Starting => hashPendingCheckpoint = Null
    /\ PendingDescends

\* The index of blocks changes when a block arrives and when the node starts.
LEMMA SwitchingKeepsIndex ==
    ASSUME Switching
    PROVE  UNCHANGED mapBlockIndex
BY DEF Switching, Step, SetBestChain, DisconnectBlock, ConnectBlock, TxnCommit, ConnectFurther,
       Publish, BlockRefused, ReorganizeReadFails, PostponedReadFails, CommitFails, memory

LEMMA NextPendingInv ==
    ASSUME IInv, CheckpointInv, CheckpointTypeOK, RecordInv, PendingInv,
           [CheckpointNext]_allVars
    PROVE  PendingInv'
<1>1. /\ mapBlockIndex = db.blockindex /\ mapBlockIndex \subseteq Blocks
      /\ Null \notin mapBlockIndex
      /\ pc # "down" => hashSyncCheckpoint = syncRecord
  BY TreeAssumption DEF IInv, TypeOK, IndexInv, CheckpointInv, TreeAssumption
<1> USE DEF Starting
\* Steps that leave the checkpoints alone, but for the call under way.
<1>2. ASSUME UNCHANGED <<mapBlockIndex, hashPendingCheckpoint, hashSyncCheckpoint>>,
             pc # "down" \/ pc' = "down",
             caller' \in Starting => caller \in Starting
      PROVE  PendingInv'
  BY <1>2 DEF PendingInv, PendingDescends
\* Steps after which nothing is pending.
<1>3. ASSUME UNCHANGED mapBlockIndex, hashPendingCheckpoint' = Null
      PROVE  PendingInv'
  BY <1>1, <1>3 DEF PendingInv, PendingDescends
<1>4. CASE \E b \in Blocks : ReceiveBlock(b)
  <2>1. PICK b \in Blocks : ReceiveBlock(b)
    BY <1>4
  <2>2. /\ pc = "idle" /\ b \notin mapBlockIndex /\ b # Genesis /\ CheckSync(b)
        /\ mapBlockIndex' = mapBlockIndex \cup {b}
        /\ UNCHANGED <<hashPendingCheckpoint, hashSyncCheckpoint>>
        /\ caller' = "AcceptBlock"
    BY <2>1 DEF ReceiveBlock, AcceptBlock, pending, checkpoint
  <2>3. hashSyncCheckpoint \in Chain[b] \ {b}
    BY <1>1, <2>2, CheckSyncDescends DEF RecordInv
  <2> QED BY <2>2, <2>3 DEF PendingInv, PendingDescends
<1>5. CASE \E h \in SignedCheckpoints : Message(h)
  <2>1. PICK h \in SignedCheckpoints : Message(h)
    BY <1>5
  <2>2. CASE PostponeCheckpoint(h)
    BY <2>2 DEF PostponeCheckpoint, Returned, PendingInv, PendingDescends, chainVars, vars,
                memory, calling
  <2>3. CASE RejectCheckpoint(h)
    BY <1>2, <2>3 DEF RejectCheckpoint, Returned, chainVars, vars, memory, calling, pending
  <2>4. CASE SwitchToCheckpoint(h)
    BY <1>2, <2>4 DEF SwitchToCheckpoint, CallSetBestChain, Returned, memory, pending, checkpoint
  <2>5. CASE RecordCheckpoint(h)
    BY <1>3, <2>5 DEF RecordCheckpoint, ClearPending, chainVars, vars, memory
  <2> QED BY <2>1, <2>2, <2>3, <2>4, <2>5 DEF Message
<1>6. CASE AcceptBlockReturns
  <2>1. pc = "idle" /\ caller' = "none" /\ UNCHANGED <<mapBlockIndex, hashSyncCheckpoint>>
        /\ (hashPendingCheckpoint' = Null \/ UNCHANGED hashPendingCheckpoint)
    BY <1>6 DEF AcceptBlockReturns, Returned, ClearPending, Done, chainVars, vars, memory, pending
  <2> QED BY <1>2, <1>3, <2>1
<1>7. CASE SwitchToPending \/ CheckpointFails \/ HandlerFails
  BY <1>2, <1>7 DEF SwitchToPending, CheckpointFails, HandlerFails, Fault, CallSetBestChain,
                    Returned, Done, chainVars, vars, memory, pending, checkpoint
<1>8. CASE RecordPending
  BY <1>3, <1>8 DEF RecordPending, ClearPending, chainVars, vars, memory
<1>9. CASE CheckMasterKey
  BY <1>2, <1>9 DEF CheckMasterKey, Returned, chainVars, vars, memory, pending, checkpoint
<1>10. CASE SwitchToHardened
  BY <1>2, <1>10 DEF SwitchToHardened, CallSetBestChain, Returned, memory, pending, checkpoint
<1>11. CASE ResetSyncCheckpoint
  <2>1. caller \in Starting /\ caller' = "none" /\ UNCHANGED mapBlockIndex
        /\ \/ UNCHANGED hashPendingCheckpoint
           \/ hashPendingCheckpoint' = LastHardened /\ LastHardened \notin mapBlockIndex
    BY <1>11 DEF ResetSyncCheckpoint, ReadyToReset, Returned, Done, chainVars, vars, memory,
                 pending
  <2>2. hashPendingCheckpoint = Null
    BY <2>1 DEF PendingInv
  <2> QED BY <1>3, <2>1, <2>2 DEF PendingInv, PendingDescends
<1>12. CASE ResetFails \/ NodeCrash
  BY <1>2, <1>12 DEF ResetFails, NodeCrash, Crash, Goto, Done, memory, pending, checkpoint
<1>13. CASE Switching
  <2>1. pc # "down" /\ UNCHANGED mapBlockIndex
    BY <1>13, SwitchingIsUp, SwitchingKeepsIndex
  <2> QED BY <1>2, <1>13, <2>1 DEF Switching, pending, checkpoint, calling
<1>14. CASE StartUp
  BY <1>1, <1>14 DEF StartUp, LoadBlockIndex, ClearPending, PendingInv, PendingDescends
<1>15. CASE UNCHANGED allVars
  BY <1>15 DEF allVars, chainVars, vars, memory, call, pending, checkpoint, calling, PendingInv,
               PendingDescends
<1> QED BY <1>4, <1>5, <1>6, <1>7, <1>8, <1>9, <1>10, <1>11, <1>12, <1>13, <1>14, <1>15
        DEF CheckpointNext, Handling

\* What is pending is known to be fit for AcceptPendingSyncCheckpoint.
THEOREM PendingInvHolds == CheckpointSpec => []PendingInv
<1>1. CheckpointInit => PendingInv
  <2>1. Null \notin Blocks /\ Genesis \in Blocks
    BY TreeAssumption DEF TreeAssumption
  <2> QED BY <2>1 DEF CheckpointInit, Init, PendingInv, PendingDescends, Starting
<1>2. IInv /\ CheckpointInv /\ CheckpointTypeOK /\ RecordInv /\ PendingInv
      /\ [CheckpointNext]_allVars => PendingInv'
  BY NextPendingInv
<1> QED BY <1>1, <1>2, CheckpointIInvHolds, CheckpointInvHolds, CheckpointTypeCorrect,
           RecordInvHolds, PTL DEF CheckpointSpec

\* AcceptPendingSyncCheckpoint never meets a checkpoint that
\* ValidateSyncCheckpoint refuses: CheckSync let its block in.
THEOREM PendingAlwaysDescends == CheckpointSpec => []PendingDescends
<1>1. PendingInv => PendingDescends
  BY DEF PendingInv
<1> QED BY <1>1, PendingInvHolds, PTL

-----------------------------------------------------------------------------

\* Without a fault the node never went down, and what AcceptBlock and
\* AcceptPendingSyncCheckpoint asked for is what SetBestChain works on.
CallerInv ==
    /\ nFaults = 0 => pc # "down" /\ caller \notin Starting
    /\ caller \in {"AcceptBlock", "AcceptPendingSyncCheckpoint"} /\ pc \in Calling =>
          pindexNew = asked

\* A pending checkpoint whose block has arrived and can be connected is being
\* taken up, and SetBestChain has not failed on the way.
TakenUpInv ==
    nFaults = 0 /\ ~unsettled
    /\ hashPendingCheckpoint \in mapBlockIndex /\ AlwaysConnects(hashPendingCheckpoint) =>
        /\ asked = hashPendingCheckpoint
        /\ \/ caller = "AcceptBlock" /\ (pc = "idle" => ~MakesBest(asked))
           \/ caller = "AcceptPendingSyncCheckpoint" /\ (pc = "idle" => pindexBest = asked)

\* A step of SetBestChain keeps the block it was called for, or ends the call.
LEMMA SwitchingKeepsPindexNew ==
    ASSUME Switching
    PROVE  pc \in Calling /\ (pc' # "idle" => pc' \in Calling /\ UNCHANGED pindexNew)
<1> USE DEF Calling, Working
<1>1. CASE SetBestChain \/ ConnectFurther
  BY <1>1 DEF SetBestChain, ConnectFurther, TxnBegin
<1>2. CASE DisconnectBlock \/ ConnectBlock \/ TxnCommit
  BY <1>2 DEF DisconnectBlock, ConnectBlock, TxnCommit
<1>3. CASE Publish
  BY <1>3 DEF Publish, Return, Goto
<1>4. CASE BlockRefused \/ ReorganizeReadFails \/ PostponedReadFails \/ CommitFails
  BY <1>4 DEF BlockRefused, ReorganizeReadFails, PostponedReadFails, CommitFails, FailFirst,
              FailPostponed, Return, Goto
<1> QED BY <1>1, <1>2, <1>3, <1>4 DEF Switching, Step

LEMMA NextCallerInv ==
    ASSUME IInv, CallerInv, [CheckpointNext]_allVars
    PROVE  CallerInv' /\ (nFaults' = 0 => nFaults = 0)
<1>1. nFaults \in Nat
  BY BoundsAssumption DEF IInv, TypeOK, BoundsAssumption
<1> USE DEF CallerInv, Starting
<1>2. CASE \E b \in Blocks : ReceiveBlock(b)
  BY <1>2 DEF ReceiveBlock, AcceptBlock, Goto, call, Calling, Working
<1>3. CASE \E h \in SignedCheckpoints : Message(h)
  BY <1>3 DEF Message, PostponeCheckpoint, RejectCheckpoint, SwitchToCheckpoint, RecordCheckpoint,
              CallSetBestChain, Goto, Returned, Done, chainVars, vars, call, calling
<1>4. CASE AcceptBlockReturns \/ RecordPending \/ CheckpointFails \/ CheckMasterKey
           \/ ResetSyncCheckpoint
  BY <1>4 DEF AcceptBlockReturns, RecordPending, CheckpointFails, CheckMasterKey,
              ResetSyncCheckpoint, Returned, Done, chainVars, vars, call
<1>5. CASE SwitchToPending \/ SwitchToHardened
  BY <1>5 DEF SwitchToPending, SwitchToHardened, CallSetBestChain, Goto, Returned
<1>6. CASE ResetFails
  BY <1>1, <1>6 DEF ResetFails, Returned, Done
<1>7. CASE HandlerFails \/ NodeCrash
  BY <1>1, <1>7 DEF HandlerFails, Fault, NodeCrash, Crash, Done
<1>8. CASE Switching
  <2>1. UNCHANGED calling /\ (nFaults' = nFaults \/ nFaults' = nFaults + 1)
    BY <1>8 DEF Switching, Step, SetBestChain, DisconnectBlock, ConnectBlock, TxnCommit,
                ConnectFurther, Publish, BlockRefused, ReorganizeReadFails, PostponedReadFails,
                CommitFails
  <2> QED BY <1>1, <1>8, <2>1, SwitchingKeepsPindexNew DEF calling, Calling, Working
<1>9. CASE StartUp
  BY <1>9 DEF StartUp, LoadBlockIndex
<1>10. CASE UNCHANGED allVars
  BY <1>10 DEF allVars, chainVars, vars, call, calling
<1> QED BY <1>2, <1>3, <1>4, <1>5, <1>6, <1>7, <1>8, <1>9, <1>10 DEF CheckpointNext, Handling

LEMMA NextTakenUpInv ==
    ASSUME IInv, CheckpointInv, CheckpointTypeOK, SettledInv, PendingInv, CallerInv, TakenUpInv,
           [CheckpointNext]_allVars
    PROVE  TakenUpInv'
<1> SUFFICES ASSUME nFaults' = 0, ~unsettled',
                    hashPendingCheckpoint' \in mapBlockIndex',
                    AlwaysConnects(hashPendingCheckpoint')
             PROVE  TakenUpInv'
  BY DEF TakenUpInv, AlwaysConnects
<1>1. /\ nFaults = 0 /\ nFaults \in Nat /\ caller \notin Starting /\ pc # "down"
      /\ mapBlockIndex \subseteq Blocks /\ pindexBest \in Blocks
      /\ Null \notin mapBlockIndex /\ Null \notin mapBlockIndex'
  BY NextCallerInv, CheckpointNextIInv, TreeAssumption
     DEF CallerInv, IInv, TypeOK, TreeAssumption
<1>2. ChainTrust \in [Blocks -> Nat]
  BY TrustAssumption DEF TrustAssumption
\* Nothing that is pending and known stays so without being taken up.
<1>3. ASSUME UNCHANGED <<hashPendingCheckpoint, mapBlockIndex, unsettled>>
      PROVE  /\ asked = hashPendingCheckpoint
             /\ \/ caller = "AcceptBlock" /\ (pc = "idle" => ~MakesBest(asked))
                \/ /\ caller = "AcceptPendingSyncCheckpoint"
                   /\ pc = "idle" => pindexBest = asked
  BY <1>1, <1>3 DEF TakenUpInv
<1> DEFINE P == hashPendingCheckpoint
<1>4. CASE \E b \in Blocks : ReceiveBlock(b)
  <2>1. PICK b \in Blocks : ReceiveBlock(b)
    BY <1>4
  <2>2. /\ pc = "idle" /\ caller = "none" /\ mapBlockIndex' = mapBlockIndex \cup {b}
        /\ UNCHANGED <<hashPendingCheckpoint, unsettled, pindexBest>>
        /\ caller' = "AcceptBlock" /\ asked' = b
        /\ MakesBest(b) => pc' = "SetBestChain"
    BY <2>1 DEF ReceiveBlock, AcceptBlock, Goto, pending
  <2>3. P \notin mapBlockIndex
    BY <1>1, <2>2 DEF TakenUpInv
  <2>4. P = b
    BY <2>2, <2>3
  <2>5. pc' = "idle" => ~MakesBest(asked)'
    BY <2>2 DEF MakesBest
  <2> QED BY <2>2, <2>4, <2>5 DEF TakenUpInv
<1>5. CASE \E h \in SignedCheckpoints : Message(h)
  <2>1. PICK h \in SignedCheckpoints : Message(h)
    BY <1>5
  <2>2. CASE PostponeCheckpoint(h)
    BY <2>2 DEF PostponeCheckpoint, chainVars, vars, memory
  <2>3. CASE RejectCheckpoint(h) \/ SwitchToCheckpoint(h)
    BY <1>3, <2>3 DEF RejectCheckpoint, SwitchToCheckpoint, CallSetBestChain, Returned, chainVars,
                      vars, memory, pending
  <2>4. CASE RecordCheckpoint(h)
    BY <1>1, <2>4 DEF RecordCheckpoint, ClearPending
  <2> QED BY <2>1, <2>2, <2>3, <2>4 DEF Message
<1>6. CASE AcceptBlockReturns
  <2>1. ~(P \in mapBlockIndex /\ ~MakesBest(asked))
    <3> SUFFICES ASSUME P \in mapBlockIndex, ~MakesBest(asked) PROVE FALSE
      OBVIOUS
    <3>1. hashPendingCheckpoint' = Null
      BY <1>6 DEF AcceptBlockReturns, PendingArrived, ClearPending
    <3> QED BY <1>1, <3>1
  <2>2. UNCHANGED <<hashPendingCheckpoint, mapBlockIndex, unsettled>>
    BY <1>6, <2>1 DEF AcceptBlockReturns, PendingArrived, chainVars, vars, memory, pending
  <2>3. pc = "idle" /\ caller = "AcceptBlock"
    BY <1>6 DEF AcceptBlockReturns, Returned
  <2> QED BY <1>3, <2>1, <2>2, <2>3
<1>7. CASE SwitchToPending
  <2>1. /\ UNCHANGED <<hashPendingCheckpoint, mapBlockIndex, unsettled>>
        /\ caller' = "AcceptPendingSyncCheckpoint" /\ asked' = P /\ pc' = "SetBestChain"
    BY <1>7 DEF SwitchToPending, CallSetBestChain, Goto, memory, pending
  <2> QED BY <2>1 DEF TakenUpInv
<1>8. CASE RecordPending
  BY <1>1, <1>8 DEF RecordPending, ClearPending
<1>9. CASE CheckpointFails
  <2>1. /\ UNCHANGED <<hashPendingCheckpoint, mapBlockIndex, unsettled>>
        /\ caller \in {"AcceptPendingSyncCheckpoint", "ProcessSyncCheckpoint"}
        /\ pc = "idle" /\ pindexBest # asked
    BY <1>9 DEF CheckpointFails, Returned, SetBestChainSucceeded, chainVars, vars, memory, pending
  <2> QED BY <1>3, <2>1
<1>10. CASE CheckMasterKey \/ SwitchToHardened \/ ResetSyncCheckpoint \/ ResetFails
  <2>1. caller \in Starting
    BY <1>10 DEF CheckMasterKey, SwitchToHardened, ResetSyncCheckpoint, ResetFails, ReadyToReset,
                 Returned, Starting
  <2> QED BY <1>1, <2>1
<1>11. CASE HandlerFails \/ NodeCrash
  BY <1>1, <1>11 DEF HandlerFails, Fault, NodeCrash, Crash
<1>12. CASE Switching
  <2>1. /\ UNCHANGED <<hashPendingCheckpoint, mapBlockIndex, asked, caller>>
        /\ ~unsettled /\ ~diverged
    BY <1>12, SwitchingKeepsIndex DEF Switching, pending, calling, SettledInv
  <2>2. /\ asked = P
        /\ caller \in {"AcceptBlock", "AcceptPendingSyncCheckpoint"}
    BY <1>1, <2>1 DEF TakenUpInv
  <2>3. pc \in Calling /\ (pc' = "idle" \/ pc' \in Calling)
    BY <1>12, SwitchingKeepsPindexNew
  <2>4. pindexNew = asked
    BY <2>2, <2>3 DEF CallerInv
  <2>5. CASE pc' # "idle"
    BY <2>1, <2>2, <2>5 DEF TakenUpInv
  <2>6. CASE pc' = "idle"
    <3>1. ~ReorganizeReadFails /\ ~PostponedReadFails /\ ~CommitFails
      BY <1>1 DEF ReorganizeReadFails, PostponedReadFails, CommitFails
    <3>2. ~BlockRefused
      BY <2>1, <2>2, <2>4, RefusedDoesNotConnect
    <3>3. Publish
      BY <1>12, <2>6, <3>1, <3>2
         DEF Switching, Step, SetBestChain, DisconnectBlock, ConnectBlock, TxnCommit,
             ConnectFurther, TxnBegin, Working
    <3>4. pindexBest' = asked /\ asked \in Blocks
      BY <1>1, <2>1, <2>2, <2>4, <3>3 DEF Publish
    <3>5. ~MakesBest(asked)'
      BY <1>2, <2>1, <3>4 DEF MakesBest
    <3> QED BY <2>1, <2>2, <3>4, <3>5 DEF TakenUpInv
  <2> QED BY <2>5, <2>6
<1>13. CASE StartUp
  BY <1>1, <1>13 DEF StartUp, LoadBlockIndex
<1>14. CASE UNCHANGED allVars
  <2>1. /\ UNCHANGED <<hashPendingCheckpoint, mapBlockIndex, unsettled, asked, caller, pc,
                       pindexBest>>
    BY <1>14 DEF allVars, chainVars, vars, memory, call, pending, calling
  <2> QED BY <1>3, <2>1 DEF TakenUpInv, MakesBest
<1> QED BY <1>4, <1>5, <1>6, <1>7, <1>8, <1>9, <1>10, <1>11, <1>12, <1>13, <1>14
        DEF CheckpointNext, Handling

\* A pending checkpoint that can be taken up is taken up before the handler
\* that brought its block returns.
THEOREM PendingAlwaysTakenUp == CheckpointSpec => []PendingIsTakenUp
<1>1. CheckpointInit => CallerInv /\ TakenUpInv
  <2>1. Null \notin Blocks /\ Genesis \in Blocks
    BY TreeAssumption DEF TreeAssumption
  <2> QED BY <2>1 DEF CheckpointInit, Init, CallerInv, TakenUpInv, Starting
<1>2. IInv /\ CheckpointInv /\ CheckpointTypeOK /\ SettledInv /\ PendingInv
      /\ CallerInv /\ TakenUpInv /\ [CheckpointNext]_allVars => CallerInv' /\ TakenUpInv'
  BY NextCallerInv, NextTakenUpInv
<1>3. TakenUpInv => PendingIsTakenUp
  BY DEF TakenUpInv, PendingIsTakenUp, Returned
<1> QED BY <1>1, <1>2, <1>3, CheckpointIInvHolds, CheckpointInvHolds, CheckpointTypeCorrect,
           RecordInvHolds, PendingInvHolds, PTL DEF CheckpointSpec
=============================================================================
