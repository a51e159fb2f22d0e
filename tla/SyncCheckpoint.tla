--------------------------- MODULE SyncCheckpoint ---------------------------
(***************************************************************************)
(* Synchronized checkpoints (checkpoints.cpp) over the block chain: a      *)
(* signed message names a block, the node moves its best chain there, even *)
(* to a lighter one, records it, and from then on accepts only what        *)
(* descends from it.  A checkpoint whose block is unknown is pending until *)
(* the block arrives.  A program with another master key resets the        *)
(* checkpoint to a hardened one at start-up.                               *)
(*                                                                         *)
(* SetBestChain takes all the steps it has in BlockChain; the handlers     *)
(* here call it and go on when it returns.  Everything runs under cs_main. *)
(* The network is not the test net, and -nosynccheckpoints is not given.   *)
(***************************************************************************)
EXTENDS BlockChain

CONSTANTS
    Hardened,           \* the blocks of mapCheckpoints
    SignedCheckpoints,  \* the blocks that a well signed message names
    MasterPubKeys       \* strMasterPubKey of the programs that are run

ASSUME CheckpointAssumption ==
    /\ Hardened \subseteq Blocks /\ Genesis \in Hardened /\ IsFiniteSet(Hardened)
    /\ \A x, y \in Hardened : x \in Chain[y] \/ y \in Chain[x]
    /\ SignedCheckpoints \subseteq Blocks
    /\ MasterPubKeys # {}

VARIABLES
    \* on disk
    syncRecord,                \* hashSyncCheckpoint
    pubKeyRecord,              \* strCheckpointPubKey
    \* globals of checkpoints.cpp
    strMasterPubKey,
    hashSyncCheckpoint,
    hashPendingCheckpoint,
    hashInvalidCheckpoint,
    checkpointMessage,         \* the block it names, or Null
    checkpointMessagePending,
    \* the handler that called AddToBlockIndex or SetBestChain
    caller,
    asked,                     \* the block it called for
    \* history
    unsettled,                 \* a block was published without being
                               \* connected, or start-up moved the chain back
    resetDue                   \* the key changed, the checkpoint is not reset

records == <<syncRecord, pubKeyRecord, strMasterPubKey>>
pending == <<hashPendingCheckpoint, checkpointMessagePending>>
checkpoint == <<hashSyncCheckpoint, checkpointMessage, hashInvalidCheckpoint>>
calling == <<caller, asked>>
chainVars == vars
allVars == <<chainVars, records, pending, checkpoint, calling, unsettled, resetDue>>

Callers == {"none", "AcceptBlock", "AcceptPendingSyncCheckpoint",
            "ProcessSyncCheckpoint", "LoadBlockIndex", "ResetSyncCheckpoint",
            "ResetToHardened"}

CheckpointTypeOK ==
    /\ TypeOK
    /\ syncRecord \in Blocks
    /\ pubKeyRecord \in MasterPubKeys
    /\ strMasterPubKey \in MasterPubKeys
    /\ hashSyncCheckpoint \in Blocks
    /\ {hashPendingCheckpoint, hashInvalidCheckpoint,
        checkpointMessage, checkpointMessagePending} \subseteq Blocks \cup {Null}
    /\ caller \in Callers
    /\ asked \in Blocks \cup {Null}
    /\ {unsettled, resetDue} \subseteq BOOLEAN

CheckpointInit ==
    /\ Init
    /\ syncRecord = Genesis
    /\ strMasterPubKey \in MasterPubKeys /\ pubKeyRecord = strMasterPubKey
    /\ hashSyncCheckpoint = Genesis
    /\ hashPendingCheckpoint = Null /\ checkpointMessagePending = Null
    /\ hashInvalidCheckpoint = Null /\ checkpointMessage = Null
    /\ caller = "none" /\ asked = Null
    /\ unsettled = FALSE /\ resetDue = FALSE

-----------------------------------------------------------------------------

CheckHardened(b) == \A h \in Hardened : Height[h] = Height[b] => h = b

\* Mutant: a block above the checkpoint's height passes on any branch.
CheckSyncByHeight(b) ==
    LET sync == hashSyncCheckpoint IN
    /\ Height[b] = Height[sync] => b = sync
    /\ Height[b] < Height[sync] => b \in mapBlockIndex

\* What CheckSync asks of a block that arrives.
CheckSync(b) ==
    LET sync == hashSyncCheckpoint IN
    /\ Height[b] > Height[sync] => sync \in Chain[Parent[b]]
    /\ Height[b] = Height[sync] => b = sync
    /\ Height[b] < Height[sync] => b \in mapBlockIndex

\* Mutant: a newer checkpoint is not traced back to the current one.
ValidByHeight(h) == Height[h] > Height[hashSyncCheckpoint]

\* ValidateSyncCheckpoint: only a descendant of the current checkpoint.
Valid(h) ==
    /\ Height[h] > Height[hashSyncCheckpoint]
    /\ hashSyncCheckpoint \in Chain[h]

\* ... and one on another branch, newer or older, is recorded as invalid.
Conflicts(h) == h \notin Chain[hashSyncCheckpoint] /\ hashSyncCheckpoint \notin Chain[h]

NoteInvalid(h) ==
    hashInvalidCheckpoint' = IF Conflicts(h) THEN h ELSE hashInvalidCheckpoint

IsInMainChain(b) == pnext[b] # Null \/ b = pindexBest

WriteSyncCheckpoint(h) == syncRecord' = h /\ hashSyncCheckpoint' = h

\* The handler c calls SetBestChain for block b, and is called back when pc is
\* "idle" again.
CallSetBestChain(c, b) ==
    /\ Goto("SetBestChain", b)
    /\ caller' = c /\ asked' = b
    /\ UNCHANGED <<db, batch, memory, nFaults, diverged>>

Returned(c) == pc = "idle" /\ caller = c

Done == caller' = "none" /\ asked' = Null

\* SetBestChain, called for a block off the best chain, makes it the best
\* block exactly if it returns true.
SetBestChainSucceeded == pindexBest = asked

\* A read or a write of the handler itself fails.
Fault ==
    /\ nFaults < MaxFaults /\ nFaults' = nFaults + 1
    /\ UNCHANGED <<db, batch, memory, call, diverged>>

-----------------------------------------------------------------------------

\* AcceptBlock up to the call of AddToBlockIndex.
ReceiveBlock(b) ==
    /\ caller = "none"
    /\ AcceptBlock(b)
    /\ CheckHardened(b) /\ CheckSync(b)
    /\ caller' = "AcceptBlock" /\ asked' = b
    /\ UNCHANGED <<records, pending, checkpoint, unsettled, resetDue>>

\* Mutant: the pending checkpoint is looked at when its block became the best.
PendingArrivedAsBest ==
    /\ pindexBest = asked
    /\ hashPendingCheckpoint \in mapBlockIndex

\* AddToBlockIndex returned true (the block is not one that should have become
\* the best), and the pending checkpoint's block is there.
PendingArrived ==
    /\ ~MakesBest(asked)
    /\ hashPendingCheckpoint \in mapBlockIndex

ClearPending == hashPendingCheckpoint' = Null /\ checkpointMessagePending' = Null

\* The end of AcceptBlock with no pending checkpoint to accept, or with one
\* that is refused (which PendingDescends says never happens).
AcceptBlockReturns ==
    /\ Returned("AcceptBlock")
    /\ PendingArrived => ~Valid(hashPendingCheckpoint)
    /\ IF PendingArrived
       THEN ClearPending /\ NoteInvalid(hashPendingCheckpoint)
       ELSE UNCHANGED <<pending, hashInvalidCheckpoint>>
    /\ Done
    /\ UNCHANGED <<chainVars, records, hashSyncCheckpoint, checkpointMessage,
                   unsettled, resetDue>>

\* AcceptPendingSyncCheckpoint: the pending checkpoint is on a side branch.
SwitchToPending ==
    /\ Returned("AcceptBlock") /\ PendingArrived
    /\ Valid(hashPendingCheckpoint) /\ ~IsInMainChain(hashPendingCheckpoint)
    /\ CallSetBestChain("AcceptPendingSyncCheckpoint", hashPendingCheckpoint)
    /\ UNCHANGED <<records, pending, checkpoint, unsettled, resetDue>>

ReadyToRecordPending ==
    \/ Returned("AcceptPendingSyncCheckpoint") /\ SetBestChainSucceeded
    \/ /\ Returned("AcceptBlock") /\ PendingArrived
       /\ Valid(hashPendingCheckpoint) /\ IsInMainChain(hashPendingCheckpoint)

\* Mutant: the message to relay stays the one of the checkpoint before.
RecordPendingKeepsMessage ==
    /\ ReadyToRecordPending
    /\ WriteSyncCheckpoint(hashPendingCheckpoint)
    /\ ClearPending
    /\ Done
    /\ UNCHANGED <<chainVars, pubKeyRecord, strMasterPubKey, checkpointMessage,
                   hashInvalidCheckpoint, unsettled, resetDue>>

\* Mutant: the pending checkpoint is cleared before it is written.
RecordPendingCleared ==
    /\ ReadyToRecordPending
    /\ WriteSyncCheckpoint(Null)
    /\ checkpointMessage' = checkpointMessagePending
    /\ ClearPending
    /\ Done
    /\ UNCHANGED <<chainVars, pubKeyRecord, strMasterPubKey,
                   hashInvalidCheckpoint, unsettled, resetDue>>

RecordPending ==
    /\ ReadyToRecordPending
    /\ WriteSyncCheckpoint(hashPendingCheckpoint)
    /\ checkpointMessage' = checkpointMessagePending
    /\ ClearPending
    /\ Done
    /\ UNCHANGED <<chainVars, pubKeyRecord, strMasterPubKey,
                   hashInvalidCheckpoint, unsettled, resetDue>>

-----------------------------------------------------------------------------

\* ProcessSyncCheckpoint of a message that names h: the block is unknown.
PostponeCheckpoint(h) ==
    /\ Returned("none")
    /\ h \notin mapBlockIndex
    /\ hashPendingCheckpoint' = h /\ checkpointMessagePending' = h
    /\ UNCHANGED <<chainVars, records, checkpoint, calling, unsettled, resetDue>>

RejectCheckpoint(h) ==
    /\ Returned("none")
    /\ h \in mapBlockIndex /\ ~Valid(h)
    /\ NoteInvalid(h)
    /\ UNCHANGED <<chainVars, records, pending, hashSyncCheckpoint,
                   checkpointMessage, calling, unsettled, resetDue>>

SwitchToCheckpoint(h) ==
    /\ Returned("none")
    /\ h \in mapBlockIndex /\ Valid(h) /\ ~IsInMainChain(h)
    /\ CallSetBestChain("ProcessSyncCheckpoint", h)
    /\ UNCHANGED <<records, pending, checkpoint, unsettled, resetDue>>

ReadyToRecord(h) ==
    \/ Returned("ProcessSyncCheckpoint") /\ h = asked /\ SetBestChainSucceeded
    \/ Returned("none") /\ h \in mapBlockIndex /\ Valid(h) /\ IsInMainChain(h)

\* Mutant: a checkpoint that was pending stays so.
RecordCheckpointKeepsPending(h) ==
    /\ ReadyToRecord(h)
    /\ WriteSyncCheckpoint(h)
    /\ checkpointMessage' = h
    /\ Done
    /\ UNCHANGED <<chainVars, pubKeyRecord, strMasterPubKey, pending,
                   hashInvalidCheckpoint, unsettled, resetDue>>

RecordCheckpoint(h) ==
    /\ ReadyToRecord(h)
    /\ WriteSyncCheckpoint(h)
    /\ checkpointMessage' = h
    /\ ClearPending
    /\ Done
    /\ UNCHANGED <<chainVars, pubKeyRecord, strMasterPubKey,
                   hashInvalidCheckpoint, unsettled, resetDue>>

\* SetBestChain failed, for a pending checkpoint (which stays pending) or for
\* one just received.
CheckpointFails ==
    /\ \/ Returned("AcceptPendingSyncCheckpoint")
       \/ Returned("ProcessSyncCheckpoint")
    /\ ~SetBestChainSucceeded
    /\ hashInvalidCheckpoint' = asked
    /\ Done
    /\ UNCHANGED <<chainVars, records, pending, hashSyncCheckpoint,
                   checkpointMessage, unsettled, resetDue>>

\* ReadFromDisk of the checkpoint's block, or WriteSyncCheckpoint, fails: the
\* handler returns, with the pending checkpoint as it was.
HandlerFails ==
    /\ \/ Returned("AcceptPendingSyncCheckpoint")
       \/ Returned("ProcessSyncCheckpoint")
       \/ Returned("AcceptBlock") /\ PendingArrived /\ Valid(hashPendingCheckpoint)
    /\ caller # "AcceptBlock" => SetBestChainSucceeded
    /\ Fault
    /\ Done
    /\ UNCHANGED <<records, pending, checkpoint, unsettled, resetDue>>

-----------------------------------------------------------------------------

\* A start of the node, perhaps with a program of another master key:
\* CTxDB::LoadBlockIndex, called by LoadBlockIndex.
StartUp ==
    /\ LoadBlockIndex
    /\ strMasterPubKey' \in MasterPubKeys
    /\ hashSyncCheckpoint' = syncRecord
    /\ ClearPending
    /\ hashInvalidCheckpoint' = Null /\ checkpointMessage' = Null
    /\ caller' = "LoadBlockIndex" /\ asked' = Null
    /\ unsettled' = (unsettled \/ pc' = "SetBestChain")
    /\ UNCHANGED <<syncRecord, pubKeyRecord, resetDue>>

\* LoadBlockIndex, "if checkpoint master key changed": the new key is
\* committed, then ResetSyncCheckpoint called.
CheckMasterKey ==
    /\ Returned("LoadBlockIndex")
    /\ pubKeyRecord' = strMasterPubKey
    /\ caller' = IF pubKeyRecord = strMasterPubKey THEN "none" ELSE "ResetSyncCheckpoint"
    /\ resetDue' = (resetDue \/ pubKeyRecord # strMasterPubKey)
    /\ UNCHANGED <<chainVars, syncRecord, strMasterPubKey, pending, checkpoint,
                   asked, unsettled>>

LastHardened == CHOOSE h \in Hardened : \A x \in Hardened : Height[x] <= Height[h]

\* ResetSyncCheckpoint: the last hardened checkpoint is on a side branch.
SwitchToHardened ==
    /\ Returned("ResetSyncCheckpoint")
    /\ LastHardened \in mapBlockIndex /\ ~IsInMainChain(LastHardened)
    /\ CallSetBestChain("ResetToHardened", LastHardened)
    /\ UNCHANGED <<records, pending, checkpoint, unsettled, resetDue>>

ReadyToReset ==
    \/ Returned("ResetToHardened") /\ SetBestChainSucceeded
    \/ /\ Returned("ResetSyncCheckpoint")
       /\ LastHardened \in mapBlockIndex => IsInMainChain(LastHardened)

\* The checkpoint becomes the highest hardened one of the best chain; the last
\* of all is pending if its block is not there.
ResetSyncCheckpoint ==
    /\ ReadyToReset
    /\ \E h \in Hardened \cap mapBlockIndex :
          /\ IsInMainChain(h)
          /\ \A x \in Hardened \cap mapBlockIndex :
                IsInMainChain(x) => Height[x] <= Height[h]
          /\ WriteSyncCheckpoint(h)
    /\ IF LastHardened \in mapBlockIndex
       THEN UNCHANGED pending
       ELSE hashPendingCheckpoint' = LastHardened /\ checkpointMessagePending' = Null
    /\ resetDue' = FALSE
    /\ Done
    /\ UNCHANGED <<chainVars, pubKeyRecord, strMasterPubKey, checkpointMessage,
                   hashInvalidCheckpoint, unsettled>>

\* SetBestChain to the hardened checkpoint, the read of its block or the write
\* of the record fails, and the node does not start.
ResetFails ==
    /\ \/ /\ Returned("ResetToHardened") /\ ~SetBestChainSucceeded
          /\ UNCHANGED nFaults
       \/ /\ caller \in {"ResetSyncCheckpoint", "ResetToHardened"} /\ pc = "idle"
          /\ nFaults < MaxFaults /\ nFaults' = nFaults + 1
    /\ Goto("down", Null)
    /\ Done
    /\ UNCHANGED <<db, batch, memory, diverged, records, pending, checkpoint,
                   unsettled, resetDue>>

-----------------------------------------------------------------------------

\* A step inside SetBestChain.
Switching ==
    /\ Step \/ ReorganizeReadFails \/ PostponedReadFails \/ CommitFails
    /\ unsettled' = (unsettled \/ (pc = "Publish" /\ pindexNew # db.hashBestChain))
    /\ UNCHANGED <<records, pending, checkpoint, calling, resetDue>>

NodeCrash ==
    /\ Crash
    /\ Done
    /\ UNCHANGED <<records, pending, checkpoint, unsettled, resetDue>>

Handling ==
    \/ AcceptBlockReturns
    \/ SwitchToPending \/ RecordPending
    \/ CheckpointFails
    \/ CheckMasterKey \/ SwitchToHardened \/ ResetSyncCheckpoint \/ ResetFails

Message(h) ==
    \/ PostponeCheckpoint(h) \/ RejectCheckpoint(h)
    \/ SwitchToCheckpoint(h) \/ RecordCheckpoint(h)

CheckpointNext ==
    \/ \E b \in Blocks : ReceiveBlock(b)
    \/ \E h \in SignedCheckpoints : Message(h)
    \/ Handling
    \/ HandlerFails
    \/ Switching
    \/ NodeCrash
    \/ StartUp

CheckpointSpec == CheckpointInit /\ [][CheckpointNext]_allVars

-----------------------------------------------------------------------------
(***************************************************************************)
(* Properties.                                                             *)
(***************************************************************************)

\* The checkpoint lies on the best chain, on disk at every commit and in
\* memory: otherwise CheckSync would refuse every block on top of the node's
\* own best chain.  (CheckSync, ValidateSyncCheckpoint and the switch before
\* WriteSyncCheckpoint together see to it.)
CheckpointOnBestChain ==
    ~unsettled /\ ~resetDue =>
        /\ syncRecord \in Chain[db.hashBestChain]
        /\ pc # "down" => hashSyncCheckpoint \in Chain[pindexBest]

\* The checkpoint moves only to a descendant, whatever messages come and
\* however often the node restarts; only a change of the master key takes it
\* elsewhere (ValidateSyncCheckpoint, ResetSyncCheckpoint).
CheckpointMovesForward ==
    [][ \/ syncRecord \in Chain[syncRecord']
        \/ caller \in {"ResetSyncCheckpoint", "ResetToHardened"} ]_syncRecord

\* The message relayed to peers that connect (main.cpp, "relay
\* sync-checkpoint") is that of the checkpoint in force.
RelayedCheckpointIsCurrent ==
    pc # "down" => checkpointMessage \in {Null, hashSyncCheckpoint}

\* A pending checkpoint whose block has arrived and can be connected does not
\* stay pending: AcceptBlock calls AcceptPendingSyncCheckpoint in time.  (A
\* best block that was published without being connected can keep any other
\* from being connected.)
PendingIsTakenUp ==
    Returned("none") /\ nFaults = 0 /\ ~unsettled
    /\ hashPendingCheckpoint \in mapBlockIndex =>
        ~AlwaysConnects(hashPendingCheckpoint)

\* A pending checkpoint that is in the index descends from the one in force, so
\* that ValidateSyncCheckpoint never refuses it: a checkpoint recorded meanwhile
\* clears the pending one (ProcessSyncCheckpoint).
PendingDescends ==
    pc # "down" /\ hashPendingCheckpoint \in mapBlockIndex =>
        hashSyncCheckpoint \in Chain[hashPendingCheckpoint] \ {hashPendingCheckpoint}
=============================================================================
