---------------------------- MODULE OrphanBlocks ----------------------------
(***************************************************************************)
(* ProcessBlock (main.cpp): blocks that arrive before their parents are    *)
(* held, the missing ancestor is asked for, and when a block is accepted   *)
(* the orphans that waited for it are accepted in turn.  Two blocks that   *)
(* spend the same stake are let in only if one of them has an orphan child *)
(* or is wanted by the pending synchronized checkpoint.                    *)
(*                                                                         *)
(* Blocks come from peers, so that pfrom is not null, and the node is past *)
(* its initial download.  AcceptBlock is the subject of BlockChain and     *)
(* SyncCheckpoint: here it has three outcomes.  A request made with AskFor *)
(* stays in askedFor until the peer has answered it.  A step is one        *)
(* AcceptBlock: the process may be killed between two of them.             *)
(***************************************************************************)
EXTENDS BlockTree, Sequences

CONSTANTS
    Stake,             \* GetProofOfStake, or Null for proof of work
    SignedCheckpoints, \* the blocks that a well signed checkpoint names
    Fallible           \* the blocks that CheckBlock, CheckProofOfStake or
                       \* AcceptBlock may refuse

ASSUME OrphanAssumption ==
    /\ DOMAIN Stake = Blocks
    /\ SignedCheckpoints \subseteq Blocks
    /\ Fallible \subseteq Blocks \ {Genesis}

VARIABLES
    mapBlockIndex,
    mapOrphanBlocks,
    mapOrphanBlocksByPrev,  \* the blocks in it, each under its own parent
    setStakeSeenOrphan,
    hashPendingCheckpoint,
    vWorkQueue,             \* what the loop of ProcessBlock has yet to visit
    askedFor,               \* the blocks requested from the peer
    failed                  \* history since the start of the node: the blocks
                            \* refused, or indexed by an AcceptBlock that
                            \* returned false

orphans == <<mapOrphanBlocks, mapOrphanBlocksByPrev, setStakeSeenOrphan>>
vars == <<mapBlockIndex, orphans, hashPendingCheckpoint, vWorkQueue, askedFor, failed>>

Stakes == {Stake[b] : b \in Blocks} \ {Null}

TypeOK ==
    /\ {Genesis} \subseteq mapBlockIndex /\ mapBlockIndex \subseteq Blocks
    /\ mapOrphanBlocks \subseteq Blocks \ {Genesis}
    /\ mapOrphanBlocksByPrev \subseteq Blocks \ {Genesis}
    /\ setStakeSeenOrphan \subseteq Stakes
    /\ hashPendingCheckpoint \in Blocks \cup {Null}
    /\ vWorkQueue \in Seq(Blocks)
    /\ askedFor \subseteq Blocks
    /\ failed \subseteq Blocks

Init ==
    /\ mapBlockIndex = {Genesis}
    /\ mapOrphanBlocks = {} /\ mapOrphanBlocksByPrev = {}
    /\ setStakeSeenOrphan = {}
    /\ hashPendingCheckpoint = Null
    /\ vWorkQueue = <<>>
    /\ askedFor = {} /\ failed = {}

-----------------------------------------------------------------------------

StakeOf(b) == {Stake[b]} \ {Null}

\* AddToBlockIndex adds the stake together with the block, LoadBlockIndex adds
\* those of all blocks.
setStakeSeen == UNION {StakeOf(b) : b \in mapBlockIndex}

Have(b) == b \in mapBlockIndex \cup mapOrphanBlocks

OrphanChildren(b) == {c \in mapOrphanBlocksByPrev : Parent[c] = b}

\* The first missing block on the way back from the orphan b, when the blocks
\* of Held are the orphans.
WantedByOrphan(b, Held) ==
    CHOOSE x \in Chain[b] \ Held :
        \A y \in Chain[b] \ Held : Height[y] <= Height[x]

WantedByPendingSyncCheckpoint(b) ==
    \/ b = hashPendingCheckpoint
    \/ /\ hashPendingCheckpoint \in mapOrphanBlocks
       /\ b = WantedByOrphan(hashPendingCheckpoint, mapOrphanBlocks)

AskForPendingSyncCheckpoint ==
    {h \in {hashPendingCheckpoint} \ {Null} : ~Have(h)}

\* Mutant: a duplicate stake is let in only for the pending checkpoint.
DuplicatedForCheckpointOnly(b, seen) ==
    StakeOf(b) \cap seen # {} /\ ~WantedByPendingSyncCheckpoint(b)

\* The limit on blocks with one stake, against the stakes in seen.
Duplicated(b, seen) ==
    /\ StakeOf(b) \cap seen # {}
    /\ OrphanChildren(b) = {}
    /\ ~WantedByPendingSyncCheckpoint(b)

-----------------------------------------------------------------------------

\* AcceptBlock returns true; the pending checkpoint may be taken up.
Accepted(b) ==
    /\ mapBlockIndex' = mapBlockIndex \cup {b}
    /\ failed' = failed \ {b}
    /\ \/ UNCHANGED hashPendingCheckpoint
       \/ hashPendingCheckpoint \in mapBlockIndex' /\ hashPendingCheckpoint' = Null

\* It returns false, because of the block itself or because AddToBlockIndex
\* did not make it the best block: then the block is in the index.
NotAccepted(b) ==
    /\ b \in Fallible
    /\ mapBlockIndex' \in {mapBlockIndex, mapBlockIndex \cup {b}}
    /\ failed' = failed \cup {b}
    /\ UNCHANGED hashPendingCheckpoint

\* ProcessBlock is called for b: no other call is under way.
Arrives(b) == b # Genesis /\ vWorkQueue = <<>>

Answered(b) == askedFor \ {b}

\* Neither the block nor, unless that is allowed, its stake is there.
IsNew(b) == Arrives(b) /\ ~Have(b) /\ ~Duplicated(b, setStakeSeen)

RefuseBlock(b) ==
    /\ Arrives(b)
    /\ \/ ~IsNew(b) /\ UNCHANGED failed
       \/ IsNew(b) /\ b \in Fallible /\ failed' = failed \cup {b}
    /\ askedFor' = Answered(b)
    /\ UNCHANGED <<mapBlockIndex, orphans, hashPendingCheckpoint, vWorkQueue>>

RefuseOrphan(b) ==
    /\ IsNew(b) /\ Parent[b] \notin mapBlockIndex
    /\ Duplicated(b, setStakeSeenOrphan)
    /\ askedFor' = Answered(b) \cup AskForPendingSyncCheckpoint
    /\ UNCHANGED <<mapBlockIndex, orphans, hashPendingCheckpoint, vWorkQueue, failed>>

\* Mutant: what is asked for is the orphan itself, as in PushGetBlocks.
HoldOrphanAsksRoot(b) ==
    /\ IsNew(b) /\ Parent[b] \notin mapBlockIndex
    /\ ~Duplicated(b, setStakeSeenOrphan)
    /\ setStakeSeenOrphan' = setStakeSeenOrphan \cup StakeOf(b)
    /\ mapOrphanBlocks' = mapOrphanBlocks \cup {b}
    /\ mapOrphanBlocksByPrev' = mapOrphanBlocksByPrev \cup {b}
    /\ askedFor' = Answered(b) \cup AskForPendingSyncCheckpoint \cup {b}
    /\ UNCHANGED <<mapBlockIndex, hashPendingCheckpoint, vWorkQueue, failed>>

HoldOrphan(b) ==
    /\ IsNew(b) /\ Parent[b] \notin mapBlockIndex
    /\ ~Duplicated(b, setStakeSeenOrphan)
    /\ setStakeSeenOrphan' = setStakeSeenOrphan \cup StakeOf(b)
    /\ mapOrphanBlocks' = mapOrphanBlocks \cup {b}
    /\ mapOrphanBlocksByPrev' = mapOrphanBlocksByPrev \cup {b}
    /\ askedFor' = Answered(b) \cup AskForPendingSyncCheckpoint
                     \cup {WantedByOrphan(b, mapOrphanBlocks')}
    /\ UNCHANGED <<mapBlockIndex, hashPendingCheckpoint, vWorkQueue, failed>>

AcceptArrived(b) ==
    /\ IsNew(b) /\ Parent[b] \in mapBlockIndex
    /\ \/ Accepted(b) /\ vWorkQueue' = <<b>>
       \/ NotAccepted(b) /\ UNCHANGED vWorkQueue
    /\ askedFor' = Answered(b) \cup AskForPendingSyncCheckpoint
    /\ UNCHANGED orphans

\* The orphans the loop has yet to visit under the block it is at.
Unvisited == OrphanChildren(Head(vWorkQueue)) \cap mapOrphanBlocks

\* Mutant: the orphans of an accepted orphan are not looked for.
AcceptOrphanOnly(b) ==
    /\ vWorkQueue # <<>> /\ b \in Unvisited
    /\ (Accepted(b) \/ NotAccepted(b)) /\ UNCHANGED vWorkQueue
    /\ mapOrphanBlocks' = mapOrphanBlocks \ {b}
    /\ setStakeSeenOrphan' = setStakeSeenOrphan \ StakeOf(b)
    /\ UNCHANGED <<mapOrphanBlocksByPrev, askedFor>>

\* Mutant: the stake of an orphan that is refused stays marked.
AcceptOrphanKeepsStake(b) ==
    /\ vWorkQueue # <<>> /\ b \in Unvisited
    /\ \/ /\ Accepted(b) /\ vWorkQueue' = Append(vWorkQueue, b)
          /\ setStakeSeenOrphan' = setStakeSeenOrphan \ StakeOf(b)
       \/ /\ NotAccepted(b) /\ UNCHANGED vWorkQueue
          /\ UNCHANGED setStakeSeenOrphan
    /\ mapOrphanBlocks' = mapOrphanBlocks \ {b}
    /\ UNCHANGED <<mapOrphanBlocksByPrev, askedFor>>

\* One turn of the inner loop.
AcceptOrphan(b) ==
    /\ vWorkQueue # <<>> /\ b \in Unvisited
    /\ \/ Accepted(b) /\ vWorkQueue' = Append(vWorkQueue, b)
       \/ NotAccepted(b) /\ UNCHANGED vWorkQueue
    /\ mapOrphanBlocks' = mapOrphanBlocks \ {b}
    /\ setStakeSeenOrphan' = setStakeSeenOrphan \ StakeOf(b)
    /\ UNCHANGED <<mapOrphanBlocksByPrev, askedFor>>

\* Mutant: the list of a visited parent's orphans is not erased.
NextInQueueKeepsList ==
    /\ vWorkQueue # <<>> /\ Unvisited = {}
    /\ vWorkQueue' = Tail(vWorkQueue)
    /\ UNCHANGED <<mapBlockIndex, orphans, hashPendingCheckpoint, askedFor, failed>>

\* The end of a turn of the outer loop.
NextInQueue ==
    /\ vWorkQueue # <<>> /\ Unvisited = {}
    /\ mapOrphanBlocksByPrev' =
          mapOrphanBlocksByPrev \ OrphanChildren(Head(vWorkQueue))
    /\ vWorkQueue' = Tail(vWorkQueue)
    /\ UNCHANGED <<mapBlockIndex, mapOrphanBlocks, setStakeSeenOrphan,
                   hashPendingCheckpoint, askedFor, failed>>

\* ProcessSyncCheckpoint: pending if the block is unknown (and asked for, or
\* what it waits for is); else a recorded checkpoint clears the pending one.
ProcessSyncCheckpoint(h) ==
    /\ vWorkQueue = <<>>
    /\ IF h \in mapBlockIndex
       THEN /\ hashPendingCheckpoint' \in {hashPendingCheckpoint, Null}
            /\ UNCHANGED askedFor
       ELSE /\ hashPendingCheckpoint' = h
            /\ askedFor' = askedFor \cup
                  {IF h \in mapOrphanBlocks
                   THEN WantedByOrphan(h, mapOrphanBlocks) ELSE h}
    /\ UNCHANGED <<mapBlockIndex, orphans, vWorkQueue, failed>>

\* The process ends, at any point, and is started again.
Restart ==
    /\ mapOrphanBlocks' = {} /\ mapOrphanBlocksByPrev' = {}
    /\ setStakeSeenOrphan' = {}
    /\ hashPendingCheckpoint' = Null
    /\ vWorkQueue' = <<>>
    /\ askedFor' = {} /\ failed' = {}
    /\ UNCHANGED mapBlockIndex

-----------------------------------------------------------------------------

ProcessBlock(b) ==
    RefuseBlock(b) \/ RefuseOrphan(b) \/ HoldOrphan(b) \/ AcceptArrived(b)

\* The peer answers a request.
Answer(b) == b \in askedFor /\ ProcessBlock(b)

WorkQueue == NextInQueue \/ \E b \in mapOrphanBlocks : AcceptOrphan(b)

Next ==
    \/ \E b \in Blocks : ProcessBlock(b)
    \/ WorkQueue
    \/ \E h \in SignedCheckpoints : ProcessSyncCheckpoint(h)
    \/ Restart

Spec == Init /\ [][Next]_vars

\* The loop of ProcessBlock goes on, and the peer answers what it is asked.
FairSpec ==
    /\ Spec
    /\ WF_vars(WorkQueue)
    /\ \A b \in Blocks : WF_vars(Answer(b))

-----------------------------------------------------------------------------
(***************************************************************************)
(* Properties.                                                             *)
(***************************************************************************)

\* A block waits only for a block that the node does not have, or whose
\* AcceptBlock returned false: the work queue reaches every orphan that can be
\* reached, through any number of levels (ProcessBlock, "Recursively process
\* any orphan blocks that depended on this one").
OrphanWaitsForParent ==
    vWorkQueue = <<>> =>
        \A b \in mapOrphanBlocks : Parent[b] \in mapBlockIndex => Parent[b] \in failed

\* The two maps hold the same blocks; while the loop runs, the one by parents
\* also has, under the block the loop is at only, those already deleted
\* (dangling pointers).
OrphanMapsAgree ==
    /\ mapOrphanBlocks \subseteq mapOrphanBlocksByPrev
    /\ \A b \in mapOrphanBlocksByPrev \ mapOrphanBlocks :
          vWorkQueue # <<>> /\ Parent[b] = Head(vWorkQueue)

\* No stake stays marked after the last orphan that has it is gone: its next
\* block would be refused as a duplicate of nothing (setStakeSeenOrphan).
StakeSeenIsHeld ==
    setStakeSeenOrphan \subseteq UNION {StakeOf(b) : b \in mapOrphanBlocks}

\* The block an orphan waits for is never refused for its stake, neither as a
\* block nor as an orphan in its turn (WantedByOrphan, ProcessBlock).
WantedIsLetIn ==
    \A o \in mapOrphanBlocks :
        LET w == WantedByOrphan(o, mapOrphanBlocks)
        IN  ~Duplicated(w, setStakeSeen) /\ ~Duplicated(w, setStakeSeenOrphan)

\* An orphan is released in the end: each missing ancestor is asked for and is
\* let in whatever its stake, unless one fails for another reason ("so we ask
\* for it again directly", ProcessBlock).
OrphanIsReleased ==
    \A b \in Blocks :
        b \in mapOrphanBlocks ~> b \notin mapOrphanBlocks \/ Chain[b] \cap failed # {}
=============================================================================
