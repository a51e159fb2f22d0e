----------------------------- MODULE BlockChain -----------------------------
(***************************************************************************)
(* The block chain database and the switch to a new best chain:            *)
(* AcceptBlock, AddToBlockIndex, SetBestChain, SetBestChainInner and       *)
(* Reorganize (main.cpp) over CTxDB transactions and LoadBlockIndex        *)
(* (txdb-leveldb.cpp), with crashes and restarts between any two steps.    *)
(*                                                                         *)
(* cs_main is held from AcceptBlock to the end of SetBestChain, so the     *)
(* steps of one switch do not interleave with those of another: pc says    *)
(* where the one switch under way is.  A step is one block connected or    *)
(* disconnected, one commit, one publication; a crash may come between.    *)
(*                                                                         *)
(* hashBestChain, nBestHeight and bnBestChainTrust are always assigned     *)
(* together with pindexBest and follow from it.                            *)
(*                                                                         *)
(* Not here: SetBestChain called for a synchronized checkpoint (it may     *)
(* move to a lighter chain), a failed commit of AddToBlockIndex itself,    *)
(* the very first start (which makes the genesis block), and what a switch *)
(* does to the memory pool and the wallet.                                 *)
(***************************************************************************)
EXTENDS TxIndex

CONSTANTS
    CheckDepth,  \* -checkblocks: how many blocks LoadBlockIndex checks
    MaxFaults    \* bound on crashes, failed block reads and failed commits

ASSUME BoundsAssumption == CheckDepth \in Nat /\ MaxFaults \in Nat

VARIABLES
    \* on disk
    db,                  \* what the database holds
    \* CTxDB
    batch,               \* activeBatch: db as the open transaction sees it
    \* globals of main.cpp
    mapBlockIndex,       \* the blocks that have a CBlockIndex
    pnext,               \* CBlockIndex::pnext
    pindexBest,
    bnBestInvalidTrust,
    \* locals of the SetBestChain call under way
    pc,
    pindexNew,           \* the block to become best
    base,                \* the block the open transaction started from
    goal,                \* the block whose chain it is to commit
    cursor,              \* the block whose chain batch.tx stands at
    \* bounds and history
    nFaults,
    diverged             \* a transaction was begun with pindexBest not the
                         \* block the database stood at

memory == <<mapBlockIndex, pnext, pindexBest, bnBestInvalidTrust>>
call == <<pc, pindexNew, base, goal, cursor>>
vars == <<db, batch, memory, call, nFaults, diverged>>

Working == {"Extend", "Reorganize", "Postponed"}
Phases == Working \cup {"idle", "SetBestChain", "Further", "Publish", "down"}

IsDatabase(d) ==
    /\ DOMAIN d = {"blockindex", "hashNext", "hashBestChain", "tx", "bnBestInvalidTrust"}
    /\ d.blockindex \subseteq Blocks
    /\ d.hashNext \in [Blocks -> Blocks \cup {Null}]
    /\ d.hashBestChain \in Blocks
    /\ IsIndex(d.tx)
    /\ d.bnBestInvalidTrust \in Nat

TypeOK ==
    /\ IsDatabase(db)
    /\ batch = Null \/ IsDatabase(batch)
    /\ mapBlockIndex \subseteq Blocks
    /\ pnext \in [Blocks -> Blocks \cup {Null}]
    /\ pindexBest \in Blocks
    /\ bnBestInvalidTrust \in Nat
    /\ pc \in Phases
    /\ {pindexNew, base, goal, cursor} \subseteq Blocks \cup {Null}
    /\ nFaults \in 0 .. MaxFaults
    /\ diverged \in BOOLEAN

-----------------------------------------------------------------------------

\* A database that holds the genesis block only (LoadBlockIndex made it).
Init ==
    /\ db = [blockindex |-> {Genesis},
             hashNext |-> [b \in Blocks |-> Null],
             hashBestChain |-> Genesis,
             tx |-> [t \in {} |-> 0],
             bnBestInvalidTrust |-> 0]
    /\ batch = Null
    /\ mapBlockIndex = {Genesis}
    /\ pnext = [b \in Blocks |-> Null]
    /\ pindexBest = Genesis
    /\ bnBestInvalidTrust = 0
    /\ pc = "idle"
    /\ pindexNew = Null /\ base = Null /\ goal = Null /\ cursor = Null
    /\ nFaults = 0
    /\ diverged = FALSE

Goto(p, b) ==
    /\ pc' = p
    /\ pindexNew' = b
    /\ base' = Null /\ goal' = Null /\ cursor' = Null

Return == Goto("idle", Null)

\* Mutant: chains compared by height.
MakesBestByHeight(b) == Height[b] > Height[pindexBest]

MakesBest(b) == ChainTrust[b] > ChainTrust[pindexBest]

\* AcceptBlock and AddToBlockIndex: the block's index entry is made and
\* committed before anything is connected.  A block that makes a heavier
\* chain goes on to SetBestChain.
AcceptBlock(b) ==
    /\ pc = "idle"
    /\ b \notin mapBlockIndex
    /\ b # Genesis /\ Parent[b] \in mapBlockIndex
    /\ mapBlockIndex' = mapBlockIndex \cup {b}
    /\ db' = [db EXCEPT !.blockindex = @ \cup {b}, !.hashNext[b] = Null]
    /\ IF MakesBest(b)
       THEN Goto("SetBestChain", b)
       ELSE UNCHANGED call
    /\ UNCHANGED <<batch, pnext, pindexBest, bnBestInvalidTrust, nFaults, diverged>>

\* Mutant: the walk back tests the block and not its parent.
IntermediateOneTooLow(b) ==
    IF MakesBest(b)
    THEN CHOOSE x \in Chain[b] :
            /\ ChainTrust[x] <= ChainTrust[pindexBest]
            /\ ChainTrust[NextOnChain(x, b)] > ChainTrust[pindexBest]
    ELSE b

\* The lowest block of b's chain that makes it heavier than the best chain:
\* the blocks above it are postponed to transactions of their own.
Intermediate(b) ==
    CHOOSE x \in Chain[b] :
        /\ x = b \/ ChainTrust[x] > ChainTrust[pindexBest]
        /\ x = Genesis \/ ChainTrust[Parent[x]] <= ChainTrust[pindexBest]

TxnBegin(p, from, to) ==
    /\ batch' = db
    /\ pc' = p
    /\ base' = from /\ cursor' = from /\ goal' = to

\* SetBestChain, up to the first block: extend the best chain by one block,
\* or reorganize.
SetBestChain ==
    /\ pc = "SetBestChain"
    /\ IF pindexNew # Genesis /\ Parent[pindexNew] = pindexBest
       THEN TxnBegin("Extend", pindexBest, pindexNew)
       ELSE TxnBegin("Reorganize", pindexBest, Intermediate(pindexNew))
    /\ diverged' = (diverged \/ pindexBest # db.hashBestChain)
    /\ UNCHANGED <<db, memory, pindexNew, nFaults>>

\* Reorganize, first loop: CBlock::DisconnectBlock of the block on top.
DisconnectBlock ==
    /\ pc = "Reorganize"
    /\ cursor \notin Chain[goal]
    /\ CanDisconnect(batch.tx, cursor)
    /\ batch' = [batch EXCEPT !.tx = Disconnect(@, cursor),
                              !.hashNext[Parent[cursor]] = Null]
    /\ cursor' = Parent[cursor]
    /\ UNCHANGED <<db, memory, pc, pindexNew, base, goal, nFaults, diverged>>

\* CBlock::ConnectBlock of the next block towards goal, in SetBestChainInner
\* or the second loop of Reorganize.  It writes the index entry of the block,
\* with pnext as memory has it, and that of the block below.
Next2Connect == NextOnChain(cursor, goal)

ConnectBlock ==
    /\ pc \in Working
    /\ cursor \in Chain[goal] \ {goal}
    /\ CanConnect(batch.tx, Next2Connect, pindexBest)
    /\ batch' = [batch EXCEPT !.tx = Connect(@, Next2Connect),
                              !.hashNext[Next2Connect] = pnext[Next2Connect],
                              !.hashNext[cursor] = Next2Connect]
    /\ cursor' = Next2Connect
    /\ UNCHANGED <<db, memory, pc, pindexNew, base, goal, nFaults, diverged>>

\* Mutant: pnext of the shorter branch is left as it was.
RelinkedConnectedOnly ==
    [x \in Blocks |->
        IF x \in Chain[goal] \ {goal} /\ NextOnChain(x, goal) \notin Chain[base]
        THEN NextOnChain(x, goal)
        ELSE pnext[x]]

\* pnext of the blocks that the switch from base to goal relinks.
Relinked ==
    [x \in Blocks |->
        IF x \in Chain[goal] \ {goal} /\ NextOnChain(x, goal) \notin Chain[base]
        THEN NextOnChain(x, goal)
        ELSE IF \E d \in Chain[base] \ Chain[goal] : d # Genesis /\ Parent[d] = x
             THEN Null
             ELSE pnext[x]]

\* WriteHashBestChain, TxnCommit and, once that is on disk, the pnext links.
TxnCommit ==
    /\ pc \in Working
    /\ cursor = goal
    /\ db' = [batch EXCEPT !.hashBestChain = goal]
    /\ batch' = Null
    /\ pnext' = Relinked
    /\ pc' = IF goal = pindexNew THEN "Publish" ELSE "Further"
    /\ UNCHANGED <<mapBlockIndex, pindexBest, bnBestInvalidTrust,
                   pindexNew, base, goal, cursor, nFaults, diverged>>

\* SetBestChain, "Connect further blocks": the next postponed block.
ConnectFurther ==
    /\ pc = "Further"
    /\ TxnBegin("Postponed", goal, NextOnChain(goal, pindexNew))
    /\ UNCHANGED <<db, memory, pindexNew, nFaults, diverged>>

\* The end of SetBestChain.  It is reached with pindexNew connected, and also
\* with a postponed block refused.
Publish ==
    /\ pc = "Publish"
    /\ pindexBest' = pindexNew
    /\ Return
    /\ UNCHANGED <<db, batch, mapBlockIndex, pnext, bnBestInvalidTrust, nFaults, diverged>>

-----------------------------------------------------------------------------

\* InvalidChainFound, in a database write of its own.
InvalidChainFound(b) ==
    IF ChainTrust[b] > bnBestInvalidTrust
    THEN /\ bnBestInvalidTrust' = ChainTrust[b]
         /\ db' = [db EXCEPT !.bnBestInvalidTrust = ChainTrust[b]]
    ELSE UNCHANGED <<bnBestInvalidTrust, db>>

\* The first transaction fails: SetBestChain returns false, and the block
\* stays in the index.
FailFirst ==
    /\ InvalidChainFound(pindexNew)
    /\ Return

\* Mutant: the loop goes on after a failure, and tries the block again.
FailPostponedRetries ==
    /\ InvalidChainFound(goal)
    /\ pc' = "Further" /\ goal' = base
    /\ UNCHANGED <<pindexNew, base, cursor>>

\* A postponed block fails: "errors now are not fatal", and SetBestChain goes
\* on to publish pindexNew.
FailPostponed ==
    /\ InvalidChainFound(goal)
    /\ Goto("Publish", pindexNew)

\* A block that ConnectBlock or DisconnectBlock refuses: TxnAbort.
BlockRefused ==
    /\ \/ /\ pc = "Reorganize" /\ cursor \notin Chain[goal]
          /\ ~CanDisconnect(batch.tx, cursor)
       \/ /\ pc \in Working /\ cursor \in Chain[goal] \ {goal}
          /\ ~CanConnect(batch.tx, Next2Connect, pindexBest)
    /\ batch' = Null
    /\ IF pc = "Postponed" THEN FailPostponed ELSE FailFirst
    /\ UNCHANGED <<mapBlockIndex, pnext, pindexBest, nFaults, diverged>>

\* ReadFromDisk fails for a block to disconnect or connect in Reorganize.
ReorganizeReadFails ==
    /\ pc = "Reorganize" /\ cursor # goal
    /\ nFaults < MaxFaults /\ nFaults' = nFaults + 1
    /\ batch' = Null
    /\ FailFirst
    /\ UNCHANGED <<mapBlockIndex, pnext, pindexBest, diverged>>

\* ReadFromDisk fails for a postponed block.
PostponedReadFails ==
    /\ pc = "Further"
    /\ nFaults < MaxFaults /\ nFaults' = nFaults + 1
    /\ Goto("Publish", pindexNew)
    /\ UNCHANGED <<db, batch, memory, diverged>>

\* The write of TxnCommit fails.  Only Reorganize takes that for an invalid
\* chain; after a postponed block SetBestChain goes on to publish.
CommitFails ==
    /\ pc \in Working
    /\ cursor = goal
    /\ nFaults < MaxFaults /\ nFaults' = nFaults + 1
    /\ batch' = Null
    /\ \/ pc = "Reorganize" /\ FailFirst
       \/ pc = "Extend" /\ Return /\ UNCHANGED <<bnBestInvalidTrust, db>>
       \/ pc = "Postponed" /\ Goto("Publish", pindexNew)
                           /\ UNCHANGED <<bnBestInvalidTrust, db>>
    /\ UNCHANGED <<mapBlockIndex, pnext, pindexBest, diverged>>

-----------------------------------------------------------------------------

\* The process dies; what it left in memory is not looked at again.
Crash ==
    /\ pc # "down"
    /\ nFaults < MaxFaults /\ nFaults' = nFaults + 1
    /\ batch' = Null
    /\ Goto("down", Null)
    /\ UNCHANGED <<db, memory, diverged>>

\* The blocks that the start-up check (level 1, CheckBlock) finds bad.
BadBlocks(best) ==
    {x \in Connected(best) : /\ Height[x] >= Height[best] - CheckDepth
                             /\ ~CheckBlock(x, best)}

\* CTxDB::LoadBlockIndex.  A local of the same name takes the value read for
\* bnBestInvalidTrust, so that the global starts from 0.  A bad block moves
\* the best chain back below the lowest one found.
LoadBlockIndex ==
    /\ pc = "down"
    /\ mapBlockIndex' = db.blockindex
    /\ pnext' = db.hashNext
    /\ pindexBest' = db.hashBestChain
    /\ bnBestInvalidTrust' = 0
    /\ LET bad == BadBlocks(db.hashBestChain) IN
       IF bad = {}
       THEN Return
       ELSE \E lowest \in bad :
                /\ \A x \in bad : Height[lowest] <= Height[x]
                /\ Goto("SetBestChain", Parent[lowest])
    /\ UNCHANGED <<db, batch, nFaults, diverged>>

-----------------------------------------------------------------------------

\* The steps the node takes on its own once a block has arrived.
Step ==
    \/ SetBestChain
    \/ DisconnectBlock
    \/ ConnectBlock
    \/ TxnCommit
    \/ ConnectFurther
    \/ Publish
    \/ BlockRefused

Next ==
    \/ \E b \in Blocks : AcceptBlock(b)
    \/ Step
    \/ ReorganizeReadFails
    \/ PostponedReadFails
    \/ CommitFails
    \/ Crash
    \/ LoadBlockIndex

\* The thread that holds cs_main runs on; nothing says that blocks arrive,
\* that the process dies or that it is started again.
Spec == Init /\ [][Next]_vars /\ WF_vars(Step)

-----------------------------------------------------------------------------
(***************************************************************************)
(* Properties.  Those that speak of the database hold as long as no        *)
(* transaction was begun from a block the database does not stand at; how  *)
(* that comes about is the subject of MemoryMatchesDisk.                   *)
(***************************************************************************)

\* The committed best chain never holds a double spend, a spend of an output
\* that is not on it, or a block ConnectBlock refuses: ConnectBlock,
\* DisconnectBlock and the transactions around them, over any sequence of
\* reorganizations, refusals and crashes.
BestChainIsValid == ~diverged => ValidChain(db.hashBestChain)

\* The transaction index on disk is at all times the index of the chain that
\* hashBestChain names: a reorganization that fails or is cut short leaves
\* nothing behind, and what DisconnectBlock undoes is what ConnectBlock did.
IndexMatchesBestChain == ~diverged => db.tx = IndexOfChain(db.hashBestChain)

\* Walking hashNext from the genesis block visits the best chain and nothing
\* else, and pnext in memory says the same (GetBlockIndex of a locator,
\* IsInMainChain and getblocks rely on it).
LinksFollowBestChain ==
    ~diverged =>
        /\ \A b \in Blocks :
              db.hashNext[b] =
                  IF b \in Chain[db.hashBestChain] \ {db.hashBestChain}
                  THEN NextOnChain(b, db.hashBestChain) ELSE Null
        /\ pc # "down" => pnext = db.hashNext

\* Seen from the database alone, the node goes in single steps from one valid
\* chain to a heavier one, or back along its own, which BestChain allows at any
\* time and the code does when the start-up check finds a bad block: the whole
\* of SetBestChain, with its intermediate commits, its refusals and crashes in
\* the middle, implements BestChain.
Abstract == INSTANCE BestChain WITH
    known <- db.blockindex,
    tip   <- db.hashBestChain,
    index <- db.tx,
    torn  <- diverged

ImplementsBestChain == Abstract!Spec

\* A chain that connects from the genesis block whatever the best chain is.
AlwaysConnects(b) ==
    \A x \in Connected(b), best \in Blocks :
        CanConnect(IndexOfChain(Parent[x]), x, best)

\* While nothing has failed, the node is on a heaviest chain among those it
\* knows and could connect (AddToBlockIndex compares trust on arrival only,
\* never again for a block already in the index).
BestIsHeaviest ==
    pc = "idle" /\ nFaults = 0 /\ ~diverged /\ pindexBest = db.hashBestChain =>
        \A b \in mapBlockIndex :
            AlwaysConnects(b) => ChainTrust[b] <= ChainTrust[pindexBest]

\* Every call of SetBestChain comes to an end, whatever it meets.
SetBestChainReturns == pc \notin {"idle", "down"} ~> pc \in {"idle", "down"}

\* "errors now are not fatal, we still did a reorganisation to a new chain in
\* a valid way" (SetBestChain): between two calls the best block in memory is
\* the block the database stands at.
MemoryMatchesDisk == pc = "idle" => pindexBest = db.hashBestChain
=============================================================================
