# CryptoBullion: a TLA+ development

This directory models the parts of the CryptoBullion node (`src/src/`) whose
correctness depends on the order of steps, on failures and on restarts. It
holds TLA+ modules, the TLC configurations that check them on small instances,
and proofs for TLAPS of what matters most for every value of the constants.

    tlc -config MCBlockChain.cfg MCBlockChain.tla
    tlc -config MCSyncCheckpoint.cfg MCSyncCheckpoint.tla
    tlc -config MCOrphanBlocks.cfg MCOrphanBlocks.tla
    tlc -config MCMemPool.cfg MCMemPool.tla
    tlc -config MCWalletTx.cfg MCWalletTx.tla
    tlc -config MCWalletDB.cfg MCWalletDB.tla
    tlc -config MCAddrMan.cfg MCAddrMan.tla
    tlc -config MCRelay.cfg MCRelay.tla
    tlc -config MCConnections.cfg MCConnections.tla
    tlapm TxIndexProofs.tla
    tlapm BlockChainProofs.tla
    tlapm SyncCheckpointProofs.tla
    tlapm OrphanBlocksProofs.tla
    tlapm MemPoolProofs.tla
    tlapm WalletTxProofs.tla
    tlapm WalletDBProofs.tla
    tlapm NetworkProofs.tla

Line numbers below refer to `src/src/main.cpp` unless another file is named.
`PROJECT.json` maps each definition to the lines it models and lists the runs,
the mutants that show that each property can fail, the findings, the hazards
and the theorems.

## 1. The system

A node is one process with a few threads. Almost all of the chain state is
guarded by one recursive lock, `cs_main`; the wallet has `cs_wallet`, the
database environment `bitdb.cs_db`, each set of network tables a lock of its
own. What is durable is a LevelDB database (block index, transaction index,
best chain, synchronized checkpoint), the flat block files, and a Berkeley DB
file for the wallet.

| Part | State | Operations | Talks to |
|---|---|---|---|
| Block chain (`main.cpp`, `main.h`) | `mapBlockIndex`, `pnext` links, `pindexBest` and its copies, `bnBestInvalidTrust`, `setStakeSeen` | `AcceptBlock`, `AddToBlockIndex`, `SetBestChain`, `Reorganize`, `LoadBlockIndex` | CTxDB, wallet (`SyncWithWallets`), memory pool, checkpoints |
| Transaction index (`CTxIndex`) | position and spent outputs of each transaction of the best chain | `ConnectBlock`, `DisconnectBlock` | CTxDB |
| CTxDB (`txdb-leveldb.*`) | `activeBatch` over LevelDB | `TxnBegin`, `TxnCommit`, `TxnAbort`, `Read`, `Write`, `Erase`, `Exists` | LevelDB |
| Synchronized checkpoints (`checkpoints.*`) | `hashSyncCheckpoint` (also on disk), `hashPendingCheckpoint`, `hashInvalidCheckpoint` | `ProcessSyncCheckpoint`, `AcceptPendingSyncCheckpoint`, `CheckSync`, `ResetSyncCheckpoint` | block chain, peers |
| Block arrival (`ProcessBlock`) | `mapOrphanBlocks`, `mapOrphanBlocksByPrev`, `setStakeSeenOrphan` | `ProcessBlock` | block chain, peers |
| Memory pool | `mempool.mapTx`, `mapNextTx`, `mapOrphanTransactions` | `AcceptToMemoryPool`, `remove`, orphan eviction | block chain, wallet, peers |
| Wallet (`wallet.*`) | `mapWallet` with `vfSpent`, `setKeyPool`, best-block locator | `AddToWallet`, `ScanForWalletTransactions`, `ReacceptWalletTransactions`, `FixSpentCoins`, `CommitTransaction` | block chain, memory pool, wallet file |
| Wallet file (`walletdb.*`, `db.*`) | open handles, `mapFileUseCount`, `mapDb`, `wallet.dat` and its log | handles, flush thread, `BackupWallet`, `EncryptWallet`, `CDB::Rewrite` | Berkeley DB |
| Network: connections (`net.*`) | `vNodes`, `vNodesDisconnected`, `nRefCount`, `semOutbound` | open, accept, disconnect, delete | message processing |
| Network: relay (`net.h`, `main.cpp`) | `setInventoryKnown`, `vInventoryToSend`, `mapAskFor`, `mapAlreadyAskedFor` | `inv`, `getdata`, `tx`, `SendMessages` | memory pool, peers |
| Address manager (`addrman.*`) | new and tried buckets, `vRandom`, `peers.dat` | `Add`, `Good`, `Attempt`, `Select`, `GetAddr` | network |
| Alerts (`alert.*`) | `mapAlerts` | `ProcessAlert` | peers, UI |
| Stake kernel (`kernel.*`) | none of its own | stake modifier, kernel hash | block chain |
| Minter (`main.cpp`, from 4400) | reserve key, last coinbase | `CreateNewBlock`, `CheckWork` | block chain, wallet |
| RPC, Qt, IRC, init | next to none | dispatch, display | all |

**Hard behaviours.** A switch of the best chain runs over several database
transactions, with state in memory that is to agree with what was committed.
The process may die between any two of them. Side branches, refused blocks and
failed reads exercise paths that a unit test hardly sets up (the tests under
`src/src/test` have none for `SetBestChain` or `Reorganize`). Checkpoints move
the chain against the trust rule. Blocks, transactions and checkpoints arrive
before what they depend on and wait. Wallet, memory pool and chain are updated
one after the other without a common transaction. Three threads share the
nodes of `vNodes` and count references by hand; several share one Berkeley DB
file that a fourth closes when nobody seems to use it. Peers lose connections
with requests under way.

**What makes each part correct.** The database is at all times one valid chain
and exactly its index; memory agrees with it between two switches; the chosen
chain is the heaviest the node could connect; links along the chain are those
of the chain (block chain). Reads through an open batch see its writes and
deletions (CTxDB). The checkpoint is on the best chain, only moves forward
along it, and accepted blocks descend from it (checkpoints). An orphan is
released once its parent is accepted, and the stake-seen sets say what is
really held (block arrival). The pool holds no two spends of one output
(memory pool). The wallet has its transactions of the chain and marks what the
chain spends (wallet). No file is closed under its user, and what was written
comes back after a crash (wallet file). No node is deleted in use and no slot
is lost (connections). A transaction gets everywhere and the traffic ends
(relay). A cancelled alert does not come back (alerts). Reference counts match
the tables (address manager).

## 2. Modules

| Module | Role |
|---|---|
| `BlockTree` | the blocks that occur, as constants: parent, height, trust; `Chain[b]`, the blocks from genesis to `b` |
| `TxIndex` | the transaction index: what a block may be connected to, `Connect`, `Disconnect`, and `IndexOfChain(b)`, the index a chain defines |
| `BestChain` | abstract specification: a set of known blocks and one tip that moves atomically |
| `BlockChain` | the code: accept a block, switch the best chain block by block and commit by commit, fail, crash, restart |
| `MCBlockChain` | the instance for TLC |
| `SyncCheckpoint` | synchronized checkpoints over every step of `BlockChain` |
| `MCSyncCheckpoint` | its instance for TLC |
| `OrphanBlocks` | `ProcessBlock`: blocks before their parents, duplicate stakes, requests |
| `MCOrphanBlocks` | its instance for TLC |
| `MemPool` | memory pool and orphan transactions while the best chain moves |
| `MCMemPool` | its instance for TLC |
| `WalletTx` | the wallet's transactions over every step of `BlockChain` |
| `WalletDB` | `wallet.dat`: handles, flush, backup, encryption, rewrite, crash and power failure |
| `AddrMan` | new and tried buckets and `peers.dat` |
| `Relay` | announcing, requesting and sending transactions between nodes |
| `Connections` | the life of a `CNode` and of a slot of `semOutbound` |
| `MCWalletTx`, `MCWalletDB`, `MCAddrMan`, `MCRelay`, `MCConnections` | their instances for TLC |
| `TxIndexProofs`, `BlockChainProofs`, `SyncCheckpointProofs`, `OrphanBlocksProofs`, `MemPoolProofs`, `WalletTxProofs`, `WalletDBProofs`, `NetworkProofs` | theorems and proofs |

`SyncCheckpoint` and `WalletTx` extend `BlockChain` and interleave with every
step of it. `MemPool` stands on `TxIndex` and takes the chain as a sequence of
atomic moves, which is what `ImplementsBestChain` shows. `Relay` and
`OrphanBlocks` see the parts below them by their verdicts.

### How BlockChain corresponds to the code

`cs_main` is held from `AcceptBlock` (2345) to the end of `SetBestChain`
(2091), so at most one switch is under way; `pc` says where it stands. A step
is the smallest unit after which a crash can be told from a crash before it:
a committed write, or a change to the open batch.

| Variable | Code |
|---|---|
| `db` | the LevelDB records: `blockindex` with its `hashNext`, `hashBestChain`, `tx`, `bnBestInvalidTrust` |
| `batch` | `CTxDB::activeBatch`, as the contents the open transaction sees |
| `mapBlockIndex`, `pnext`, `pindexBest`, `bnBestInvalidTrust` | the globals of the same names |
| `pc`, `pindexNew`, `base`, `goal`, `cursor` | where the call of `SetBestChain` is: the block asked for, the block the open transaction starts from and ends at, the block the batch stands at |
| `nFaults` | bound on crashes and failures |
| `diverged` | history: a transaction was begun although `pindexBest` was not the block the database stood at |

| Action | Code |
|---|---|
| `AcceptBlock` | 2345-2427 and `AddToBlockIndex` 2161-2239 up to the comparison of trust |
| `SetBestChain` | 1979-2013: extend by one, or reorganize to the lowest heavier block of the branch |
| `DisconnectBlock`, `ConnectBlock` | one turn of the two loops of `Reorganize` (1889-1922), or the one `ConnectBlock` of `SetBestChainInner` |
| `TxnCommit` | `WriteHashBestChain`, `TxnCommit`, then the `pnext` links (1923-1938, 1959-1971) |
| `ConnectFurther` | the loop over postponed blocks (2025-2041) |
| `Publish` | 2043-2091 |
| `BlockRefused`, `ReorganizeReadFails`, `PostponedReadFails`, `CommitFails` | each error return, with `InvalidChainFound` where the code calls it |
| `Crash`, `LoadBlockIndex` | process exit; `CTxDB::LoadBlockIndex` with its check of the last blocks and the move back to the fork |

Abstractions. A block's transactions are a set, since a block that is out of
order is refused whatever the index holds; such a block, and one with bad
signatures, amounts or fees, is outside the constant `SoundBlocks`. The verdict
of `ConnectBlock` on a sound block is computed from the index. `Chain` is
defined without recursion, as the smallest set closed under parent, so that
facts about it can be proved. `NoRepeatAssumption` (no transaction occurs twice
on one chain) is what the height in the coinbase and the spent inputs of any
other transaction give; it is checked by TLC on the instance. Under it the test of
BIP 30 in `ConnectBlock` never refuses a block.

### How SyncCheckpoint composes with BlockChain

`SyncCheckpoint` extends `BlockChain` and keeps its variables and its steps. The
checkpoint handlers (`checkpoints.cpp`) and `AcceptBlock` run under `cs_main`
and call `SetBestChain`; while the call is under way `caller` names the handler
that waits, `asked` the block it called for, and `pc` of `BlockChain` moves.
When `pc` is `"idle"` again the handler goes on. Two return values are read off
the state rather than kept: `SetBestChain`, called for a block off the best
chain, returned true exactly if `pindexBest` is that block; `AddToBlockIndex`
returned true exactly if the block does not (still) beat the best chain.

| Variable | Code |
|---|---|
| `syncRecord`, `pubKeyRecord` | the records `hashSyncCheckpoint` and `strCheckpointPubKey` |
| `hashSyncCheckpoint`, `hashPendingCheckpoint`, `hashInvalidCheckpoint`, `checkpointMessage`, `checkpointMessagePending` | the globals; a message is the block it names |
| `strMasterPubKey` | the constant compiled into the program that is running; a restart may run another |
| `unsettled`, `resetDue` | history, see the properties |

| Action | Code |
|---|---|
| `ReceiveBlock`, `AcceptBlockReturns` | `AcceptBlock` with `CheckHardened` and `CheckSync`, and its end (2345-2427) |
| `SwitchToPending`, `RecordPending` | `AcceptPendingSyncCheckpoint` (`checkpoints.cpp` 199-243) |
| `PostponeCheckpoint`, `RejectCheckpoint`, `SwitchToCheckpoint`, `RecordCheckpoint` | `ProcessSyncCheckpoint` (`checkpoints.cpp` 445-496) |
| `CheckpointFails`, `HandlerFails` | their error returns |
| `StartUp`, `CheckMasterKey`, `SwitchToHardened`, `ResetSyncCheckpoint`, `ResetFails` | `LoadBlockIndex` (2745-2848) and `ResetSyncCheckpoint` (`checkpoints.cpp` 301-342) |

### How OrphanBlocks corresponds to the code

`ProcessBlock` (2441-2555) runs under `cs_main`. A step is one `AcceptBlock`
with what follows it, because the process can die between two: then the index
keeps what was accepted and everything held is lost. `AcceptBlock` is the
subject of the two modules above; here it returns true, or returns false
without or with the block in the index (`AddToBlockIndex`, when `SetBestChain`
fails).

| Variable | Code |
|---|---|
| `mapBlockIndex`, `mapOrphanBlocks`, `setStakeSeenOrphan`, `hashPendingCheckpoint` | the globals |
| `mapOrphanBlocksByPrev` | the multimap, as the set of its blocks: each is filed under its parent. A block that is in it and no longer in `mapOrphanBlocks` is a dangling pointer |
| `vWorkQueue` | the local of the same name, from the element the loop is at |
| `askedFor` | what `AskFor` requested and no peer has answered |
| `failed` | history, since the start of the node: blocks a check refused, or whose `AcceptBlock` returned false |

`setStakeSeen` is the stakes of the blocks in the index: `AddToBlockIndex` and
`LoadBlockIndex` keep it so, and it is an operator.

| Action | Code |
|---|---|
| `RefuseBlock`, `RefuseOrphan` | the error returns of `ProcessBlock` before `AcceptBlock` (2443-2509) |
| `HoldOrphan` | 2494-2526, with the two requests made there |
| `AcceptArrived` | 2528-2534 |
| `AcceptOrphan`, `NextInQueue` | a turn of the inner, the end of a turn of the outer loop (2535-2550) |
| `ProcessSyncCheckpoint` | its effect on the pending checkpoint and its request (`checkpoints.cpp` 445-496) |
| `Restart` | exit and start, also in the middle of the loop |

### How MemPool corresponds to the code

`MemPool` stands on what `BlockChain` promises: the database is at `best`, a
valid chain, and `txdb` is exactly its index. A message is processed under
`cs_main`; a step is one turn of its inner loop.

| Variable | Code |
|---|---|
| `mempool` | `mapTx` and `mapNextTx`, the second as a function from outpoint to spender |
| `mapOrphanTransactions` | the map of the same name |
| `mapOrphanTransactionsByPrev` | the map of maps, as pairs of a hash waited for and an orphan |
| `vWorkQueue`, `i`, `vEraseQueue` | the locals of the `tx` handler |
| `visited` | where the inner loop is, in any order: the code's order is that of hashes |
| `accepted`, `disturbed` | history, see the properties |

| Action | Code |
|---|---|
| `TxMessage` | 3589-3620 and 3657-3664, with `AddOrphanTx` and `LimitOrphanTxSize` (`StoreOrphanTx`) |
| `VisitOrphanTx`, `NextTxInQueue` | a turn of the inner, the end of a turn of the outer loop (3622-3655) |
| `CommitTransaction` | `wallet.cpp` 1770 and `rpcrawtransaction.cpp` 550 |
| `ReacceptWalletTransaction` | `wallet.cpp` 838-895: inputs unchecked |
| `Extend` | `SetBestChainInner` (1973-1974) |
| `Reorganize` | 1889-1946: the disconnected transactions enter first, inputs unchecked, then the connected ones leave |
| `Restart` | exit and start; pool and orphans are not on disk |

`accept` (638-787) is a few predicates: `Passes` (its tests without inputs),
`MissingInputs`, `InputConnects`. Fee, rate limit, times and scripts may refuse the
transactions in `Cheap` at any time. Replacement is disabled in the code
(680-681) and left out.

### How WalletTx corresponds to the code

`ConnectBlock` and `DisconnectBlock` tell the wallet of each transaction
(`SyncWithWallets`, 159-175) while the batch is still open, and the wallet
writes to its own database at once. So `WalletTx` extends `BlockChain`: each of
its steps is a step of the switch joined with what the wallet does in it, and a
switch that fails or dies leaves the wallet ahead of the chain.

| Variable | Code |
|---|---|
| `mapWallet` | `CWallet::mapWallet`: per transaction the block it is filed under (`hashBlock`) and the outputs marked in `vfSpent`. Every change is on disk with the call |
| `bestblock` | the locator in `wallet.dat`, as the block it was made for |
| `mempool` | `mapTx` |
| `starting` | what `AppInit2` still has to do: rescan, then reaccept |
| `undone`, `shaken`, `raced` | history, see the properties |

| Action | Code |
|---|---|
| `WalletConnectBlock`, `WalletDisconnectBlock` | the end of `ConnectBlock` (1840-1855) and `DisconnectBlock` (1690-1712) |
| `WalletTxnCommit`, `WalletPublish`, `WalletAbort` | what the commit does to the pool, the locator of `SetBestChain` (2043-2049), and the error returns |
| `WalletCrash`, `WalletLoadBlockIndex` | exit and start |
| `Rescan`, `Reaccept` | `init.cpp` 886-906 with `ScanForWalletTransactions`; `ReacceptWalletTransactions` |
| `FixSpentCoins` | `repairwallet`, which takes `cs_wallet` but not `cs_main` |
| `CommitTransaction`, `ReceiveTx` | a transaction made here, and one that arrives and concerns the wallet |

`Sync` stands for `AddToWalletIfInvolvingMe`, `AddToWallet` and
`WalletUpdateSpent` over the transactions of a block at once. Amounts are left
out: a coin is available or not.

### How WalletDB corresponds to the code

| Variable | Code |
|---|---|
| `handle` | the `CDB` objects, with the changes of the open transaction |
| `mapFileUseCount`, `mapDb` | the entries of the two maps for `wallet.dat`; an absent count is told from zero, since the flush thread does |
| `records` | what a read returns; `survivors`: every content the machine may come back with after a failure. A commit with `DB_TXN_WRITE_NOSYNC` adds one, a checkpoint leaves one |
| `onFile`, `selfContained`, `slack` | the file exists; it needs no log; deleted plain keys that its unused pages may hold |
| `nWalletDBUpdated`, `nLastSeen`, `nLastFlushed`, `quiet` | of `ThreadFlushWalletDB` |
| `crypted`, `encrypting` | `fUseCrypto`; where `EncryptWallet` is |
| `written`, `dropped`, `leaked` | history: what closed handles wrote, what `CDB::Rewrite` left nowhere, the handle that `EncryptWallet` did not delete |

| Action | Code |
|---|---|
| `OpenHandle`, `Write`, `TxnBegin`, `TxnCommit`, `TxnAbort`, `Close`, `Uncount` | `CDB` (`db.h`, `db.cpp` 249-344); `Close` makes its checkpoint before it takes `cs_db` to uncount |
| `FlushThreadSees`, `TwoSecondsPass`, `FlushWallet` | `ThreadFlushWalletDB` (`walletdb.cpp` 636-696) |
| `BackupWallet` | `walletdb.cpp` 698-736 |
| `EncryptWallet`, `EncryptKeys`, `CommitEncryption`, `NewKeyPool`, `EncryptWalletFails` | `wallet.cpp` 248-322 |
| `RewriteCopies`, `RewriteRemoves`, `RewriteRenames`, `RewriteGivesUp` | `CDB::Rewrite` (`db.cpp` 388-560) |
| `Shutdown`, `Exit`, `Crash`, `PowerFailure`, `LoadWallet` | `CDBEnv::Flush`, the ends of the process, and the next start |

A record is a key in plain, an encrypted key, the master key or something else.
A power failure leaves one of `survivors`; a crash of the process leaves what
was committed, which the operating system has. Berkeley DB is external: a
transaction is atomic, a checkpoint makes what is committed durable.

### How AddrMan corresponds to the code

`am` is the `CAddrMan` as a record of the members of the same names, with
entries, addresses and `vRandom` as in the code; `now` is a clock of one tick
per `Good`, so that `nLastSuccess` orders the tried entries. Actions: `Add`
(`Add_` with `Create` and `ShrinkNew`), `Good` (`Good_` with `MakeTried` and the
eviction from a full tried bucket, where `InspectTurn` is a turn of
`SelectTried`), `GetAddr` (its shuffle of `vRandom`, `Shuffled`), `Restart` (the
write and the read of `peers.dat`, `Loaded`). The bucket functions are constants,
`GetAddrPct` and `GetAddrMax` the limits of a reply to `getaddr`. Other times are left out, so that the entry which
`ShrinkNew` deletes may be any of the bucket; `Attempt_` and `Connected_` set
times only.

### How Relay corresponds to the code

Each node has `pool`, `orphans` and `asked` (`mapAlreadyAskedFor`), and per peer
`known`, `toSend`, `askFor`: the members of `CNode`. `chan` holds the messages in
flight, in order. `SendMessages` (4026-4110) puts together one `inv` and one
`getdata`; a transaction that is to trickle waits for its turn. `ProcessInv`,
`ProcessGetData` and `ProcessTx` are the three messages, the last with the orphans
it releases. `Disconnect` loses a connection with all that is in it and
`Reconnect` makes it again; `RelayWalletTransaction` is the wallet's, also when
it resends. Request times are kept relative to the clock, which keeps the state
finite.

Left out: the 15 minutes after which `mapRelay` forgets, the limit of orphans,
the 10000 entries of `setInventoryKnown`, blocks, and a connection that only one
end has lost. `Delivered` speaks of transactions relayed within these limits.

### How Connections corresponds to the code

`node` holds the `CNode` objects with where they are (`vNodes`,
`vNodesDisconnected`, deleted), their flags, references and slot; `opener`,
`socketHandler` and `messageHandler` say where each thread is and which copy of
`vNodes` it works on. A step is what runs under `cs_vNodes`, or up to the next
access to state that another thread uses without that lock: `nRefCount` in
`ConnectNode`, and `fHaveGrant` of a node's grant. `found`, `overtaken` and
`clashed` are history, see the properties. An object that was deleted is not
made again; what a thread reads of it is anything, what it writes to it is
dropped.

| Action | Code |
|---|---|
| `OpenNetworkConnection`, `ConnectFinds`, `ConnectAddsRef`, `ConnectNode`, `ConnectFails`, `SetNetworkNode` | `net.cpp` 1553-1583 and `ConnectNode` 473-535; `nRefCount++` for a node that is found runs without the lock and is a read and a write |
| `MoveToTests`, `MoveToReleases`, `MoveToGrants` | `CSemaphoreGrant::MoveTo` (`sync.h` 186-192), which runs without a lock: its `Release` reads `fHaveGrant`, posts and clears it, then it is set |
| `DisconnectNode`, `DisconnectReleases`, `DisconnectEnds` | one node of the loop at `net.cpp` 682-703, with the same two halves of `Release`; `cs_vNodes` is held, but does not keep out a `MoveTo` |
| `DeleteNodes` | `net.cpp` 707-737; the destructor of a node releases its grant |
| `AcceptConnection`, `SocketsCopied`, `SocketCloses`, `SocketsReleased` | the rest of `ThreadSocketHandler2` |
| `MessagesCopied`, `MessageDisconnects`, `MessagesReleased` | `ThreadMessageHandler2` |
| `ReleaseTimePasses` | the 15 minutes of `nReleaseTime` |

## 3. Runs

| Run | Shows |
|---|---|
| `MCBlockChain.cfg` | the properties of the block chain below, the refinement and the liveness property |
| `BlockChainMemory.cfg` | finding: `pindexBest` is published for a block that is not connected |
| `MCSyncCheckpoint.cfg` | the checkpoint properties |
| `MCOrphanBlocks.cfg` | the properties of block arrival |
| `MCMemPool.cfg` | the properties of the memory pool |
| `MCWalletTx.cfg` | the properties of the wallet's transactions (538 000 states) |
| `MCWalletDB.cfg` | the properties of the wallet file (306 000 states) |
| `WalletDBEncrypted.cfg` | finding: an encrypted wallet may keep its plain keys in unused pages |
| `MCAddrMan.cfg` | the properties of the address manager (990 000 states) |
| `MCRelay.cfg` | the properties of relay, two of them liveness (332 000 states) |
| `MCConnections.cfg` | the properties of nodes and slots (185 000 states) |
| `ConnectionsSlots.cfg` | finding: a disconnected node gets a slot that nothing releases |

The type predicates are not properties of runs, but for `CheckpointTypeOK`:
those of `BlockChain`, `OrphanBlocks`, `MemPool`, `WalletTx`, `WalletDB`,
`Connections`, `Relay` and `AddrMan` are proved.

**Instance of BlockChain.** Nine blocks in two branches with a side branch (drawn in
`MCBlockChain.tla`), trust chosen so that the best chain can move from one
branch to the other and back, that a switch disconnects and connects several
blocks, and that some are postponed. Two coinbases mature after two blocks;
one block spends an output created in the same block, one spends twice, one
spends too early. The reward halves inside the tree, so that the start-up check
finds bad blocks. `MaxFaults = 3` lets a refused or unreadable block be
followed by a crash in the next switch and another during recovery; a fourth
fault meets the states of the first three again, since every fault ends in
`idle`, `Publish` or `down` with nothing but `db` and memory left.

**Instance of SyncCheckpoint.** Seven blocks: one branch that holds a hardened
checkpoint, a lighter branch that forks below it, a side branch above it whose
tip `ConnectBlock` refuses. Messages name a block low on the main branch, its
tip, the fork and the refused tip, so that a checkpoint is extended, moves the
node to a lighter chain, conflicts, is pending and cannot be connected. No
transactions: what connecting does to the index is the other run's subject.
`MaxFaults = 2`: one fault to bring the node to a restart, one inside it.

**Instance of OrphanBlocks.** Seven blocks: three share a stake, one of them has
a child, and the two branches have different missing ancestors. Every block
but the genesis block may fail. That is enough for a chain of two orphans above
a missing block, for two orphans of one stake at once, and for a third that
comes after one of them has left. No bound is needed: the state is finite, and
restarts are unlimited.

**Instance of MemPool.** Six blocks in two branches above a coinbase, and six
transactions: `p` and `q` conflict and are each confirmed on one branch, `r` is
confirmed on both, `c`, `d` and `e` depend on `p` through up to three levels and `e`
waits for two parents. At most three orphans, so that one is evicted when four
would be held. No bound is needed: the state is finite.

**Instance of WalletTx.** Seven blocks: three branches above a block that
matured the wallet's coins, one of which ends in a refused block, so that a
switch is undone after the wallet heard of it. Two coinstakes compete for one
coin, a payment is on every branch, and its change is spent here and by another
copy of the wallet. `MaxFaults = 2`: a failure and a crash in the recovery.

**Instance of WalletDB.** A handle used under `cs_wallet`, one without it and the
one of the encryption; two keys and one that the new pool adds. Three updates
let the flush thread see a change, sleep, and meet another; the process ends
once. The encryption happens at most once in the life of a wallet.

**Instance of AddrMan.** Four addresses and two sources; new buckets of one entry
and a tried bucket of two, so that each overflows and an eviction from the tried
bucket meets a full new bucket. `GetAddr` shuffles three quarters of the
entries and at most two, so that the limit bites with four entries. Ids are
bounded by four (a restart gives them anew), the clock by three ticks.

**Instance of Relay.** Three nodes in a triangle, two transactions made by
different nodes, one of which spends the other, so that an orphan arises when
they overtake each other. One node is in its initial download (it asks at once);
one does not trickle. `Gap = 2` ticks is enough for a request to be due while
another is delayed, one connection is lost.

**Instance of Connections.** Three opening threads, one address, one object, two
outbound slots and one inbound connection. Two threads can hold a slot for one
node at once: one made it and the other found it, or both found it as an inbound
one, so that two `MoveTo` overlap, with each other and with the disconnection of
the node; the third waits for the slot. `ConnectionsSlots.cfg` has two objects
and two threads. The invariants, those of the proofs included, were also explored
completely with two objects, two threads, two slots and one inbound connection
(15.5 million states), where a thread goes on to a second node.

**Properties of BlockChain.**

- `BestChainIsValid`, `IndexMatchesBestChain`: the chain on disk is valid and
  the index is exactly its index, at every step, including every crash point.
- `LinksFollowBestChain`: `hashNext` on disk, and `pnext` in memory, are the
  links of the best chain and no others. Locators, `getblocks` and
  `IsInMainChain` rely on it.
- `BestIsHeaviest`: as long as nothing failed, no known chain that can be
  connected is heavier than the best chain, although trust is compared only
  when a block arrives.
- `ImplementsBestChain`: the database moves like `BestChain`: one atomic step
  to a heavier valid chain, or back along its own chain. `BestChain` allows the
  step back at any time; the code takes it at start-up.
- `SetBestChainReturns`: every call ends.

The properties about the database are conditional on `~diverged`. After the
finding `MemoryMatchesDisk` the node connects on top of a block that
the database does not hold, and the promises are void; the condition confines
this to the executions that begin another transaction in that state, and the
violation run shows that they exist.

**Properties of SyncCheckpoint.**

- `CheckpointOnBestChain`: the checkpoint, on disk and in memory, lies on the
  best chain at every commit. If it did not, `CheckSync` would refuse each block
  on top of the node's own tip. It is claimed only while no block was published
  unconnected and no start-up check moved the chain back (`unsettled`), and
  outside a reset (`resetDue`): in these cases it does fail.
- `CheckpointMovesForward`: the record changes only to a descendant, over any
  messages and restarts, except in a reset.
- `PendingIsTakenUp`: without faults and while not `unsettled`, a pending
  checkpoint whose block arrived and connects does not stay pending. Once a block
  was published unconnected, `SetBestChain` starts from the wrong block and may
  refuse the checkpoint's.
- `PendingDescends`: a pending checkpoint whose block is in the index descends
  from the one in force; the rejection in `AcceptPendingSyncCheckpoint` is never
  taken.
- `RelayedCheckpointIsCurrent`: the message sent to a peer that connects is that
  of the checkpoint in force, or none is sent.

**Properties of OrphanBlocks.**

- `OrphanWaitsForParent`: between two calls, an orphan waits for a block that
  the node does not have, or whose `AcceptBlock` returned false: the work queue
  misses none, through any number of levels.
- `OrphanMapsAgree`: the two maps hold the same blocks; deleted ones are left
  in the second only under the block the loop is at.
- `StakeSeenIsHeld`: no stake stays marked when its last orphan is gone.
- `WantedIsLetIn`: the limit on stakes never refuses the block an orphan waits
  for, neither as a block nor as an orphan in its turn.
- `OrphanIsReleased`: an orphan is released in the end unless an ancestor fails.

**Properties of MemPool.**

- `PoolSpendsOnce`: no two transactions in the pool spend one output, and
  `mapNextTx` says exactly who spends what, although `Reorganize` puts
  transactions back unchecked and `remove` erases outpoints without asking whose.
- `PoolNotInChain`: nothing in the pool is confirmed. Otherwise the miner would
  build a block that `ConnectBlock` refuses.
- `OrphanTxMapsAgree`, `OrphanTxsLimited`: the two maps agree, whatever is evicted.
- `AcceptedReleasesOrphans`: a message leaves no orphan behind that spends what the
  message brought into the pool and has all its inputs. (An orphan whose parent
  enters the pool another way, by `CommitTransaction` or `Reorganize`, does stay:
  the code looks for orphans only in the `tx` handler.)
- `PoolConnectsWhileGrowing`: inputs of pool transactions are in the chain or the
  pool until a block is disconnected or a transaction taken in unchecked
  (`disturbed`). After that it may fail, see below. With the heavier chain only: `q` is in the
  pool when a block with `p` is connected; `remove` leaves `q`; `c`, which spends
  `p`, comes in; the branch with `q` becomes heavier; `p` is refused because of
  `q`, then `q` leaves, and `c` has no input.

**Properties of WalletTx.**

- `WalletKnowsChain`: at every moment, crash points included, the wallet has
  every transaction of its own on the committed chain, because it is told before
  the commit; and between two switches under the right block.
- `SpentIsMarked`: between two switches each coin the chain spends is marked, so
  that it is not offered again. Not after a switch that was undone and not
  repaired since (`undone`), nor after a repair in the middle of a switch
  (`raced`): there it fails.
- `CoinNotLost`: a coin marked spent is spent by a transaction that is on the
  chain or may still get there. The coinstakes of a branch that was left cannot,
  and `DisableTransaction` unmarks what they spent.

  The last two do not judge what the code leaves wrong: the marks of a switch that
  was aborted (`undone`, or once `shaken`), of a repair that met an open switch
  (`raced`), and of a payment that the pool refused after it was recorded, which
  "may still get there" as long as the wallet offers it.

**Properties of WalletDB.**

- `OpenHandleHasDb`: no handle ever points to a closed `Db`, although the flush
  thread, a backup, a rewrite and a shutdown close it by looking at a count only.
- `ClosedIsDurable`: what went through a handle that is closed survives a power
  failure, although no commit is synced, but for the records that `CDB::Rewrite`
  drops.
- `KeysSurvive`: however `EncryptWallet` is cut short, and after `CDB::Rewrite` has
  replaced the file, all keys come back plain without a master key or all
  encrypted with one, as long as `CDB::Rewrite` drops no key.
- `FlushesWhenIdle`: an updated file that nobody uses is made self-contained.

  `CDB::Rewrite` drops records in two ways, which `dropped` remembers. The copy
  lacks the first record, since the loop reads on after `DB_FIRST` (`db.cpp` 454,
  467): a transaction, or a key in a wallet without any. And a process that ends
  between the removal of `wallet.dat` and the renaming of its copy (547-551) leaves
  no `wallet.dat`, and nothing looks for the copy: all records are dropped. Nothing
  is claimed of the keys in these two cases.

**Properties of AddrMan.**

- `CheckPasses`: `Check_`, which the code runs only under `DEBUG_ADDRMAN`,
  never fails: reference counts, flags, counters, `vRandom`, the address map and
  the buckets agree after any sequence of calls.
- `BucketsBounded`: no bucket outgrows its size; the place that `MakeTried`
  takes for granted is there.
- `TriedNeverDeleted`: no call loses a tried address.
- `DumpIsFaithful`: reading back `peers.dat` gives the same addresses in the
  same buckets, in every state.

**Properties of Relay.**

- `AnsweredOnce`: over one connection a transaction is in one stage only, so it
  crosses it once, however often the wallet relays it again.
- `Delivered`: what a node has listed for a peer gets there, by this connection
  or another, in spite of delayed requests and a lost connection.
- `DiesOut`: the queues and the connections become empty for good.

**Properties of Connections.**

- `NotDeletedInUse`: no node is deleted while a handler has it in its copy or an
  opening thread points to it.
- `SlotsConserved`: every slot is free, with a thread or with a node, once, until
  two threads are inside one grant (`clashed`); and the only nodes where that can
  happen are those that a second thread found in `vNodes`. The second part is the
  one that takes several steps to see: a thread that made its node is alone in
  the node's grant although `MoveTo` runs without a lock, because the grant is
  empty until `MoveTo` sets it, so that neither `Release` does anything, and
  because the reference of the node is not given up before.
- `DisconnectedIsDeleted`: a disconnected node is deleted in the end.

  The first and the last except nodes that a second thread found (`found`), the
  last also those that were disconnected before their opener was done
  (`overtaken`, see the finding `DisconnectedHasNoSlot`). In these cases the
  counts are wrong. None of the exceptions can be left out: without it TLC finds
  a counterexample.

**Disagreements between code and comments.** The findings of `PROJECT.json`
have a run each. Others were met while modelling and are in the models as the
code has them:

- 2284: `CheckBlock` compares the coinbase with the reward at the height of
  `pindexBest`, although it is said (2243-2244) to be independent of context. The
  start-up check repeats it for blocks accepted before a halving.
- `txdb-leveldb.cpp` 462: a local `bnBestInvalidTrust` shadows the global, which
  is zero after each start.
- 2546: `setStakeSeenOrphan` loses a stake with the first orphan that leaves,
  also while another with it is held, so that a third is let in without the
  orphan child that the comment at 2506 asks for.
- 2543: orphans of a block that is in the index, but for which `AcceptBlock`
  returned false, stay held for good.
- 2837: the new checkpoint key is committed before the reset; a reset that fails
  is not repeated, although 2827 says that a changed key must reset.
- 1942: `CreateNewBlock` expects the inputs of a pool transaction in the chain or
  the pool. The history under `PoolConnectsWhileGrowing` shows otherwise.
- `wallet.cpp` 2220: `repairwallet` runs without `cs_main`
  (`cryptobullionrpc.cpp` 306) and can mark by an index that is being replaced.
- `wallet.cpp` 1772, "This must not fail": `AcceptToMemoryPool` does refuse a
  transaction whose input an unknown spend in the pool has taken, after it was
  recorded.
- `net.h` 333, "Each retry is 2 minutes after the last": each announcement by
  another peer adds two minutes to the next request, whether or not one was sent.
- `addrman.cpp` 129-146: `SelectTried` is to find the least recently tried of the
  entries it shuffles to the front, but returns the position that the entry had
  before the swap; another entry is evicted. `TriedNeverDeleted` and
  `CheckPasses` hold all the same.
- `net.cpp` 839-846: over the limit of inbound connections, the socket of an
  `-addnode` address is neither closed nor given to a node.
- `net.cpp` 484: `nRefCount++` for a node found by two threads runs outside
  `cs_vNodes`; such a node may be deleted too early or never.
- `net.cpp` 1575: `MoveTo` (`sync.h` 186) runs without a lock. Two threads that
  have one node may both read `fHaveGrant` as false and both set it: a slot is
  lost. Or one of them, and the socket handler at 692, both read it as true and
  both post: a slot too many. `SlotsConserved` ends there.

**Fairness.** `WF_vars(Step)`: the thread that holds `cs_main` goes on to the
next step of a switch. Nothing is assumed of arrivals, failures, crashes or
restarts. `SyncCheckpoint` and `MemPool` state safety only and assume no fairness.
`OrphanBlocks` has `WF_vars(WorkQueue)`, since `ProcessBlock` runs its loop to
the end under `cs_main`, and `WF_vars(Answer(b))`: the peer answers a request.
The code cannot guarantee the second; `OrphanIsReleased` says what the node
achieves with a peer that does.
`WalletTx` and `AddrMan` state safety only. `WalletDB` has `WF_vars(FlushThread)`:
the thread wakes up twice a second, and its `TRY_LOCK` of `cs_db` succeeds while
nobody uses the file.
`Relay` has weak fairness of each peer's turn in `ThreadMessageHandler`, sending
with trickle included, since the peer to trickle to is drawn at random again
and again, and of the clock; none of lost or new connections.
`Connections` has weak fairness of the loops of the two handlers and of the
clock, and none of the opening threads, which may hang in `connect`.
`CHECK_DEADLOCK FALSE`, because a node that knows all blocks of the instance
and has used up its faults rests.

## 4. Proofs

Assumptions: the named `ASSUME`s of `BlockTree`, `TxIndex`, `BlockChain`,
`SyncCheckpoint`, `OrphanBlocks`, `MemPool`, `WalletTx`, `WalletDB`, `Connections`,
`Relay` and `AddrMan`: the tree is a tree, trust grows, no transaction repeats on a
chain, bounds are numbers, threads, handles, relayed transactions and new buckets
are finitely many, sizes of buckets are not zero, a percentage is at most 100,
the hardened checkpoints are a finite table (`checkpoints.cpp`), and the genesis
block holds coinbases only (2771-2782). TLC evaluates them on every run.

1. `TxIndexProofs`, on the block tree: induction over it (`TreeInduction`, from a
   least-height argument), and what `Chain` and `NextOnChain` are at a child.
2. `TxIndexProofs`, on the index: `ConnectExtends` and `DisconnectInverts`:
   connecting and disconnecting take `IndexOfChain` of a block to that of its
   child and back; `ConnectValid`: a block that passes the tests extends a valid
   chain.
3. `BlockChainProofs`: the inductive invariant `IInv`. `BestChainIsValid` and
   `IndexMatchesBestChain` are not inductive, because they say nothing of the
   batch that a commit makes the database. `IInv` is the conjunction of
   `TypeOK`; `IndexInv` (memory and disk know the same blocks, closed under
   parent, the best blocks among them); `CallInv` (`pindexNew`, `goal`, `base`
   and `cursor` fit the phase); `BatchInv` (there is a batch exactly while a
   transaction is open, and it knows the blocks the database knows); `ChainInv`
   (unless `diverged`, the database stands at a valid chain with its index, and
   the batch at `cursor` with the index of its chain); `LinksInv` (the same of the
   links: `LinksOf` the best chain on disk and in memory, of `cursor` in the
   batch). TLC agrees with `IInv` on the instance.

   `IInv` does not say why a switch was begun. That is `TrustInv`: the goal is
   heavier than what is committed or lies on its chain. It is kept apart because
   a checkpoint breaks it and nothing else of `IInv`. `HeaviestInv` adds that,
   while nothing failed, `pindexNew` is the only known block that may be heavier
   than the best one; a block is refused only if its chain does not connect, never
   for what the open batch holds (`RefusedDoesNotConnect`). One lemma per action; then

   - `TypeCorrect`: `Spec => []TypeOK`
   - `BestChainAlwaysValid`: `Spec => []BestChainIsValid`
   - `IndexAlwaysMatches`: `Spec => []IndexMatchesBestChain`
   - `LinksAlwaysFollow`: `Spec => []LinksFollowBestChain`
   - `BestAlwaysHeaviest`: `Spec => []BestIsHeaviest`
   - `BlockChainImplementsBestChain`: `Spec => ImplementsBestChain`

4. `SyncCheckpointProofs`: the invariant `CheckpointInv` says what a handler
   that waits for `SetBestChain` relies on when it goes on: the checkpoint in
   memory is the recorded one, the block it asked for descends from it, and the
   pending message names the pending block. The steps of a switch leave all of
   this alone, so the proof needs only their guards, and nothing of `IInv`.
   From it, `CheckpointAlwaysMovesForward` (`CheckpointSpec =>
   CheckpointMovesForward`) and `RelayedCheckpointAlwaysCurrent`
   (`CheckpointSpec => []RelayedCheckpointIsCurrent`).

   The rest needs the chain below. `CheckpointIInvHolds` carries `IInv` over, as
   a switch to a checkpoint is one of `BlockChain` but for its reason.
   `CheckpointOnBestChain` is not inductive: an intermediate commit may leave the
   checkpoint behind unless it lies on what the switch leads to. `RecordInv` says
   that the recorded checkpoint lies on the chains of `pindexBest`, `pindexNew`
   and `goal`, which `CheckSync` gives for a block that arrives, and `SettledInv`
   that a transaction starts from the committed block. `PendingInv` and
   `CallerInv` say what is pending or asked for while a handler waits;
   `TakenUpInv` that a pending checkpoint whose block is there is on its way. From
   these `CheckpointTypeCorrect`, `CheckpointAlwaysOnBestChain`,
   `PendingAlwaysDescends` and `PendingAlwaysTakenUp`: every property of the run
   `sync_checkpoint`.

5. `OrphanBlocksProofs`: `OrphanWaitsForParent` is not inductive, since while
   the loop runs an orphan may be held whose parent was just accepted. The
   invariant `OrphanInv` says that the parent is then in `vWorkQueue`
   (`OrphanTurns`). `WantedIsMissing` shows that the walk of `WantedByOrphan`
   ends at a block that is no orphan and has an orphan child. Together they give
   `OrphanTypeCorrect`, `OrphanAlwaysWaitsForParent`, `OrphanMapsAlwaysAgree`
   and `WantedAlwaysLetIn`, for every tree, every assignment of stakes and every
   choice of failures.

6. `MemPoolProofs`: `PoolInv` joins the properties of the pool with the validity of the chain at
   `best`. Two facts about the tree carry `Reorganize`: on a valid chain no
   output is spent twice (`ValidChainSpendsOnce`), so that a whole branch may go
   back to the pool at once; and no transaction of the branch that is left is on
   the part of the chain that stays (`BranchesShareNothing`, from
   `NoRepeatAssumption`). `ReleaseInv` carries the loop: an orphan that spends what was
   accepted is to be erased, lacks another input, or has a turn to come
   (`Pending`). From these `PoolTypeCorrect`, `PoolAlwaysSpendsOnce`, `PoolNeverInChain`,
   `OrphanTxMapsAlwaysAgree`, `AcceptedAlwaysReleasesOrphans` and
   `PoolAlwaysConnectsWhileGrowing`: every property of the run `mem_pool`.

7. `WalletDBProofs`, for any finite set of handles. `OpenHandleHasDb` is not
   inductive: the flush thread closes the `Db` because the count is zero, so the
   count has to be exact. `UseInv` adds `UseCountIsExact` (every counted handle,
   and one that `EncryptWallet` leaked, is in the count), `HandleIsCounted` (a
   handle with a `Db` is counted, also between the two halves of `Close`),
   `EncryptionIsOpen` and `StoppedIsClosed`. `DurableInv` carries the other two:
   only the encryption's transaction touches keys (`HandlesWriteTxs`), what it
   holds is the complete exchange or none of it (`KeysAgree`), and what a handle
   logged is in the records until its checkpoint. It goes through the rewrite:
   the copy keeps the keys unless the record it lacks is one. Theorems
   `WalletDBTypeCorrect`, `DbStaysOpenWhileUsed`, `ClosedStaysDurable`,
   `KeysAlwaysSurvive`; the last says nothing of a crash between the removal and
   the renaming, nor of a wallet whose first record is a key.

8. `WalletTxProofs`. What the wallet holds is said of a block: it `Knows` its
   transactions of the block's chain, `Places` them, `Marks` the coins the chain
   spends, and what it marks is `Backed` by a transaction that can still be
   confirmed. `TracksInv` says this of `Point`: `cursor` while a switch is under
   way, since the wallet is told block by block, and the committed block
   otherwise; `Knows` holds of the committed block too, which is what a crash
   leaves. The properties are not inductive without it, as they say nothing of
   the middle of a switch. `StartInv` covers the switch that `LoadBlockIndex` makes
   before the wallet is registered, which it is not told of: it goes back along
   the chain. The lemmas: telling the wallet of a block takes all four to the
   block (`SyncBlockExtends`); undoing the coinstakes of a block takes them to its
   parent (`DisableStakesShrinks`); a rescan starts at a block of the chain
   (`RescanFromOnChain`) and loses nothing (`ScanKeeps`); a repair by the index
   marks exactly what the chain spends (`RepairedKeeps`, `RepairedMarks`).
   Theorems `WalletTypeCorrect`, `WalletAlwaysKnowsChain`, `SpentAlwaysMarked` and
   `CoinNeverLost`: every property of the run `wallet_tx`, over every tree, any
   number of crashes and any interleaving with a switch.

9. `NetworkProofs`, on connections, for any number of nodes, threads and slots.
   None of the invariants is inductive. `PointersInv` says where the threads
   point. `NodeInv` says what `nRefCount` counts, for each of the places a node can
   be in, and that a node which nobody found has one opener, with an empty grant
   until its `MoveTo` is done. `GrantInv` says, of a node where no two threads
   clashed, that at most one thread is inside its grant, and that what it read
   there still holds when it writes; with it the count of slots is inductive
   (`SlotsInv`). That `clashed` stays within `found` needs both (`NextClashed`): a
   second thread in the grant, or one that releases it, would be a second opener,
   and a deleted node one whose count reached zero under its opener. Theorems
   `ConnInvHolds`, `ConnectionsTypeCorrect`, `SlotsAlwaysConserved` and
   `NeverDeletedInUse`.

10. `NetworkProofs`, on relay, for any number of nodes and transactions and any
    lost connections. `AnsweredOnce` counts; `OneStage` says the same without
    counting, and is inductive with `LinkInv` (nobody is connected with itself,
    so that the two directions of a connection are different channels).
    Three lemmas on sequences carry it: what taking off the head (`TailBears`),
    appending (`ConcatBears`) and the answers to one getdata (`AnswerBears`) do to
    the places where a transaction occurs. Theorems `RelayTypeCorrect` and
    `AlwaysAnsweredOnce`.

11. `NetworkProofs`, on the address manager, for any addresses, bucket functions
    and sizes of buckets. `CheckPasses` is not inductive: it does not say in which
    tried bucket an entry is, nor that it is there once, nor that `mapAddr` and
    `vRandom` hold nothing besides the entries, all of which an eviction, a deletion
    by swap with the last and a renumbering rely on. `Consistent` does, in parts:
    `Indexed` (`mapInfo` against `mapAddr` and `vRandom`, both ways), `NewFiled`,
    `TriedFiled`, `Counted` and `Bounded`. Its second parameter is the entry that
    `Add_` has counted a reference of and not filed yet, while `ShrinkNew` makes
    room. `AddrManInv` says it of `am` with no such entry, between calls; TLC agrees
    on the instance. There is a lemma for each helper of the code (`CreateKeeps`,
    `DeleteKeeps`, `ShrinkKeeps`, `LeaveKeeps`, `EvictKeeps`, ...). That an
    evicted entry finds room is `BackBucketHasRoom`: if its own new bucket is full,
    the one that the new tried entry left is not.

    The two shuffles are loops. All that is needed of them is that a turn keeps
    something (each swap keeps `Indexed`; a turn of `SelectTried` permutes the
    bucket and keeps the picked position inside it), so that the turns up to which
    it holds are a set with 0 and with the successors of its members:
    `TurnInduction`, from the well-foundedness of finite sets, instead of the
    induction theorems with an operator as parameter. That `Loaded` renumbers is a
    bijection between the entries and `0 .. nNew + nTried - 1` (`RankBijective`,
    `OldIdsRename`); the rest of the read is said relative to it. Theorems
    `AddrManTypeCorrect`, `CheckAlwaysPasses`, `BucketsAlwaysBounded`,
    `DumpAlwaysFaithful` and `TriedAreNeverDeleted`: every property of the run
    `addr_man`.

Only model-checked: the liveness properties `SetBestChainReturns`,
`OrphanIsReleased`, `FlushesWhenIdle`, `Delivered`, `DiesOut` and
`DisconnectedIsDeleted` (under fairness, which the prover does not handle). Every
safety property of a passing run is a theorem.

## 5. Not modelled, and why

The components table of `PROJECT.json` lists every part. Left out for good:
cryptography, script evaluation, amounts and fees (their verdicts are
constants), sockets, formatting, the user interface, vendored libraries.
LevelDB is taken at its word: a batch is written as a whole or not at all.
Within BlockChain: creation of the genesis block on the first
start and a failed commit of `AddToBlockIndex` (2207-2219). Within
SyncCheckpoint: signatures, the test net and `-nosynccheckpoints`;
`AutoSelectSyncCheckpoint` and `SendSyncCheckpoint` are called from nowhere.
Within OrphanBlocks: blocks without a sending peer (import, minter), the initial
download and `PushGetBlocks`. Within MemPool: a switch that fails half-way (it
leaves the pool alone) and `CreateNewBlock`. Within WalletTx: amounts, fees and
the choice of coins, accounts and the address book, the key pool. Within
WalletDB: salvage and upgrade of a wallet. Within AddrMan: the weights by which
`Select_` chooses. Within Connections: bans, `-connect`, a shutdown.

Not modelled at all: the script interpreter and the stake kernel (computation
with cryptography inside), the miner's search, alerts (sequential, under one
lock), the RPC commands and the user interface (they call the parts above and
keep no state that the others read), LevelDB and the other vendored libraries.

## 6. Plan

1. The key pool (reserve, keep, return, restart), and the overlay of `CTxDB`
   shown to implement an atomic map with rollback.
