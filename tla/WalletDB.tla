------------------------------ MODULE WalletDB ------------------------------
(***************************************************************************)
(* wallet.dat in its Berkeley DB environment (db.h, db.cpp, walletdb.h,    *)
(* walletdb.cpp) and CWallet::EncryptWallet (wallet.cpp), which rewrites   *)
(* it.  CDB handles of several threads share one Db; a use count tells the *)
(* flush thread, a backup and CDB::Rewrite when they may close it.         *)
(*                                                                         *)
(* Whoever holds cs_db does so for one step, except CDB::Rewrite, which    *)
(* keeps it until it returns.  A handle of WalletHandles is only opened    *)
(* under cs_wallet, which EncryptWallet holds until it returns; two of     *)
(* them open at once are nested calls of the thread that holds it.         *)
(***************************************************************************)
EXTENDS Integers, FiniteSets

CONSTANTS
    WalletHandles, \* CWalletDB objects used under cs_wallet
    FreeHandles,   \* those used without it (SetBestChain, options, start-up)
    Encryption,    \* the object pwalletdbEncryption points to
    Txs,           \* records other than keys: sorted before every key
    Keys,          \* keys of the wallet when it is created
    NewKeys,       \* keys that NewKeyPool adds
    MaxUpdates,    \* bound on nWalletDBUpdated
    MaxStops       \* bound on the number of times that the process ends

Handles == WalletHandles \cup FreeHandles \cup {Encryption}

ASSUME WalletDBAssumption ==
    /\ IsFiniteSet(Handles)
    /\ Encryption \notin WalletHandles \cup FreeHandles
    /\ MaxUpdates \in Nat /\ MaxStops \in Nat

\* The records: "tx" and the like, "key", "ckey" and "mkey".
Tx(t) == <<"tx", t>>
Plain(k) == <<"key", k>>
Crypted(k) == <<"ckey", k>>
MasterKey == <<"mkey", Encryption>>
TxRecords == {Tx(t) : t \in Txs}
PlainKeys == {Plain(k) : k \in Keys}
CryptedKeys == {Crypted(k) : k \in Keys \cup NewKeys}
Record == TxRecords \cup PlainKeys \cup CryptedKeys \cup {MasterKey}

Absent == -1

VARIABLES
    handle,           \* of a CDB: pdb and the transaction, see HandleState
    mapFileUseCount,  \* of wallet.dat, Absent if it has no entry
    mapDb,            \* wallet.dat has an open Db
    records,          \* what a read of the database returns
    survivors,        \* what a read may return after the machine has failed
    onFile,           \* wallet.dat exists
    selfContained,    \* wallet.dat needs no log: see CheckpointLSN
    slack,            \* private keys that unused pages of wallet.dat may hold
    nWalletDBUpdated,
    nLastSeen, nLastFlushed,  \* of ThreadFlushWalletDB
    quiet,            \* its two seconds without an update are over
    crypted,          \* fUseCrypto, in memory
    encrypting,       \* where EncryptWallet is
    fShutdown,
    running,
    stops,            \* how often the process has ended
    written,          \* history: records put through handles closed since
    dropped,          \* history: records that CDB::Rewrite left nowhere
    leaked            \* history: EncryptWallet returned without deleting
                      \* pwalletdbEncryption, in this run of the process

disk == <<records, survivors, onFile, selfContained, slack>>
flusher == <<nLastSeen, nLastFlushed, quiet>>
process == <<fShutdown, running, stops>>
history == <<written, dropped, leaked>>
vars == <<handle, mapFileUseCount, mapDb, disk, nWalletDBUpdated, flusher,
          crypted, encrypting, process, history>>

Closed == [pdb |-> FALSE, counted |-> FALSE, fReadOnly |-> FALSE,
           activeTxn |-> FALSE, puts |-> {}, dels |-> {}, log |-> {}]

\* puts and dels are what the transaction changes, log what the handle put
\* outside of one or committed.
HandleState ==
    [pdb : BOOLEAN, counted : BOOLEAN, fReadOnly : BOOLEAN,
     activeTxn : BOOLEAN, puts : SUBSET Record, dels : SUBSET PlainKeys,
     log : SUBSET Record]

\* The type of every variable.
WalletDBTypeOK ==
    /\ handle \in [Handles -> HandleState]
    /\ mapFileUseCount \in Nat \cup {Absent}
    /\ mapDb \in BOOLEAN
    /\ records \subseteq Record
    /\ survivors \subseteq SUBSET Record
    /\ onFile \in BOOLEAN /\ selfContained \in BOOLEAN
    /\ slack \subseteq PlainKeys
    /\ nWalletDBUpdated \in Nat /\ nLastSeen \in Nat /\ nLastFlushed \in Nat
    /\ quiet \in BOOLEAN
    /\ crypted \in BOOLEAN
    /\ encrypting \in {"no", "keys", "pool", "rewrite", "copied", "removed"}
    /\ fShutdown \in BOOLEAN /\ running \in BOOLEAN /\ stops \in Nat
    /\ written \subseteq Record /\ dropped \subseteq Record
    /\ leaked \in BOOLEAN

Init ==
    /\ handle = [h \in Handles |-> Closed]
    /\ mapFileUseCount = 0 /\ mapDb = TRUE
    /\ records = PlainKeys /\ survivors = {records}
    /\ onFile = TRUE /\ selfContained = FALSE /\ slack = {}
    /\ nWalletDBUpdated = 0 /\ nLastSeen = 0 /\ nLastFlushed = 0 /\ quiet = FALSE
    /\ crypted = FALSE /\ encrypting = "no"
    /\ fShutdown = FALSE /\ running = TRUE /\ stops = 0
    /\ written = {} /\ dropped = {} /\ leaked = FALSE

-----------------------------------------------------------------------------

\* Nobody holds cs_db from one step to the next but CDB::Rewrite.
csDbFree == encrypting \notin {"copied", "removed"}

csWalletFree == encrypting = "no"

Unused == mapFileUseCount \in {Absent, 0}

Increment == IF mapFileUseCount = Absent THEN 1 ELSE mapFileUseCount + 1

\* A commit with DB_TXN_WRITE_NOSYNC: a failure of the machine may undo it.
Commit(puts, dels) ==
    /\ records' = (records \ dels) \cup puts
    /\ survivors' = survivors \cup {records'}
    /\ slack' = slack \cup (dels \cap records \cap PlainKeys)
    /\ selfContained' = (selfContained /\ puts \cup dels = {})

\* txn_checkpoint: what is committed reaches the file.
Checkpoint == survivors' = {records}

Updated(n) ==
    /\ nWalletDBUpdated + n <= MaxUpdates
    /\ nWalletDBUpdated' = nWalletDBUpdated + n

-----------------------------------------------------------------------------

\* CDB::CDB.
OpenHandle(h) ==
    /\ running /\ csDbFree
    /\ handle[h] = Closed
    /\ h \in FreeHandles \/ (h \in WalletHandles /\ csWalletFree)
    /\ \E readOnly \in BOOLEAN :
          handle' = [handle EXCEPT ![h] = [Closed EXCEPT
                        !.pdb = TRUE, !.counted = TRUE, !.fReadOnly = readOnly]]
    /\ mapFileUseCount' = Increment
    /\ mapDb' = TRUE
    /\ UNCHANGED <<disk, nWalletDBUpdated, flusher, crypted, encrypting, process, history>>

\* CWalletDB::WriteTx and the like, by CDB::Write.
Write(h, t) ==
    /\ running /\ h # Encryption
    /\ handle[h].pdb /\ ~handle[h].fReadOnly
    /\ Updated(1)
    /\ IF handle[h].activeTxn
       THEN /\ handle' = [handle EXCEPT ![h].puts = @ \cup {Tx(t)}]
            /\ UNCHANGED disk
       ELSE /\ handle' = [handle EXCEPT ![h].log = @ \cup {Tx(t)}]
            /\ Commit({Tx(t)}, {}) /\ UNCHANGED onFile
    /\ UNCHANGED <<mapFileUseCount, mapDb, flusher, crypted, encrypting, process, history>>

TxnBegin(h) ==
    /\ running /\ h # Encryption
    /\ handle[h].pdb /\ ~handle[h].fReadOnly /\ ~handle[h].activeTxn
    /\ handle' = [handle EXCEPT ![h].activeTxn = TRUE]
    /\ UNCHANGED <<mapFileUseCount, mapDb, disk, nWalletDBUpdated, flusher, crypted,
                   encrypting, process, history>>

NoTxn(s) == [s EXCEPT !.activeTxn = FALSE, !.puts = {}, !.dels = {}]

TxnCommit(h) ==
    /\ running /\ h # Encryption
    /\ handle[h].pdb /\ handle[h].activeTxn
    /\ handle' = [handle EXCEPT ![h] =
                    [NoTxn(handle[h]) EXCEPT !.log = @ \cup handle[h].puts]]
    /\ Commit(handle[h].puts, handle[h].dels)
    /\ UNCHANGED <<mapFileUseCount, mapDb, onFile, nWalletDBUpdated, flusher, crypted,
                   encrypting, process, history>>

TxnAbort(h) ==
    /\ running /\ h # Encryption
    /\ handle[h].pdb /\ handle[h].activeTxn
    /\ handle' = [handle EXCEPT ![h] = NoTxn(@)]
    /\ UNCHANGED <<mapFileUseCount, mapDb, disk, nWalletDBUpdated, flusher, crypted,
                   encrypting, process, history>>

\* Mutant: every handle is closed like a read-only one.
CloseWithoutCheckpoint(h) ==
    /\ running /\ h # Encryption /\ handle[h].pdb
    /\ handle' = [handle EXCEPT ![h] = [NoTxn(@) EXCEPT !.pdb = FALSE]]
    /\ written' = written \cup handle[h].log
    /\ UNCHANGED <<mapFileUseCount, mapDb, disk, nWalletDBUpdated, flusher, crypted,
                   encrypting, process, dropped, leaked>>

\* CDB::Close up to the checkpoint, which a read-only handle only does when
\* the last one is a minute old.
Close(h) ==
    /\ running /\ h # Encryption /\ handle[h].pdb
    /\ handle' = [handle EXCEPT ![h] = [NoTxn(@) EXCEPT !.pdb = FALSE]]
    /\ Checkpoint \/ (handle[h].fReadOnly /\ UNCHANGED survivors)
    /\ written' = written \cup handle[h].log
    /\ UNCHANGED <<mapFileUseCount, mapDb, records, onFile, selfContained, slack,
                   nWalletDBUpdated, flusher, crypted, encrypting, process, dropped, leaked>>

\* The rest of CDB::Close.
Uncount(h) ==
    /\ running /\ csDbFree
    /\ handle[h].counted /\ ~handle[h].pdb
    /\ handle' = [handle EXCEPT ![h] = Closed]
    /\ mapFileUseCount' = mapFileUseCount - 1
    /\ UNCHANGED <<mapDb, disk, nWalletDBUpdated, flusher, crypted, encrypting, process,
                   history>>

-----------------------------------------------------------------------------

\* CloseDb, CheckpointLSN and the end of the entry in mapFileUseCount.
FlushFile ==
    /\ mapDb' = FALSE
    /\ Checkpoint /\ selfContained' = TRUE
    /\ mapFileUseCount' = Absent
    /\ UNCHANGED <<records, onFile, slack>>

\* ThreadFlushWalletDB sees a new value of nWalletDBUpdated.
FlushThreadSees ==
    /\ running /\ ~fShutdown
    /\ nLastSeen # nWalletDBUpdated
    /\ nLastSeen' = nWalletDBUpdated /\ quiet' = FALSE
    /\ UNCHANGED <<handle, mapFileUseCount, mapDb, disk, nWalletDBUpdated, nLastFlushed,
                   crypted, encrypting, process, history>>

TwoSecondsPass ==
    /\ running /\ ~fShutdown
    /\ ~quiet /\ quiet' = TRUE
    /\ UNCHANGED <<handle, mapFileUseCount, mapDb, disk, nWalletDBUpdated, nLastSeen,
                   nLastFlushed, crypted, encrypting, process, history>>

\* Mutant: the use count is not looked at.
FlushesInUse ==
    /\ running /\ ~fShutdown /\ csDbFree
    /\ quiet /\ nLastFlushed # nWalletDBUpdated
    /\ mapFileUseCount # Absent
    /\ FlushFile
    /\ nLastFlushed' = nWalletDBUpdated
    /\ UNCHANGED <<handle, nWalletDBUpdated, nLastSeen, quiet, crypted, encrypting, process,
                   history>>

\* Mutant: nLastFlushed is set before the use count is looked at.
FlushesLater ==
    /\ running /\ ~fShutdown /\ csDbFree
    /\ quiet /\ nLastFlushed # nWalletDBUpdated
    /\ nLastFlushed' = nWalletDBUpdated
    /\ IF mapFileUseCount = 0
       THEN FlushFile
       ELSE UNCHANGED <<mapFileUseCount, mapDb, disk>>
    /\ UNCHANGED <<handle, nWalletDBUpdated, nLastSeen, quiet, crypted, encrypting, process,
                   history>>

\* ThreadFlushWalletDB flushes.
FlushWallet ==
    /\ running /\ ~fShutdown /\ csDbFree
    /\ quiet /\ nLastFlushed # nWalletDBUpdated
    /\ mapFileUseCount = 0
    /\ FlushFile
    /\ nLastFlushed' = nWalletDBUpdated
    /\ UNCHANGED <<handle, nWalletDBUpdated, nLastSeen, quiet, crypted, encrypting, process,
                   history>>

\* BackupWallet, in the pass of its loop that finds the file unused; the copy
\* it then makes is left out.
BackupWallet ==
    /\ running /\ ~fShutdown /\ csDbFree
    /\ Unused
    /\ FlushFile
    /\ UNCHANGED <<handle, nWalletDBUpdated, flusher, crypted, encrypting, process, history>>

-----------------------------------------------------------------------------

\* EncryptWallet: pwalletdbEncryption is created, and its transaction begun.
EncryptWallet ==
    /\ running /\ csDbFree /\ csWalletFree /\ ~crypted
    /\ \A h \in WalletHandles : handle[h] = Closed
    /\ Updated(1)
    /\ handle' = [handle EXCEPT ![Encryption] = [Closed EXCEPT
                     !.pdb = TRUE, !.counted = TRUE, !.activeTxn = TRUE,
                     !.puts = {MasterKey}]]
    /\ mapFileUseCount' = Increment /\ mapDb' = TRUE
    /\ encrypting' = "keys"
    /\ UNCHANGED <<disk, flusher, crypted, process, history>>

\* TxnBegin fails: EncryptWallet returns and nothing closes the handle.
EncryptWalletFails ==
    /\ running /\ csDbFree /\ csWalletFree /\ ~crypted
    /\ \A h \in WalletHandles : handle[h] = Closed
    /\ ~leaked /\ leaked' = TRUE
    /\ mapFileUseCount' = Increment /\ mapDb' = TRUE
    /\ UNCHANGED <<handle, disk, nWalletDBUpdated, flusher, crypted, encrypting, process,
                   written, dropped>>

HeldKeys == {k \in Keys : Plain(k) \in records}

\* Mutant: the keys are written through a handle of their own.
EncryptKeysOutside ==
    /\ running /\ encrypting = "keys" /\ ~crypted
    /\ crypted' = TRUE
    /\ \E k \in Keys : Commit({Crypted(k)}, {Plain(k)})
    /\ UNCHANGED <<handle, mapFileUseCount, mapDb, onFile, nWalletDBUpdated, flusher,
                   encrypting, process, history>>

\* EncryptKeys, by CWallet::AddCryptedKey and WriteCryptedKey.
EncryptKeys ==
    /\ running /\ encrypting = "keys" /\ ~crypted
    /\ crypted' = TRUE
    /\ handle' = [handle EXCEPT ![Encryption] = [handle[Encryption] EXCEPT
                     !.puts = @ \cup {Crypted(k) : k \in HeldKeys},
                     !.dels = {Plain(k) : k \in HeldKeys}]]
    /\ UNCHANGED <<mapFileUseCount, mapDb, disk, nWalletDBUpdated, flusher, encrypting,
                   process, history>>

\* TxnCommit of the encryption, and delete pwalletdbEncryption.
CommitEncryption ==
    /\ running /\ csDbFree /\ encrypting = "keys" /\ crypted
    /\ records' = (records \ handle[Encryption].dels) \cup handle[Encryption].puts
    /\ survivors' = {records'}
    /\ slack' = slack \cup (handle[Encryption].dels \cap records)
    /\ selfContained' = FALSE
    /\ handle' = [handle EXCEPT ![Encryption] = Closed]
    /\ mapFileUseCount' = mapFileUseCount - 1
    /\ encrypting' = "pool"
    /\ UNCHANGED <<mapDb, onFile, nWalletDBUpdated, flusher, crypted, process, history>>

\* NewKeyPool, with a CWalletDB of its own; the pool records themselves are
\* left out.
NewKeyPool ==
    /\ running /\ csDbFree /\ encrypting = "pool"
    /\ records' = records \cup {Crypted(k) : k \in NewKeys}
    /\ survivors' = {records'} /\ selfContained' = FALSE
    /\ mapFileUseCount' = (IF mapFileUseCount = Absent THEN 0 ELSE mapFileUseCount)
    /\ mapDb' = TRUE
    /\ Updated(1)
    /\ encrypting' = "rewrite"
    /\ UNCHANGED <<handle, onFile, slack, flusher, crypted, process, history>>

-----------------------------------------------------------------------------

\* The records that CDB::Rewrite can meet first.
First(S) ==
    LET sorted == <<TxRecords, PlainKeys, CryptedKeys, {MasterKey}>>
    IN  {r \in S : \E i \in 1 .. 4 :
            r \in sorted[i] /\ \A j \in 1 .. i - 1 : S \cap sorted[j] = {}}

\* CDB::Rewrite finds the file unused and copies it.  The cursor is closed at
\* the end of the loop that counts the rows, and used again: it fails, and
\* Rewrite with it, or it goes on behind the first record.
RewriteCopies ==
    /\ running /\ ~fShutdown /\ encrypting = "rewrite"
    /\ Unused
    /\ Checkpoint /\ selfContained' = TRUE
    /\ mapFileUseCount' = 0
    /\ \/ mapDb' = TRUE /\ encrypting' = "no"
       \/ mapDb' = FALSE /\ encrypting' = "copied"
    /\ UNCHANGED <<handle, records, onFile, slack, nWalletDBUpdated, flusher, crypted,
                   process, history>>

\* dbA.remove; when it fails the rename fails as well.
RewriteRemoves ==
    /\ running /\ encrypting = "copied"
    /\ \/ onFile' = FALSE /\ encrypting' = "removed"
       \/ UNCHANGED onFile /\ encrypting' = "no"
    /\ UNCHANGED <<handle, mapFileUseCount, mapDb, records, survivors, selfContained, slack,
                   nWalletDBUpdated, flusher, crypted, process, history>>

\* dbB.rename: the copy, without the first record, is wallet.dat.
RewriteRenames ==
    /\ running /\ encrypting = "removed"
    /\ \E r \in First(records) :
          records' = records \ {r} /\ dropped' = dropped \cup {r}
    /\ survivors' = {records'} /\ slack' = {} /\ onFile' = TRUE
    /\ encrypting' = "no"
    /\ UNCHANGED <<handle, mapFileUseCount, mapDb, selfContained, nWalletDBUpdated, flusher,
                   crypted, process, written, leaked>>

\* The loop of CDB::Rewrite ends with fShutdown.
RewriteGivesUp ==
    /\ running /\ fShutdown /\ encrypting = "rewrite"
    /\ encrypting' = "no"
    /\ UNCHANGED <<handle, mapFileUseCount, mapDb, disk, nWalletDBUpdated, flusher, crypted,
                   process, history>>

-----------------------------------------------------------------------------

\* Shutdown sets fShutdown and calls CDBEnv::Flush(false).
Shutdown ==
    /\ running /\ csDbFree /\ ~fShutdown /\ stops < MaxStops
    /\ fShutdown' = TRUE
    /\ IF mapFileUseCount = 0
       THEN FlushFile
       ELSE UNCHANGED <<mapFileUseCount, mapDb, disk>>
    /\ UNCHANGED <<handle, nWalletDBUpdated, flusher, crypted, encrypting, running, stops,
                   history>>

\* The end of the process, whatever its threads were doing.
Stop ==
    /\ running' = FALSE /\ fShutdown' = FALSE /\ stops' = stops + 1
    /\ handle' = [h \in Handles |-> Closed]
    /\ mapFileUseCount' = Absent /\ mapDb' = FALSE
    /\ encrypting' = "no" /\ crypted' = FALSE /\ leaked' = FALSE
    /\ nLastSeen' = 0 /\ nLastFlushed' = 0 /\ quiet' = FALSE
    /\ nWalletDBUpdated' = 0

\* Shutdown calls CDBEnv::Flush(true), and the process exits.
Exit ==
    /\ running /\ csDbFree /\ fShutdown
    /\ Stop
    /\ IF mapFileUseCount = 0
       THEN Checkpoint /\ selfContained' = TRUE /\ UNCHANGED <<records, onFile, slack>>
       ELSE UNCHANGED disk
    /\ UNCHANGED <<written, dropped>>

\* The process dies, or EncryptWallet calls exit(1).
Crash ==
    /\ running /\ stops < MaxStops
    /\ Stop
    /\ UNCHANGED <<disk, written, dropped>>

\* The machine fails: the last commits may be lost.
PowerFailure ==
    /\ running /\ stops < MaxStops
    /\ Stop
    /\ \E s \in survivors : records' = s /\ survivors' = {s}
    /\ UNCHANGED <<onFile, selfContained, slack, written, dropped>>

\* The environment is opened with DB_RECOVER and the wallet loaded by a
\* handle that is closed again.  A wallet.dat that is not there is created,
\* with none of the keys: nothing looks at the copy that CDB::Rewrite made.
LoadWallet ==
    /\ ~running /\ running' = TRUE
    /\ records' = (IF onFile THEN records ELSE {})
    /\ dropped' = dropped \cup (records \ records')
    /\ survivors' = {records'}
    /\ slack' = (IF onFile THEN slack ELSE {})
    /\ onFile' = TRUE /\ selfContained' = FALSE
    /\ mapFileUseCount' = 0 /\ mapDb' = TRUE
    /\ crypted' = (MasterKey \in records')
    /\ UNCHANGED <<handle, nWalletDBUpdated, flusher, encrypting, fShutdown, stops, written,
                   leaked>>

-----------------------------------------------------------------------------

HandleStep(h) ==
    \/ OpenHandle(h) \/ TxnBegin(h) \/ TxnCommit(h) \/ TxnAbort(h) \/ Close(h) \/ Uncount(h)
    \/ \E t \in Txs : Write(h, t)

FlushThread == FlushThreadSees \/ TwoSecondsPass \/ FlushWallet

EncryptStep ==
    \/ EncryptWallet \/ EncryptWalletFails \/ EncryptKeys \/ CommitEncryption \/ NewKeyPool
    \/ RewriteCopies \/ RewriteRemoves \/ RewriteRenames \/ RewriteGivesUp

Next ==
    \/ \E h \in Handles : HandleStep(h)
    \/ FlushThread \/ BackupWallet
    \/ EncryptStep
    \/ Shutdown \/ Exit \/ Crash \/ PowerFailure \/ LoadWallet

\* Fairness: the flush thread wakes up every half a second.
Spec == Init /\ [][Next]_vars /\ WF_vars(FlushThread)

-----------------------------------------------------------------------------

\* A CDB that holds a Db pointer points to an open Db: neither the flush
\* thread, a backup, a shutdown nor CDB::Rewrite closes it under a thread that
\* has a handle (mapFileUseCount).
OpenHandleHasDb == (leaked \/ \E h \in Handles : handle[h].pdb) => mapDb

\* The use count is the number of handles: no step of the flush thread, of a
\* rewrite or of an abandoned encryption makes it stand too low for ever, or
\* below zero.
UseCountIsExact ==
    running => Cardinality({h \in Handles : handle[h].counted}) + (IF leaked THEN 1 ELSE 0)
                  = (IF mapFileUseCount = Absent THEN 0 ELSE mapFileUseCount)

\* What was written through a handle that is closed survives a crash and a
\* power failure, although commits are not synced (DB_TXN_WRITE_NOSYNC):
\* CDB::Close made a checkpoint.  All but what CDB::Rewrite drops.
ClosedIsDurable == \A s \in survivors : written \subseteq s \cup dropped

AllPlain(s) ==
    /\ PlainKeys \subseteq s /\ MasterKey \notin s
    /\ \A k \in Keys \cup NewKeys : Crypted(k) \notin s
AllCrypted(s) ==
    PlainKeys \cap s = {} /\ MasterKey \in s /\ \A k \in Keys : Crypted(k) \in s

\* However EncryptWallet is cut short, and after CDB::Rewrite has replaced the
\* file, the keys come back all unencrypted without a master key or all
\* encrypted with one.  Unless CDB::Rewrite dropped a key: the first record of
\* a wallet without transactions is one, and a wallet.dat that was removed and
\* not replaced before the process ended had all of them.
KeysSurvive ==
    dropped \subseteq TxRecords => \A s \in survivors : AllPlain(s) \/ AllCrypted(s)

\* An updated wallet.dat that nobody uses is made self-contained by the flush
\* thread, unless it is taken into use again or the process ends.
FlushesWhenIdle ==
    (running /\ nWalletDBUpdated > 0 /\ ~selfContained /\ mapFileUseCount = 0)
        ~> (selfContained \/ mapFileUseCount > 0 \/ fShutdown \/ ~running)

\* EncryptWallet leaves no private key in an unused page of wallet.dat: it
\* rewrites the whole file before it returns.
EncryptedFileIsRewritten == crypted /\ encrypting = "no" => slack = {}
=============================================================================
