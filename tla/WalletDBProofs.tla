--------------------------- MODULE WalletDBProofs ---------------------------
(***************************************************************************)
(* Proofs about WalletDB: the type invariant, that no Db is closed under a *)
(* handle, that what a closed handle wrote is durable, and that the keys   *)
(* survive EncryptWallet, wherever it is cut short.                        *)
(***************************************************************************)
EXTENDS WalletDB, FiniteSetTheorems, TLAPS

LEMMA RecordKinds ==
    /\ \A t, k : Tx(t) # Plain(k) /\ Tx(t) # Crypted(k) /\ Plain(t) # Crypted(k)
    /\ \A t : Tx(t) # MasterKey /\ Plain(t) # MasterKey /\ Crypted(t) # MasterKey
BY DEF Tx, Plain, Crypted, MasterKey

LEMMA ClosedType == Closed \in HandleState /\ ~Closed.pdb /\ ~Closed.counted
BY DEF Closed, HandleState

LEMMA NoTxnType ==
    ASSUME NEW s \in HandleState
    PROVE  /\ NoTxn(s) \in HandleState
           /\ NoTxn(s).pdb = s.pdb /\ NoTxn(s).counted = s.counted
           /\ NoTxn(s).fReadOnly = s.fReadOnly /\ NoTxn(s).log = s.log
           /\ NoTxn(s).puts = {} /\ NoTxn(s).dels = {} /\ NoTxn(s).activeTxn = FALSE
BY DEF NoTxn, HandleState

(***************************************************************************)
(* The invariant about the use count.                                      *)
(***************************************************************************)
Counted == {h \in Handles : handle[h].counted}
Uses == Cardinality(Counted) + (IF leaked THEN 1 ELSE 0)
UseCount == IF mapFileUseCount = Absent THEN 0 ELSE mapFileUseCount

HandleIsCounted == \A h \in Handles : handle[h].pdb => handle[h].counted
EncryptionIsOpen ==
    IF encrypting = "keys" THEN handle[Encryption].pdb ELSE handle[Encryption] = Closed
StoppedIsClosed ==
    ~running => ~leaked /\ encrypting = "no" /\ \A h \in Handles : handle[h] = Closed

UseInv ==
    /\ WalletDBTypeOK
    /\ UseCountIsExact /\ OpenHandleHasDb
    /\ HandleIsCounted /\ EncryptionIsOpen /\ StoppedIsClosed

LEMMA CountedFinite ==
    ASSUME WalletDBTypeOK
    PROVE  /\ IsFiniteSet(Counted) /\ Cardinality(Counted) \in Nat
           /\ Counted # {} => Cardinality(Counted) # 0
<1>1. IsFiniteSet(Counted)
  BY WalletDBAssumption, FS_Subset DEF Counted
<1> QED BY <1>1, FS_CardinalityType, FS_EmptySet

\* A handle that is counted shows in the use count, as does a leaked one.
LEMMA CountedIsUsed ==
    ASSUME UseInv, running, leaked \/ Counted # {}
    PROVE  mapFileUseCount \in Nat \ {0}
<1>1. WalletDBTypeOK /\ Uses = UseCount
  BY DEF UseInv, UseCountIsExact, Uses, UseCount, Counted
<1>2. Uses \in Nat \ {0}
  BY <1>1, CountedFinite DEF Uses
<1> QED BY <1>1, <1>2 DEF UseCount, WalletDBTypeOK, Absent

\* When the use count is zero or gone, no handle is open.
LEMMA UnusedIsClosed ==
    ASSUME UseInv, running, Unused
    PROVE  ~leaked /\ Counted = {} /\ \A h \in Handles : ~handle[h].pdb
<1>1. ~(leaked \/ Counted # {})
  BY CountedIsUsed DEF Unused, Absent
<1> QED BY <1>1 DEF UseInv, HandleIsCounted, Counted

LEMMA CommitType ==
    ASSUME WalletDBTypeOK, NEW puts \in SUBSET Record, NEW dels \in SUBSET Record,
           Commit(puts, dels)
    PROVE  records' \subseteq Record /\ survivors' \subseteq SUBSET Record
           /\ slack' \subseteq PlainKeys /\ selfContained' \in BOOLEAN
<1>1. records' \subseteq Record
  BY DEF WalletDBTypeOK, Commit
<1> QED BY <1>1 DEF WalletDBTypeOK, Commit

(***************************************************************************)
(* What each operation makes of the handle.                                *)
(***************************************************************************)
\* Two handle states that differ in the transaction only.
SameUse(s, r) ==
    s.pdb = r.pdb /\ s.counted = r.counted /\ s.fReadOnly = r.fReadOnly

LEMMA Replaced ==
    ASSUME NEW f \in [Handles -> HandleState], NEW h \in Handles, NEW s \in HandleState
    PROVE  /\ [f EXCEPT ![h] = s] \in [Handles -> HandleState]
           /\ [f EXCEPT ![h] = s][h] = s
           /\ \A g \in Handles \ {h} : [f EXCEPT ![h] = s][g] = f[g]
OBVIOUS

LEMMA OpenEffect ==
    ASSUME WalletDBTypeOK, NEW h \in Handles, OpenHandle(h)
    PROVE  \E s \in HandleState :
               /\ handle' = [handle EXCEPT ![h] = s]
               /\ s.pdb /\ s.counted /\ ~s.activeTxn
               /\ s.puts = {} /\ s.dels = {} /\ s.log = {}
<1>1. PICK r \in BOOLEAN : handle' = [handle EXCEPT ![h] =
            [Closed EXCEPT !.pdb = TRUE, !.counted = TRUE, !.fReadOnly = r]]
  BY DEF OpenHandle
<1> DEFINE s == [Closed EXCEPT !.pdb = TRUE, !.counted = TRUE, !.fReadOnly = r]
<1>2. /\ s \in HandleState /\ s.pdb /\ s.counted /\ ~s.activeTxn
      /\ s.puts = {} /\ s.dels = {} /\ s.log = {}
  BY DEF Closed, HandleState
<1> QED BY <1>1, <1>2

LEMMA WriteEffect ==
    ASSUME WalletDBTypeOK, NEW h \in Handles, NEW t \in Txs, Write(h, t)
    PROVE  \E s \in HandleState :
               /\ handle' = [handle EXCEPT ![h] = s]
               /\ SameUse(s, handle[h]) /\ ~s.fReadOnly
               /\ s.activeTxn = handle[h].activeTxn /\ s.dels = handle[h].dels
               /\ s.puts \subseteq handle[h].puts \cup {Tx(t)}
               /\ IF handle[h].activeTxn THEN s.log = handle[h].log
                                         ELSE s.log = handle[h].log \cup {Tx(t)}
<1>1. handle[h] \in HandleState /\ Tx(t) \in Record
  BY DEF WalletDBTypeOK, Record, TxRecords
<1>2. CASE handle[h].activeTxn
  <2> DEFINE s == [handle[h] EXCEPT !.puts = @ \cup {Tx(t)}]
  <2>1. handle' = [handle EXCEPT ![h] = s]
    BY <1>2 DEF Write
  <2>2. s \in HandleState /\ s.puts = handle[h].puts \cup {Tx(t)}
        /\ s.dels = handle[h].dels /\ s.log = handle[h].log
        /\ s.activeTxn = handle[h].activeTxn /\ SameUse(s, handle[h])
    BY <1>1 DEF HandleState, SameUse
  <2> QED BY <1>2, <2>1, <2>2 DEF Write, SameUse
<1>3. CASE ~handle[h].activeTxn
  <2> DEFINE s == [handle[h] EXCEPT !.log = @ \cup {Tx(t)}]
  <2>1. handle' = [handle EXCEPT ![h] = s]
    BY <1>3 DEF Write
  <2>2. s \in HandleState /\ s.puts = handle[h].puts /\ s.dels = handle[h].dels
        /\ s.log = handle[h].log \cup {Tx(t)}
        /\ s.activeTxn = handle[h].activeTxn /\ SameUse(s, handle[h])
    BY <1>1 DEF HandleState, SameUse
  <2> QED BY <1>3, <2>1, <2>2 DEF Write, SameUse
<1> QED BY <1>2, <1>3

LEMMA TxnBeginEffect ==
    ASSUME WalletDBTypeOK, NEW h \in Handles, TxnBegin(h)
    PROVE  \E s \in HandleState :
               /\ handle' = [handle EXCEPT ![h] = s]
               /\ SameUse(s, handle[h]) /\ ~s.fReadOnly /\ s.activeTxn
               /\ s.puts = handle[h].puts /\ s.dels = handle[h].dels /\ s.log = handle[h].log
<1>1. handle[h] \in HandleState
  BY DEF WalletDBTypeOK
<1> DEFINE s == [handle[h] EXCEPT !.activeTxn = TRUE]
<1>2. handle' = [handle EXCEPT ![h] = s]
  BY DEF TxnBegin
<1>3. s \in HandleState /\ s.puts = handle[h].puts /\ s.dels = handle[h].dels
      /\ s.log = handle[h].log /\ s.activeTxn /\ SameUse(s, handle[h])
  BY <1>1 DEF HandleState, SameUse
<1> QED BY <1>2, <1>3 DEF TxnBegin, SameUse

LEMMA TxnEndEffect ==
    ASSUME WalletDBTypeOK, NEW h \in Handles, TxnCommit(h) \/ TxnAbort(h)
    PROVE  \E s \in HandleState :
               /\ handle' = [handle EXCEPT ![h] = s]
               /\ SameUse(s, handle[h]) /\ ~s.activeTxn /\ s.puts = {} /\ s.dels = {}
               /\ TxnCommit(h) => s.log = handle[h].log \cup handle[h].puts
               /\ ~TxnCommit(h) => s.log = handle[h].log
<1>1. handle[h] \in HandleState
  BY DEF WalletDBTypeOK
<1>2. NoTxn(handle[h]) \in HandleState
  BY <1>1, NoTxnType
<1>3. CASE TxnCommit(h)
  <2> DEFINE s == [NoTxn(handle[h]) EXCEPT !.log = @ \cup handle[h].puts]
  <2>1. handle' = [handle EXCEPT ![h] = s]
    BY <1>3 DEF TxnCommit
  <2>2. s \in HandleState /\ s.log = NoTxn(handle[h]).log \cup handle[h].puts
        /\ s.puts = NoTxn(handle[h]).puts /\ s.dels = NoTxn(handle[h]).dels
        /\ s.activeTxn = NoTxn(handle[h]).activeTxn /\ SameUse(s, NoTxn(handle[h]))
    BY <1>1, <1>2 DEF HandleState, SameUse
  <2> HIDE DEF s
  <2> QED BY ZenonT(40), <1>1, <1>3, <2>1, <2>2, NoTxnType DEF SameUse
<1>4. CASE ~TxnCommit(h)
  <2>1. handle' = [handle EXCEPT ![h] = NoTxn(handle[h])]
    BY <1>4 DEF TxnAbort
  <2> QED BY <1>1, <1>4, <2>1, NoTxnType DEF SameUse
<1> QED BY <1>3, <1>4

LEMMA CloseEffect ==
    ASSUME WalletDBTypeOK, NEW h \in Handles, Close(h)
    PROVE  \E s \in HandleState :
               /\ handle' = [handle EXCEPT ![h] = s]
               /\ ~s.pdb /\ s.counted = handle[h].counted /\ s.fReadOnly = handle[h].fReadOnly
               /\ ~s.activeTxn /\ s.puts = {} /\ s.dels = {} /\ s.log = handle[h].log
<1>1. handle[h] \in HandleState
  BY DEF WalletDBTypeOK
<1>2. NoTxn(handle[h]) \in HandleState
  BY <1>1, NoTxnType
<1> DEFINE s == [NoTxn(handle[h]) EXCEPT !.pdb = FALSE]
<1>3. handle' = [handle EXCEPT ![h] = s]
  BY DEF Close
<1>4. s \in HandleState /\ ~s.pdb /\ s.counted = NoTxn(handle[h]).counted
      /\ s.fReadOnly = NoTxn(handle[h]).fReadOnly /\ s.log = NoTxn(handle[h]).log
      /\ s.puts = NoTxn(handle[h]).puts /\ s.dels = NoTxn(handle[h]).dels
      /\ s.activeTxn = NoTxn(handle[h]).activeTxn
  BY <1>2 DEF HandleState
<1> HIDE DEF s
<1> QED BY ZenonT(40), <1>1, <1>3, <1>4, NoTxnType

LEMMA UncountEffect ==
    ASSUME WalletDBTypeOK, NEW h \in Handles, Uncount(h)
    PROVE  handle' = [handle EXCEPT ![h] = Closed]
BY DEF Uncount

LEMMA EncryptionEffect ==
    ASSUME WalletDBTypeOK
    PROVE  /\ EncryptWallet => \E s \in HandleState :
                 /\ handle' = [handle EXCEPT ![Encryption] = s]
                 /\ s.pdb /\ s.counted /\ s.puts = {MasterKey} /\ s.dels = {} /\ s.log = {}
                 /\ ~s.fReadOnly
           /\ EncryptKeys => \E s \in HandleState :
                 /\ handle' = [handle EXCEPT ![Encryption] = s]
                 /\ SameUse(s, handle[Encryption]) /\ s.log = handle[Encryption].log
                 /\ s.puts = handle[Encryption].puts \cup {Crypted(k) : k \in HeldKeys}
                 /\ s.dels = {Plain(k) : k \in HeldKeys}
<1>1. handle[Encryption] \in HandleState /\ MasterKey \in Record
  BY DEF WalletDBTypeOK, Handles, Record
<1>2. ASSUME EncryptWallet
      PROVE  \E s \in HandleState :
                 /\ handle' = [handle EXCEPT ![Encryption] = s]
                 /\ s.pdb /\ s.counted /\ s.puts = {MasterKey} /\ s.dels = {} /\ s.log = {}
                 /\ ~s.fReadOnly
  <2> DEFINE s == [Closed EXCEPT !.pdb = TRUE, !.counted = TRUE, !.activeTxn = TRUE,
                                 !.puts = {MasterKey}]
  <2>1. handle' = [handle EXCEPT ![Encryption] = s]
    BY <1>2 DEF EncryptWallet
  <2>2. /\ s \in HandleState /\ s.pdb /\ s.counted /\ s.puts = {MasterKey}
        /\ s.dels = {} /\ s.log = {} /\ ~s.fReadOnly
    BY <1>1 DEF Closed, HandleState
  <2> QED BY <2>1, <2>2
<1>3. ASSUME EncryptKeys
      PROVE  \E s \in HandleState :
                 /\ handle' = [handle EXCEPT ![Encryption] = s]
                 /\ SameUse(s, handle[Encryption]) /\ s.log = handle[Encryption].log
                 /\ s.puts = handle[Encryption].puts \cup {Crypted(k) : k \in HeldKeys}
                 /\ s.dels = {Plain(k) : k \in HeldKeys}
  <2> DEFINE c == {Crypted(k) : k \in HeldKeys}
             d == {Plain(k) : k \in HeldKeys}
             s == [handle[Encryption] EXCEPT !.puts = @ \cup c, !.dels = d]
  <2>1. c \subseteq Record /\ d \subseteq PlainKeys
    BY DEF HeldKeys, PlainKeys, Record, CryptedKeys
  <2>2. handle' = [handle EXCEPT ![Encryption] = s]
    BY <1>3 DEF EncryptKeys
  <2> HIDE DEF c, d
  <2>3. s \in HandleState /\ s.puts = handle[Encryption].puts \cup c /\ s.dels = d
        /\ s.log = handle[Encryption].log /\ SameUse(s, handle[Encryption])
    BY <1>1, <2>1 DEF HandleState, SameUse
  <2> HIDE DEF s
  <2> QED BY <2>2, <2>3 DEF c, d
<1> QED BY <1>2, <1>3

(***************************************************************************)
(* Type correctness.                                                       *)
(***************************************************************************)
LEMMA HandleStepType ==
    ASSUME UseInv, NEW h \in Handles, HandleStep(h)
    PROVE  WalletDBTypeOK'
<1> USE DEF disk, flusher, process, history
<1>t. WalletDBTypeOK
  BY DEF UseInv
<1>0. handle[h] \in HandleState /\ handle \in [Handles -> HandleState]
  BY <1>t DEF WalletDBTypeOK
<1>1. CASE OpenHandle(h)
  <2>1. handle' \in [Handles -> HandleState]
    BY <1>0, <1>1, <1>t, OpenEffect, Replaced
  <2> QED BY <1>t, <1>1, <2>1 DEF OpenHandle, WalletDBTypeOK, Increment, Absent
<1>2. CASE TxnBegin(h)
  <2>1. handle' \in [Handles -> HandleState]
    BY <1>0, <1>2, <1>t, TxnBeginEffect, Replaced
  <2> QED BY <1>t, <1>2, <2>1 DEF TxnBegin, WalletDBTypeOK
<1>3. CASE TxnCommit(h)
  <2>1. handle[h].puts \subseteq Record /\ handle[h].dels \subseteq Record
    BY <1>0 DEF HandleState, Record
  <2>2. handle' \in [Handles -> HandleState]
    BY <1>0, <1>3, <1>t, TxnEndEffect, Replaced
  <2> QED BY ZenonT(40), <1>t, <1>3, <2>1, <2>2, CommitType DEF TxnCommit, WalletDBTypeOK
<1>4. CASE TxnAbort(h)
  <2>1. handle' \in [Handles -> HandleState]
    BY <1>0, <1>4, <1>t, TxnEndEffect, Replaced
  <2> QED BY <1>t, <1>4, <2>1 DEF TxnAbort, WalletDBTypeOK
<1>5. CASE Close(h)
  <2>1. handle' \in [Handles -> HandleState]
    BY <1>0, <1>5, <1>t, CloseEffect, Replaced
  <2>2. handle[h].log \subseteq Record
    BY <1>0 DEF HandleState
  <2>3. survivors' \subseteq SUBSET Record
    BY <1>t, <1>5 DEF Close, Checkpoint, WalletDBTypeOK
  <2> QED BY <1>t, <1>5, <2>1, <2>2, <2>3 DEF Close, WalletDBTypeOK
<1>6. CASE \E t \in Txs : Write(h, t)
  <2>1. PICK t \in Txs : Write(h, t)
    BY <1>6
  <2>2. Tx(t) \in Record
    BY DEF Record, TxRecords
  <2>3. handle' \in [Handles -> HandleState]
    BY <1>0, <2>1, <1>t, WriteEffect, Replaced
  <2>4. records' \subseteq Record /\ survivors' \subseteq SUBSET Record
        /\ slack' \subseteq PlainKeys /\ selfContained' \in BOOLEAN /\ onFile' \in BOOLEAN
    <3>1. CASE handle[h].activeTxn
      BY <1>t, <2>1, <3>1 DEF Write, WalletDBTypeOK
    <3>2. CASE ~handle[h].activeTxn
      BY <1>t, <2>1, <2>2, <3>2, CommitType DEF Write, WalletDBTypeOK
    <3> QED BY <3>1, <3>2
  <2>5. nWalletDBUpdated' \in Nat
    BY <1>t, <2>1 DEF Write, Updated, WalletDBTypeOK
  <2> QED BY <1>t, <2>1, <2>3, <2>4, <2>5 DEF Write, WalletDBTypeOK
<1>7. CASE Uncount(h)
  <2>1. handle' \in [Handles -> HandleState]
    BY <1>7, <1>0, ClosedType DEF Uncount
  <2>2. mapFileUseCount \in Nat \ {0}
    BY <1>7, CountedIsUsed DEF Uncount, Counted
  <2> QED BY <1>t, <1>7, <2>1, <2>2 DEF Uncount, WalletDBTypeOK
<1> QED BY <1>1, <1>2, <1>3, <1>4, <1>5, <1>6, <1>7 DEF HandleStep

LEMMA FlushFileType ==
    ASSUME WalletDBTypeOK, FlushFile
    PROVE  /\ mapFileUseCount' \in Nat \cup {Absent} /\ mapDb' \in BOOLEAN
           /\ records' \subseteq Record /\ survivors' \subseteq SUBSET Record
           /\ onFile' \in BOOLEAN /\ selfContained' \in BOOLEAN /\ slack' \subseteq PlainKeys
BY DEF FlushFile, Checkpoint, WalletDBTypeOK

LEMMA FlushStepType ==
    ASSUME WalletDBTypeOK, FlushThread \/ BackupWallet \/ Shutdown
    PROVE  WalletDBTypeOK'
<1> USE DEF disk, flusher, process, history
<1>1. CASE FlushThreadSees
  BY <1>1 DEF FlushThreadSees, WalletDBTypeOK
<1>2. CASE TwoSecondsPass
  BY <1>2 DEF TwoSecondsPass, WalletDBTypeOK
<1>3. CASE FlushWallet
  BY <1>3, FlushFileType DEF FlushWallet, WalletDBTypeOK
<1>4. CASE BackupWallet
  BY <1>4, FlushFileType DEF BackupWallet, WalletDBTypeOK
<1>5. CASE Shutdown
  BY <1>5, FlushFileType DEF Shutdown, WalletDBTypeOK
<1> QED BY <1>1, <1>2, <1>3, <1>4, <1>5 DEF FlushThread

LEMMA EncryptStepType ==
    ASSUME UseInv, EncryptStep
    PROVE  WalletDBTypeOK'
<1> USE DEF disk, flusher, process, history
<1>t. WalletDBTypeOK
  BY DEF UseInv
<1>e. Encryption \in Handles /\ handle[Encryption] \in HandleState
      /\ handle \in [Handles -> HandleState] /\ MasterKey \in Record
  BY <1>t DEF WalletDBTypeOK, Handles, Record
<1>c. \A k \in Keys \cup NewKeys : Crypted(k) \in Record
  BY DEF Record, CryptedKeys
<1>1. CASE EncryptWallet
  <2>1. handle' \in [Handles -> HandleState]
    BY <1>1, <1>e DEF EncryptWallet, HandleState, Closed
  <2> QED BY <1>t, <1>1, <2>1 DEF EncryptWallet, WalletDBTypeOK, Increment, Absent, Updated
<1>2. CASE EncryptWalletFails
  BY <1>t, <1>2 DEF EncryptWalletFails, WalletDBTypeOK, Increment, Absent
<1>3. CASE EncryptKeys
  <2>1. handle' \in [Handles -> HandleState]
    BY <1>t, <1>3, <1>e, EncryptionEffect, Replaced
  <2> QED BY <1>t, <1>3, <2>1 DEF EncryptKeys, WalletDBTypeOK
<1>4. CASE CommitEncryption
  <2>1. handle' \in [Handles -> HandleState]
    BY <1>4, <1>e, ClosedType DEF CommitEncryption
  <2>2. mapFileUseCount \in Nat \ {0}
    BY <1>4, <1>e, CountedIsUsed
       DEF CommitEncryption, Counted, UseInv, EncryptionIsOpen, HandleIsCounted
  <2>3. records' \subseteq Record /\ slack' \subseteq PlainKeys
    <3>1. handle[Encryption].puts \subseteq Record /\ handle[Encryption].dels \subseteq PlainKeys
      BY <1>e DEF HandleState
    <3> QED BY <1>t, <1>4, <3>1 DEF CommitEncryption, WalletDBTypeOK
  <2>4. survivors' \subseteq SUBSET Record
    BY <1>4, <2>3 DEF CommitEncryption
  <2>5. mapFileUseCount' \in Nat
    BY <1>4, <2>2 DEF CommitEncryption
  <2> QED BY <1>t, <1>4, <2>1, <2>3, <2>4, <2>5 DEF CommitEncryption, WalletDBTypeOK
<1>5. CASE NewKeyPool
  <2>1. records' \subseteq Record
    BY <1>t, <1>5, <1>c DEF NewKeyPool, WalletDBTypeOK
  <2>2. survivors' \subseteq SUBSET Record
    BY <1>5, <2>1 DEF NewKeyPool
  <2>3. nWalletDBUpdated' \in Nat
    BY <1>t, <1>5 DEF NewKeyPool, WalletDBTypeOK, Updated
  <2> QED BY <1>t, <1>5, <2>1, <2>2, <2>3 DEF NewKeyPool, WalletDBTypeOK
<1>6. CASE RewriteCopies
  BY <1>t, <1>6 DEF RewriteCopies, WalletDBTypeOK, Checkpoint
<1>7. CASE RewriteRemoves
  BY <1>t, <1>7 DEF RewriteRemoves, WalletDBTypeOK
<1>8. CASE RewriteRenames
  <2>1. PICK r \in First(records) : records' = records \ {r} /\ dropped' = dropped \cup {r}
    BY <1>8 DEF RewriteRenames
  <2>2. r \in records
    BY <2>1 DEF First
  <2> QED BY <1>t, <1>8, <2>1, <2>2 DEF RewriteRenames, WalletDBTypeOK
<1>9. CASE RewriteGivesUp
  BY <1>t, <1>9 DEF RewriteGivesUp, WalletDBTypeOK
<1> QED BY <1>1, <1>2, <1>3, <1>4, <1>5, <1>6, <1>7, <1>8, <1>9 DEF EncryptStep

LEMMA StopType ==
    ASSUME WalletDBTypeOK, Exit \/ Crash \/ PowerFailure \/ LoadWallet
    PROVE  WalletDBTypeOK'
<1> USE DEF disk, flusher, process, history
<1>h. [h \in Handles |-> Closed] \in [Handles -> HandleState]
  BY ClosedType
<1>s. ASSUME Stop
      PROVE  /\ handle' \in [Handles -> HandleState]
             /\ mapFileUseCount' \in Nat \cup {Absent} /\ mapDb' \in BOOLEAN
             /\ nWalletDBUpdated' \in Nat /\ nLastSeen' \in Nat /\ nLastFlushed' \in Nat
             /\ quiet' \in BOOLEAN /\ crypted' \in BOOLEAN /\ encrypting' = "no"
             /\ fShutdown' \in BOOLEAN /\ running' \in BOOLEAN /\ stops' \in Nat
             /\ leaked' \in BOOLEAN
  <2>1. handle' \in [Handles -> HandleState]
    BY <1>s, <1>h DEF Stop
  <2>2. stops' \in Nat
    BY <1>s DEF Stop, WalletDBTypeOK
  <2> QED BY <1>s, <2>1, <2>2 DEF Stop
<1>1. CASE Exit
  <2>1. /\ records' \subseteq Record /\ survivors' \subseteq SUBSET Record
        /\ onFile' \in BOOLEAN /\ selfContained' \in BOOLEAN /\ slack' \subseteq PlainKeys
    BY <1>1 DEF Exit, Checkpoint, WalletDBTypeOK
  <2>2. written' \subseteq Record /\ dropped' \subseteq Record
    BY <1>1 DEF Exit, WalletDBTypeOK
  <2> QED BY <1>1, <1>s, <2>1, <2>2 DEF Exit, WalletDBTypeOK
<1>2. CASE Crash
  <2>1. /\ records' \subseteq Record /\ survivors' \subseteq SUBSET Record
        /\ onFile' \in BOOLEAN /\ selfContained' \in BOOLEAN /\ slack' \subseteq PlainKeys
        /\ written' \subseteq Record /\ dropped' \subseteq Record
    BY <1>2 DEF Crash, WalletDBTypeOK
  <2> QED BY <1>2, <1>s, <2>1 DEF Crash, WalletDBTypeOK
<1>3. CASE PowerFailure
  <2>1. /\ records' \subseteq Record /\ survivors' \subseteq SUBSET Record
        /\ onFile' \in BOOLEAN /\ selfContained' \in BOOLEAN /\ slack' \subseteq PlainKeys
        /\ written' \subseteq Record /\ dropped' \subseteq Record
    BY <1>3 DEF PowerFailure, WalletDBTypeOK
  <2> QED BY <1>3, <1>s, <2>1 DEF PowerFailure, WalletDBTypeOK
<1>4. CASE LoadWallet
  <2>1. records' \subseteq Record /\ slack' \subseteq PlainKeys
    BY <1>4 DEF LoadWallet, WalletDBTypeOK
  <2>2. survivors' \subseteq SUBSET Record
    BY <1>4, <2>1 DEF LoadWallet
  <2>3. crypted' \in BOOLEAN
    BY <1>4 DEF LoadWallet
  <2> QED BY <1>4, <2>1, <2>2, <2>3 DEF LoadWallet, WalletDBTypeOK
<1> QED BY <1>1, <1>2, <1>3, <1>4

(***************************************************************************)
(* The use count.                                                          *)
(***************************************************************************)
LEMMA CountedAdd ==
    ASSUME WalletDBTypeOK, NEW h \in Handles, NEW s \in HandleState,
           handle' = [handle EXCEPT ![h] = s], ~handle[h].counted, s.counted
    PROVE  Cardinality(Counted') = Cardinality(Counted) + 1
<1>1. handle \in [Handles -> HandleState]
  BY DEF WalletDBTypeOK
<1>2. Counted' = Counted \cup {h} /\ h \notin Counted
  BY <1>1, Replaced DEF Counted
<1> QED BY <1>2, CountedFinite, FS_AddElement

LEMMA CountedRemove ==
    ASSUME WalletDBTypeOK, NEW h \in Handles, NEW s \in HandleState,
           handle' = [handle EXCEPT ![h] = s], handle[h].counted, ~s.counted
    PROVE  Cardinality(Counted') = Cardinality(Counted) - 1
<1>1. handle \in [Handles -> HandleState]
  BY DEF WalletDBTypeOK
<1>2. Counted' = Counted \ {h} /\ h \in Counted
  BY <1>1, Replaced DEF Counted
<1> QED BY <1>2, CountedFinite, FS_RemoveElement

LEMMA CountedSame ==
    ASSUME WalletDBTypeOK, NEW h \in Handles, NEW s \in HandleState,
           handle' = [handle EXCEPT ![h] = s], s.counted = handle[h].counted
    PROVE  Counted' = Counted
<1>1. handle \in [Handles -> HandleState]
  BY DEF WalletDBTypeOK
<1> QED BY <1>1, Replaced DEF Counted

\* The invariant without the types, for the next state.
LEMMA UseParts ==
    ASSUME UseInv
    PROVE  /\ WalletDBTypeOK /\ (running => Uses = UseCount)
           /\ (leaked \/ \E h \in Handles : handle[h].pdb) => mapDb
           /\ HandleIsCounted /\ EncryptionIsOpen /\ StoppedIsClosed
BY DEF UseInv, UseCountIsExact, Uses, UseCount, Counted, OpenHandleHasDb

LEMMA UseJoin ==
    ASSUME WalletDBTypeOK', (running => Uses = UseCount)',
           OpenHandleHasDb', HandleIsCounted', EncryptionIsOpen', StoppedIsClosed'
    PROVE  UseInv'
BY DEF UseInv, UseCountIsExact, Uses, UseCount, Counted

LEMMA HandleStepHandle ==
    ASSUME UseInv, NEW h \in Handles, HandleStep(h)
    PROVE  h # Encryption
<1>1. Uncount(Encryption) => FALSE
  <2>1. EncryptionIsOpen
    BY UseParts
  <2> QED BY <2>1, ClosedType DEF Uncount, EncryptionIsOpen
<1> QED BY <1>1, WalletDBAssumption
        DEF HandleStep, OpenHandle, TxnBegin, TxnCommit, TxnAbort, Close, Write

LEMMA HandleStepUse ==
    ASSUME UseInv, NEW h \in Handles, HandleStep(h)
    PROVE  UseInv'
<1> USE DEF disk, flusher, process, history
<1>t. WalletDBTypeOK' /\ WalletDBTypeOK /\ handle \in [Handles -> HandleState]
  BY HandleStepType DEF UseInv, WalletDBTypeOK
<1>r. running /\ running' /\ leaked' = leaked /\ encrypting' = encrypting
  <2>0. CASE OpenHandle(h)
    BY <2>0, Zenon DEF OpenHandle
  <2>1. CASE TxnBegin(h)
    BY <2>1 DEF TxnBegin
  <2>2. CASE TxnCommit(h) \/ TxnAbort(h)
    BY <2>2 DEF TxnCommit, TxnAbort
  <2>3. CASE Close(h) \/ Uncount(h)
    BY <2>3 DEF Close, Uncount
  <2>4. CASE \E t \in Txs : Write(h, t)
    BY <2>4 DEF Write
  <2> QED BY <2>0, <2>1, <2>2, <2>3, <2>4 DEF HandleStep
<1>u. Uses = UseCount /\ running /\ running' /\ leaked' = leaked /\ encrypting' = encrypting
  BY <1>r, UseParts
<1>h. h # Encryption
  BY HandleStepHandle
<1>n. Cardinality(Counted) \in Nat /\ mapFileUseCount \in Nat \cup {Absent}
  BY <1>t, CountedFinite DEF WalletDBTypeOK
<1>1. CASE OpenHandle(h)
  <2>1. PICK s \in HandleState : /\ handle' = [handle EXCEPT ![h] = s] /\ s.pdb /\ s.counted
    BY <1>t, <1>1, OpenEffect
  <2>2. Cardinality(Counted') = Cardinality(Counted) + 1
    BY <1>t, <1>1, <2>1, CountedAdd, ClosedType DEF OpenHandle
  <2>3. Uses' = UseCount'
    BY <1>1, <1>u, <1>n, <2>2 DEF Uses, UseCount, OpenHandle, Increment, Absent
  <2>4. HandleIsCounted' /\ EncryptionIsOpen'
    BY <1>t, <1>h, <1>1, <1>u, <2>1, Replaced, UseParts
       DEF HandleIsCounted, EncryptionIsOpen, Handles
  <2>5. OpenHandleHasDb'
    BY <1>1 DEF OpenHandle, OpenHandleHasDb
  <2> QED BY <1>t, <1>u, <2>3, <2>4, <2>5, UseJoin DEF StoppedIsClosed
<1>2. CASE TxnBegin(h) \/ TxnCommit(h) \/ TxnAbort(h) \/ \E t \in Txs : Write(h, t)
  <2>1. PICK s \in HandleState : handle' = [handle EXCEPT ![h] = s] /\ SameUse(s, handle[h])
    BY <1>t, <1>2, TxnBeginEffect, TxnEndEffect, WriteEffect
  <2>2. Counted' = Counted
    BY <1>t, <2>1, CountedSame DEF SameUse
  <2>3. mapFileUseCount' = mapFileUseCount /\ mapDb' = mapDb
    BY <1>2 DEF TxnBegin, TxnCommit, TxnAbort, Write
  <2>4. Uses' = UseCount'
    BY <1>u, <2>2, <2>3 DEF Uses, UseCount
  <2>5. \A g \in Handles : handle'[g].pdb = handle[g].pdb /\ handle'[g].counted = handle[g].counted
    BY <1>t, <2>1, Replaced DEF SameUse
  <2>e. EncryptionIsOpen'
    BY <1>t, <1>h, <1>u, <2>1, Replaced, UseParts DEF EncryptionIsOpen, Handles
  <2>6. HandleIsCounted' /\ EncryptionIsOpen' /\ OpenHandleHasDb'
    BY <2>e, <1>u, <2>3, <2>5, UseParts
       DEF HandleIsCounted, OpenHandleHasDb
  <2> QED BY <1>t, <1>u, <2>4, <2>6, UseJoin DEF StoppedIsClosed
<1>3. CASE Close(h)
  <2>1. PICK s \in HandleState :
          handle' = [handle EXCEPT ![h] = s] /\ ~s.pdb /\ s.counted = handle[h].counted
    BY <1>t, <1>3, CloseEffect
  <2>2. Counted' = Counted
    BY <1>t, <2>1, CountedSame
  <2>3. Uses' = UseCount'
    BY <1>3, <1>u, <2>2 DEF Uses, UseCount, Close
  <2>4. HandleIsCounted' /\ EncryptionIsOpen'
    BY <1>t, <1>h, <1>3, <1>u, <2>1, Replaced, UseParts
       DEF HandleIsCounted, EncryptionIsOpen, Handles, Close
  <2>5. OpenHandleHasDb'
    BY <1>t, <1>3, <1>u, <2>1, Replaced, UseParts DEF Close, OpenHandleHasDb
  <2> QED BY <1>t, <1>u, <2>3, <2>4, <2>5, UseJoin DEF StoppedIsClosed
<1>4. CASE Uncount(h)
  <2>1. handle' = [handle EXCEPT ![h] = Closed] /\ ~handle[h].pdb /\ handle[h].counted
    BY <1>4 DEF Uncount
  <2>2. Cardinality(Counted') = Cardinality(Counted) - 1
    BY <1>t, <2>1, CountedRemove, ClosedType
  <2>3. mapFileUseCount \in Nat \ {0} /\ mapFileUseCount' = mapFileUseCount - 1
    BY <1>4, CountedIsUsed DEF Uncount, Counted
  <2>4. Uses' = UseCount'
    BY <1>u, <1>n, <2>2, <2>3 DEF Uses, UseCount, Absent
  <2>5. HandleIsCounted' /\ EncryptionIsOpen'
    BY <1>t, <1>h, <1>u, <2>1, Replaced, ClosedType, UseParts
       DEF HandleIsCounted, EncryptionIsOpen, Handles
  <2>6. OpenHandleHasDb'
    BY <1>t, <1>4, <1>u, <2>1, Replaced, ClosedType, UseParts DEF Uncount, OpenHandleHasDb
  <2> QED BY <1>t, <1>u, <2>4, <2>5, <2>6, UseJoin DEF StoppedIsClosed
<1> QED BY <1>1, <1>2, <1>3, <1>4 DEF HandleStep

\* Whatever closes the Db or drops the entry does so while nobody uses it.
LEMMA FlushFileUse ==
    ASSUME UseInv, running, Unused, UNCHANGED <<handle, leaked, running, encrypting>>,
           mapFileUseCount' \in {Absent, 0}, WalletDBTypeOK'
    PROVE  UseInv'
<1>1. ~leaked /\ Counted = {} /\ \A h \in Handles : ~handle[h].pdb
  BY UnusedIsClosed
<1>2. Uses' = 0 /\ UseCount' = 0
  BY <1>1, FS_EmptySet DEF Uses, UseCount, Counted, Absent
<1>3. OpenHandleHasDb' /\ HandleIsCounted' /\ EncryptionIsOpen' /\ StoppedIsClosed'
  BY <1>1, UseParts DEF OpenHandleHasDb, HandleIsCounted, EncryptionIsOpen, StoppedIsClosed, Handles
<1> QED BY <1>2, <1>3, UseJoin

LEMMA UnchangedUse ==
    ASSUME UseInv, UNCHANGED <<handle, leaked, running, mapFileUseCount, mapDb>>,
           encrypting' = encrypting \/ (running /\ {encrypting, encrypting'} \cap {"keys"} = {}),
           WalletDBTypeOK'
    PROVE  UseInv'
BY DEF UseInv, UseCountIsExact, OpenHandleHasDb, HandleIsCounted, EncryptionIsOpen,
       StoppedIsClosed

LEMMA FlushStepUse ==
    ASSUME UseInv, FlushThread \/ BackupWallet \/ Shutdown
    PROVE  UseInv'
<1> USE DEF disk, flusher, process, history
<1>t. WalletDBTypeOK'
  BY FlushStepType DEF UseInv
<1>1. CASE FlushThreadSees \/ TwoSecondsPass
  BY <1>t, <1>1, UnchangedUse DEF FlushThreadSees, TwoSecondsPass
<1>2. CASE FlushWallet \/ BackupWallet
  BY <1>t, <1>2, FlushFileUse DEF FlushWallet, BackupWallet, FlushFile, Unused
<1>3. CASE Shutdown /\ mapFileUseCount = 0
  BY <1>t, <1>3, FlushFileUse DEF Shutdown, FlushFile, Unused
<1>4. CASE Shutdown /\ mapFileUseCount # 0
  BY <1>t, <1>4, UnchangedUse DEF Shutdown
<1> QED BY <1>1, <1>2, <1>3, <1>4 DEF FlushThread

LEMMA EncryptStepUse ==
    ASSUME UseInv, EncryptStep
    PROVE  UseInv'
<1> USE DEF disk, flusher, process, history
<1>t. WalletDBTypeOK' /\ WalletDBTypeOK /\ handle \in [Handles -> HandleState]
      /\ Encryption \in Handles /\ Encryption \notin WalletHandles
  BY EncryptStepType, WalletDBAssumption DEF UseInv, WalletDBTypeOK, Handles
<1>n. Cardinality(Counted) \in Nat /\ mapFileUseCount \in Nat \cup {Absent}
  BY <1>t, CountedFinite DEF WalletDBTypeOK
<1>1. CASE EncryptWallet
  <2>1. PICK s \in HandleState :
          handle' = [handle EXCEPT ![Encryption] = s] /\ s.pdb /\ s.counted
    BY <1>t, <1>1, EncryptionEffect
  <2>2. handle[Encryption] = Closed
    BY <1>1, UseParts DEF EncryptWallet, csWalletFree, EncryptionIsOpen
  <2>3. Cardinality(Counted') = Cardinality(Counted) + 1
    BY <1>t, <2>1, <2>2, CountedAdd, ClosedType
  <2>4. running /\ running' /\ leaked' = leaked /\ mapDb' /\ encrypting' = "keys"
        /\ mapFileUseCount' = Increment
    BY <1>1 DEF EncryptWallet
  <2>5. Uses' = UseCount'
    BY <1>n, <2>3, <2>4, UseParts DEF Uses, UseCount, Increment, Absent
  <2>6. HandleIsCounted' /\ EncryptionIsOpen' /\ OpenHandleHasDb' /\ StoppedIsClosed'
    BY <1>t, <2>1, <2>4, Replaced, UseParts
       DEF HandleIsCounted, EncryptionIsOpen, OpenHandleHasDb, StoppedIsClosed
  <2> QED BY <1>t, <2>5, <2>6, UseJoin
<1>2. CASE EncryptWalletFails
  <2>1. leaked' /\ ~leaked /\ running /\ running' /\ handle' = handle /\ mapDb'
        /\ encrypting' = encrypting /\ Counted' = Counted
    BY <1>2 DEF EncryptWalletFails, Counted
  <2>2. Uses' = UseCount'
    BY <1>2, <1>n, <2>1, UseParts DEF Uses, UseCount, EncryptWalletFails, Increment, Absent
  <2>3. OpenHandleHasDb' /\ HandleIsCounted' /\ EncryptionIsOpen' /\ StoppedIsClosed'
    BY <2>1, UseParts DEF OpenHandleHasDb, HandleIsCounted, EncryptionIsOpen, StoppedIsClosed
  <2> QED BY <1>t, <2>2, <2>3, UseJoin
<1>3. CASE EncryptKeys
  <2>1. PICK s \in HandleState :
          handle' = [handle EXCEPT ![Encryption] = s] /\ SameUse(s, handle[Encryption])
    BY <1>t, <1>3, EncryptionEffect
  <2>2. Counted' = Counted
    BY <1>t, <2>1, CountedSame DEF SameUse
  <2>3. \A g \in Handles : handle'[g].pdb = handle[g].pdb /\ handle'[g].counted = handle[g].counted
    BY <1>t, <2>1, Replaced DEF SameUse
  <2>4. Uses' = UseCount'
    BY <1>3, <2>2, UseParts DEF Uses, UseCount, EncryptKeys
  <2>5. HandleIsCounted' /\ EncryptionIsOpen' /\ OpenHandleHasDb' /\ StoppedIsClosed'
    BY <1>3, <1>t, <2>3, UseParts
       DEF HandleIsCounted, EncryptionIsOpen, OpenHandleHasDb, StoppedIsClosed, EncryptKeys
  <2> QED BY <1>t, <2>4, <2>5, UseJoin
<1>4. CASE CommitEncryption
  <2>1. handle' = [handle EXCEPT ![Encryption] = Closed] /\ handle[Encryption].counted
        /\ running /\ running' /\ leaked' = leaked /\ mapDb' = mapDb
        /\ encrypting' = "pool"
    BY <1>t, <1>4, UseParts DEF CommitEncryption, EncryptionIsOpen, HandleIsCounted
  <2>2. Cardinality(Counted') = Cardinality(Counted) - 1
    BY <1>t, <2>1, CountedRemove, ClosedType
  <2>3. mapFileUseCount \in Nat \ {0} /\ mapFileUseCount' = mapFileUseCount - 1
    BY <1>4, <1>t, <2>1, CountedIsUsed DEF CommitEncryption, Counted
  <2>4. Uses' = UseCount'
    BY <1>n, <2>1, <2>2, <2>3, UseParts DEF Uses, UseCount, Absent
  <2>5. HandleIsCounted' /\ EncryptionIsOpen' /\ OpenHandleHasDb' /\ StoppedIsClosed'
    BY <1>t, <2>1, Replaced, ClosedType, UseParts
       DEF HandleIsCounted, EncryptionIsOpen, OpenHandleHasDb, StoppedIsClosed
  <2> QED BY <1>t, <2>4, <2>5, UseJoin
<1>5. CASE NewKeyPool
  <2>1. /\ UNCHANGED <<handle, leaked, running>> /\ running /\ mapDb'
        /\ encrypting = "pool" /\ encrypting' = "rewrite"
        /\ UseCount' = UseCount /\ Uses' = Uses
    BY <1>5, <1>n DEF NewKeyPool, UseCount, Uses, Counted, Absent
  <2>2. HandleIsCounted' /\ EncryptionIsOpen' /\ OpenHandleHasDb' /\ StoppedIsClosed'
    BY <2>1, UseParts DEF HandleIsCounted, EncryptionIsOpen, OpenHandleHasDb, StoppedIsClosed
  <2> QED BY <1>t, <2>1, <2>2, UseParts, UseJoin
<1>6. CASE RewriteCopies
  <2>1. ~leaked /\ Counted = {} /\ \A h \in Handles : ~handle[h].pdb
    BY <1>6, UnusedIsClosed DEF RewriteCopies
  <2>2. UNCHANGED <<handle, leaked, running>> /\ running /\ mapFileUseCount' = 0
        /\ encrypting # "keys" /\ encrypting' # "keys"
    BY <1>6 DEF RewriteCopies
  <2>3. Uses' = 0 /\ UseCount' = 0
    BY <2>1, <2>2, FS_EmptySet DEF Uses, UseCount, Counted, Absent
  <2>4. HandleIsCounted' /\ EncryptionIsOpen' /\ OpenHandleHasDb' /\ StoppedIsClosed'
    BY <2>1, <2>2, UseParts
       DEF HandleIsCounted, EncryptionIsOpen, OpenHandleHasDb, StoppedIsClosed
  <2> QED BY <1>t, <2>3, <2>4, UseJoin
<1>7. CASE RewriteRemoves \/ RewriteRenames \/ RewriteGivesUp
  BY <1>t, <1>7, UnchangedUse DEF RewriteRemoves, RewriteRenames, RewriteGivesUp
<1> QED BY <1>1, <1>2, <1>3, <1>4, <1>5, <1>6, <1>7 DEF EncryptStep

LEMMA StopUse ==
    ASSUME UseInv, Exit \/ Crash \/ PowerFailure \/ LoadWallet
    PROVE  UseInv'
<1> USE DEF disk, flusher, process, history
<1>t. WalletDBTypeOK'
  BY StopType DEF UseInv
<1>1. CASE Exit \/ Crash \/ PowerFailure
  <2>1. Stop
    BY <1>1 DEF Exit, Crash, PowerFailure
  <2>2. ~running' /\ ~leaked' /\ encrypting' = "no" /\ \A h \in Handles : handle'[h] = Closed
    BY <2>1 DEF Stop
  <2>3. HandleIsCounted' /\ EncryptionIsOpen' /\ OpenHandleHasDb' /\ StoppedIsClosed'
    BY <2>2, ClosedType DEF Handles, HandleIsCounted, EncryptionIsOpen, OpenHandleHasDb, StoppedIsClosed
  <2> QED BY <1>t, <2>2, <2>3, UseJoin
<1>2. CASE LoadWallet
  <2>1. UNCHANGED <<handle, leaked, encrypting>> /\ mapFileUseCount' = 0
        /\ ~leaked /\ encrypting = "no" /\ \A h \in Handles : handle[h] = Closed
    BY <1>2, UseParts DEF LoadWallet, StoppedIsClosed
  <2>2. Counted' = {}
    BY <2>1, ClosedType DEF Counted
  <2>3. Uses' = 0 /\ UseCount' = 0
    BY <2>1, <2>2, FS_EmptySet DEF Uses, UseCount, Absent
  <2>4. HandleIsCounted' /\ EncryptionIsOpen' /\ OpenHandleHasDb' /\ StoppedIsClosed'
    BY <2>1, ClosedType
       DEF Handles, HandleIsCounted, EncryptionIsOpen, OpenHandleHasDb, StoppedIsClosed
  <2> QED BY <1>t, <2>3, <2>4, UseJoin
<1> QED BY <1>1, <1>2

LEMMA InitUse == Init => UseInv
<1> SUFFICES ASSUME Init PROVE UseInv
  OBVIOUS
<1>1. PlainKeys \subseteq Record
  BY DEF Record
<1>2. survivors \subseteq SUBSET Record
  BY <1>1 DEF Init
<1>3. handle \in [Handles -> HandleState] /\ \A h \in Handles : handle[h] = Closed
  BY ClosedType DEF Init
<1>4. WalletDBTypeOK
  BY <1>1, <1>2, <1>3 DEF Init, WalletDBTypeOK
<1>5. {h \in Handles : handle[h].counted} = {}
  BY <1>3, ClosedType
<1>6. UseCountIsExact
  BY <1>5, FS_EmptySet DEF Init, UseCountIsExact, Absent
<1>7. OpenHandleHasDb /\ HandleIsCounted /\ EncryptionIsOpen /\ StoppedIsClosed
  BY <1>3, ClosedType
     DEF Init, OpenHandleHasDb, HandleIsCounted, EncryptionIsOpen, StoppedIsClosed, Handles
<1> QED BY <1>4, <1>6, <1>7 DEF UseInv

LEMMA NextUse == UseInv /\ [Next]_vars => UseInv'
<1> SUFFICES ASSUME UseInv, [Next]_vars PROVE UseInv'
  OBVIOUS
<1>1. CASE \E h \in Handles : HandleStep(h)
  BY <1>1, HandleStepUse
<1>2. CASE FlushThread \/ BackupWallet \/ Shutdown
  BY <1>2, FlushStepUse
<1>3. CASE EncryptStep
  BY <1>3, EncryptStepUse
<1>4. CASE Exit \/ Crash \/ PowerFailure \/ LoadWallet
  BY <1>4, StopUse
<1>5. CASE UNCHANGED vars
  BY <1>5 DEF vars, disk, flusher, process, history, UseInv, WalletDBTypeOK, UseCountIsExact,
              OpenHandleHasDb, HandleIsCounted, EncryptionIsOpen, StoppedIsClosed
<1> QED BY <1>1, <1>2, <1>3, <1>4, <1>5 DEF Next

(***************************************************************************)
(* Every variable of the wallet database keeps its type; in particular the *)
(* use count never goes below zero (CDB::Close, db.cpp).                   *)
(***************************************************************************)
THEOREM WalletDBTypeCorrect == Spec => []WalletDBTypeOK
<1>1. UseInv => WalletDBTypeOK
  BY DEF UseInv
<1> QED BY <1>1, InitUse, NextUse, PTL DEF Spec

(***************************************************************************)
(* A thread that has a CDB has an open Db: the use count, exact at every   *)
(* step, keeps the flush thread, a backup, a shutdown and CDB::Rewrite     *)
(* from closing it (db.cpp, walletdb.cpp).                                 *)
(***************************************************************************)
THEOREM DbStaysOpenWhileUsed == Spec => [](OpenHandleHasDb /\ UseCountIsExact)
<1>1. UseInv => OpenHandleHasDb /\ UseCountIsExact
  BY DEF UseInv
<1> QED BY <1>1, InitUse, NextUse, PTL DEF Spec

(***************************************************************************)
(* Durability and encryption.                                              *)
(***************************************************************************)
\* Only EncryptWallet's handle touches keys, and a read-only one nothing.
HandlesWriteTxs ==
    \A h \in Handles :
        /\ handle[h].log \subseteq TxRecords
        /\ h # Encryption => handle[h].puts \subseteq TxRecords /\ handle[h].dels = {}
        /\ h # Encryption /\ handle[h].fReadOnly => handle[h].log = {} /\ handle[h].puts = {}

LogsAreRecorded == \A h \in Handles : handle[h].log \subseteq records \cup dropped

\* CDB::Rewrite dropped no key.
KeysKept == dropped \subseteq TxRecords

\* fUseCrypto, and the records, and what the encryption is about to commit.
KeysAgree ==
    /\ encrypting \notin {"no", "keys"} => crypted
    /\ KeysKept /\ running =>
          IF crypted /\ encrypting # "keys" THEN AllCrypted(records) ELSE AllPlain(records)
    /\ KeysKept /\ encrypting = "keys" =>
          IF crypted
          THEN /\ handle[Encryption].puts = {MasterKey} \cup {Crypted(k) : k \in Keys}
               /\ handle[Encryption].dels = PlainKeys
          ELSE handle[Encryption].puts = {MasterKey} /\ handle[Encryption].dels = {}

DurableInv ==
    /\ HandlesWriteTxs /\ written \subseteq TxRecords
    /\ records \in survivors
    /\ LogsAreRecorded /\ ClosedIsDurable
    /\ KeysAgree /\ KeysSurvive

LEMMA KeysIgnoreTxs ==
    ASSUME NEW s, NEW p \in SUBSET TxRecords
    PROVE  /\ AllPlain(s) => AllPlain(s \cup p)
           /\ AllCrypted(s) => AllCrypted(s \cup p)
<1>1. /\ p \cap PlainKeys = {} /\ MasterKey \notin p
      /\ \A k \in Keys \cup NewKeys : Crypted(k) \notin p
  BY RecordKinds DEF TxRecords, PlainKeys
<1> QED BY <1>1 DEF AllPlain, AllCrypted

\* A step of a handle other than EncryptWallet's, which adds p to the records.
LEMMA HandleDurable ==
    ASSUME UseInv, DurableInv, NEW h \in Handles, h # Encryption, NEW s \in HandleState,
           handle' = [handle EXCEPT ![h] = s],
           s.dels = {}, s.puts \subseteq TxRecords, s.log \subseteq TxRecords,
           s.fReadOnly => s.log = {} /\ s.puts = {},
           NEW p \in SUBSET TxRecords, records' = records \cup p,
           survivors' \subseteq survivors \cup {records'}, records' \in survivors',
           s.log \subseteq records' \cup dropped,
           UNCHANGED <<crypted, encrypting, running, dropped>>,
           written' \subseteq TxRecords,
           \A x \in survivors' : written' \subseteq x \cup dropped
    PROVE  DurableInv'
<1>1. /\ handle'[h] = s /\ \A g \in Handles \ {h} : handle'[g] = handle[g]
  BY Replaced DEF UseInv, WalletDBTypeOK
<1>2. Encryption \in Handles
  BY DEF Handles
<1>3. HandlesWriteTxs'
  BY <1>1 DEF DurableInv, HandlesWriteTxs
<1>4. LogsAreRecorded' /\ ClosedIsDurable'
  BY <1>1 DEF DurableInv, LogsAreRecorded, ClosedIsDurable
<1>5. /\ AllPlain(records) => AllPlain(records')
      /\ AllCrypted(records) => AllCrypted(records')
  BY KeysIgnoreTxs
<1>6. KeysAgree'
  BY <1>1, <1>2, <1>5 DEF DurableInv, KeysAgree, KeysKept
<1>7. KeysSurvive'
  BY <1>5 DEF DurableInv, KeysSurvive
<1> QED BY <1>3, <1>4, <1>6, <1>7 DEF DurableInv

LEMMA HandleStepDurable ==
    ASSUME UseInv, DurableInv, NEW h \in Handles, HandleStep(h)
    PROVE  DurableInv'
<1> USE DEF disk, flusher, process, history
<1>t. WalletDBTypeOK /\ handle[h] \in HandleState /\ h # Encryption
  BY HandleStepHandle DEF UseInv, WalletDBTypeOK
<1>d. /\ handle[h].dels = {} /\ handle[h].puts \subseteq TxRecords
      /\ handle[h].log \subseteq TxRecords
      /\ handle[h].fReadOnly => handle[h].log = {} /\ handle[h].puts = {}
      /\ handle[h].log \subseteq records \cup dropped
      /\ records \in survivors /\ written \subseteq TxRecords
      /\ \A x \in survivors : written \subseteq x \cup dropped
  BY <1>t DEF DurableInv, HandlesWriteTxs, LogsAreRecorded, ClosedIsDurable
<1>1. CASE OpenHandle(h)
  <2>1. PICK s \in HandleState : /\ handle' = [handle EXCEPT ![h] = s]
                                 /\ s.puts = {} /\ s.dels = {} /\ s.log = {}
    BY <1>t, <1>1, OpenEffect
  <2>2. UNCHANGED <<records, survivors, onFile, crypted, encrypting, running, written, dropped>>
    BY <1>1, Zenon DEF OpenHandle
  <2> QED BY <1>t, <1>d, <2>1, <2>2, HandleDurable
<1>2. CASE TxnBegin(h)
  <2>1. PICK s \in HandleState :
          /\ handle' = [handle EXCEPT ![h] = s] /\ SameUse(s, handle[h]) /\ ~s.fReadOnly
          /\ s.puts = handle[h].puts /\ s.dels = handle[h].dels /\ s.log = handle[h].log
    BY <1>t, <1>2, TxnBeginEffect
  <2>2. UNCHANGED <<records, survivors, onFile, crypted, encrypting, running, written, dropped>>
    BY <1>2 DEF TxnBegin
  <2> QED BY <1>t, <1>d, <2>1, <2>2, HandleDurable
<1>3. CASE TxnAbort(h) /\ ~TxnCommit(h)
  <2>1. PICK s \in HandleState :
          /\ handle' = [handle EXCEPT ![h] = s] /\ SameUse(s, handle[h])
          /\ s.puts = {} /\ s.dels = {} /\ s.log = handle[h].log
    BY <1>t, <1>3, TxnEndEffect
  <2>2. UNCHANGED <<records, survivors, onFile, crypted, encrypting, running, written, dropped>>
    BY <1>3 DEF TxnAbort
  <2> QED BY <1>t, <1>d, <2>1, <2>2, HandleDurable DEF SameUse
<1>4. CASE TxnCommit(h)
  <2>1. PICK s \in HandleState :
          /\ handle' = [handle EXCEPT ![h] = s] /\ SameUse(s, handle[h])
          /\ s.puts = {} /\ s.dels = {} /\ s.log = handle[h].log \cup handle[h].puts
    BY <1>t, <1>4, TxnEndEffect
  <2>2. /\ UNCHANGED <<onFile, crypted, encrypting, running, written, dropped>>
        /\ Commit(handle[h].puts, {})
    BY <1>d, <1>4 DEF TxnCommit
  <2>3. /\ records' = records \cup handle[h].puts
        /\ survivors' = survivors \cup {records'}
    BY <2>2 DEF Commit
  <2>4. /\ s.log \subseteq TxRecords /\ s.fReadOnly => s.log = {}
        /\ s.log \subseteq records' \cup dropped
        /\ \A x \in survivors' : written' \subseteq x \cup dropped
    BY <1>d, <2>1, <2>2, <2>3 DEF SameUse
  <2> QED BY ZenonT(40), <1>t, <1>d, <2>1, <2>2, <2>3, <2>4, HandleDurable
<1>5. CASE \E t \in Txs : Write(h, t)
  <2>1. PICK t \in Txs : Write(h, t)
    BY <1>5
  <2>2. PICK s \in HandleState :
          /\ handle' = [handle EXCEPT ![h] = s] /\ ~s.fReadOnly /\ s.dels = handle[h].dels
          /\ s.puts \subseteq handle[h].puts \cup {Tx(t)}
          /\ IF handle[h].activeTxn THEN s.log = handle[h].log
                                    ELSE s.log = handle[h].log \cup {Tx(t)}
    BY <1>t, <2>1, WriteEffect
  <2>3. UNCHANGED <<onFile, crypted, encrypting, running, written, dropped>>
    BY <2>1 DEF Write
  <2>4. {Tx(t)} \subseteq TxRecords
    BY DEF TxRecords
  <2>5. s.dels = {} /\ s.puts \subseteq TxRecords /\ s.log \subseteq TxRecords
    BY <1>d, <2>2, <2>4
  <2>6. CASE handle[h].activeTxn
    <3>1. UNCHANGED <<records, survivors>>
      BY <2>1, <2>6 DEF Write
    <3> QED BY <1>t, <1>d, <2>2, <2>3, <2>5, <2>6, <3>1, HandleDurable
  <2>7. CASE ~handle[h].activeTxn
    <3>1. records' = records \cup {Tx(t)} /\ survivors' = survivors \cup {records'}
      BY <2>1, <2>7 DEF Write, Commit
    <3>2. /\ s.log \subseteq records' \cup dropped
          /\ \A x \in survivors' : written' \subseteq x \cup dropped
      BY <1>d, <2>2, <2>3, <2>7, <3>1
    <3> QED BY <1>t, <1>d, <2>2, <2>3, <2>4, <2>5, <3>1, <3>2, HandleDurable
  <2> QED BY <2>6, <2>7
<1>6. CASE Close(h)
  <2>1. PICK s \in HandleState :
          /\ handle' = [handle EXCEPT ![h] = s] /\ s.fReadOnly = handle[h].fReadOnly
          /\ s.puts = {} /\ s.dels = {} /\ s.log = handle[h].log
    BY <1>t, <1>6, CloseEffect
  <2>2. /\ UNCHANGED <<records, onFile, crypted, encrypting, running, dropped>>
        /\ written' = written \cup handle[h].log
        /\ survivors' = {records} \/ (handle[h].fReadOnly /\ survivors' = survivors)
    BY <1>6 DEF Close, Checkpoint
  <2>3. \A x \in survivors' : written' \subseteq x \cup dropped
    BY <1>d, <2>2
  <2> QED BY ZenonT(40), <1>t, <1>d, <2>1, <2>2, <2>3, HandleDurable
<1>7. CASE Uncount(h)
  <2>1. handle' = [handle EXCEPT ![h] = Closed] /\ Closed \in HandleState
    BY <1>7, ClosedType DEF Uncount
  <2>2. Closed.puts = {} /\ Closed.dels = {} /\ Closed.log = {} /\ ~Closed.fReadOnly
    BY DEF Closed
  <2>3. UNCHANGED <<records, survivors, onFile, crypted, encrypting, running, written, dropped>>
    BY <1>7 DEF Uncount
  <2> QED BY <1>t, <1>d, <2>1, <2>2, <2>3, HandleDurable
<1> QED BY <1>1, <1>2, <1>3, <1>4, <1>5, <1>6, <1>7 DEF HandleStep

\* A checkpoint changes nothing but survivors.
LEMMA CheckpointDurable ==
    ASSUME DurableInv, survivors' \in {survivors, {records}},
           UNCHANGED <<handle, records, onFile, crypted, encrypting, running, written, dropped>>
    PROVE  DurableInv'
BY DEF DurableInv, HandlesWriteTxs, LogsAreRecorded, ClosedIsDurable, KeysAgree, KeysKept,
       KeysSurvive

LEMMA FlushStepDurable ==
    ASSUME DurableInv, FlushThread \/ BackupWallet \/ Shutdown
    PROVE  DurableInv'
<1> USE DEF disk, flusher, process, history
<1>1. CASE FlushThreadSees
  BY <1>1, CheckpointDurable DEF FlushThreadSees
<1>2. CASE TwoSecondsPass
  BY <1>2, CheckpointDurable DEF TwoSecondsPass
<1>3. CASE FlushWallet
  BY <1>3, CheckpointDurable DEF FlushWallet, FlushFile, Checkpoint
<1>4. CASE BackupWallet
  BY <1>4, CheckpointDurable DEF BackupWallet, FlushFile, Checkpoint
<1>5. CASE Shutdown
  BY <1>5, CheckpointDurable DEF Shutdown, FlushFile, Checkpoint
<1> QED BY <1>1, <1>2, <1>3, <1>4, <1>5 DEF FlushThread

LEMMA EncryptStepDurable ==
    ASSUME UseInv, DurableInv, EncryptStep
    PROVE  DurableInv'
<1> USE DEF disk, flusher, process, history
<1>t. WalletDBTypeOK /\ handle \in [Handles -> HandleState] /\ Encryption \in Handles
  BY DEF UseInv, WalletDBTypeOK, Handles
<1>1. CASE EncryptWallet
  <2>1. PICK s \in HandleState :
          /\ handle' = [handle EXCEPT ![Encryption] = s]
          /\ s.puts = {MasterKey} /\ s.dels = {} /\ s.log = {}
    BY <1>t, <1>1, EncryptionEffect
  <2>2. handle'[Encryption] = s /\ \A g \in Handles \ {Encryption} : handle'[g] = handle[g]
    BY <1>t, <2>1, Replaced
  <2>3. /\ UNCHANGED <<records, survivors, onFile, crypted, running, written, dropped>>
        /\ running /\ ~crypted /\ encrypting = "no" /\ encrypting' = "keys"
    BY <1>1 DEF EncryptWallet, csWalletFree
  <2>4. HandlesWriteTxs' /\ LogsAreRecorded'
    BY <2>1, <2>2, <2>3 DEF DurableInv, HandlesWriteTxs, LogsAreRecorded
  <2>5. ClosedIsDurable' /\ KeysSurvive'
    BY <2>3 DEF DurableInv, ClosedIsDurable, KeysSurvive
  <2>6. KeysAgree'
    BY <2>1, <2>2, <2>3 DEF DurableInv, KeysAgree, KeysKept
  <2> QED BY <2>3, <2>4, <2>5, <2>6 DEF DurableInv
<1>2. CASE EncryptWalletFails
  BY <1>2, CheckpointDurable DEF EncryptWalletFails
<1>3. CASE EncryptKeys
  <2>1. PICK s \in HandleState :
          /\ handle' = [handle EXCEPT ![Encryption] = s] /\ s.log = handle[Encryption].log
          /\ s.puts = handle[Encryption].puts \cup {Crypted(k) : k \in HeldKeys}
          /\ s.dels = {Plain(k) : k \in HeldKeys}
    BY <1>t, <1>3, EncryptionEffect
  <2>2. handle'[Encryption] = s /\ \A g \in Handles \ {Encryption} : handle'[g] = handle[g]
    BY <1>t, <2>1, Replaced
  <2>3. /\ UNCHANGED <<records, survivors, onFile, encrypting, running, written, dropped>>
        /\ running /\ ~crypted /\ crypted' /\ encrypting = "keys"
    BY <1>3 DEF EncryptKeys
  <2>4. HandlesWriteTxs' /\ LogsAreRecorded'
    BY <2>1, <2>2, <2>3 DEF DurableInv, HandlesWriteTxs, LogsAreRecorded
  <2>5. ClosedIsDurable' /\ KeysSurvive'
    BY <2>3 DEF DurableInv, ClosedIsDurable, KeysSurvive
  <2>6. KeysKept => /\ AllPlain(records) /\ handle[Encryption].puts = {MasterKey}
    BY <2>3 DEF DurableInv, KeysAgree, KeysKept
  <2>7. KeysKept => HeldKeys = Keys
    BY <2>6 DEF AllPlain, HeldKeys, PlainKeys
  <2>8. KeysAgree'
    BY <2>1, <2>2, <2>3, <2>6, <2>7 DEF DurableInv, KeysAgree, KeysKept, PlainKeys
  <2> QED BY <2>3, <2>4, <2>5, <2>8 DEF DurableInv
<1>4. CASE CommitEncryption
  <2>1. handle' = [handle EXCEPT ![Encryption] = Closed] /\ Closed \in HandleState
        /\ Closed.log = {} /\ Closed.puts = {} /\ Closed.dels = {}
    BY <1>4, ClosedType DEF CommitEncryption, Closed
  <2>2. handle'[Encryption] = Closed /\ \A g \in Handles \ {Encryption} : handle'[g] = handle[g]
    BY <1>t, <2>1, Replaced
  <2>3. /\ UNCHANGED <<onFile, crypted, running, written, dropped>>
        /\ running /\ crypted /\ encrypting = "keys" /\ encrypting' = "pool"
        /\ records' = (records \ handle[Encryption].dels) \cup handle[Encryption].puts
        /\ survivors' = {records'}
    BY <1>4 DEF CommitEncryption
  <2>4. HandlesWriteTxs'
    BY <2>1, <2>2, <2>3 DEF DurableInv, HandlesWriteTxs
  <2>5. ASSUME KeysKept
        PROVE  records' = (records \ PlainKeys) \cup {MasterKey} \cup {Crypted(k) : k \in Keys}
    BY <2>3, <2>5 DEF DurableInv, KeysAgree
  <2>6. handle[Encryption].dels \subseteq PlainKeys /\ TxRecords \cap PlainKeys = {}
    BY <1>t, RecordKinds DEF HandleState, TxRecords, PlainKeys
  <2>7. LogsAreRecorded' /\ ClosedIsDurable'
    BY <2>1, <2>2, <2>3, <2>6
       DEF DurableInv, LogsAreRecorded, ClosedIsDurable, HandlesWriteTxs
  <2>8. KeysKept => AllCrypted(records')
    BY <2>5, RecordKinds DEF AllCrypted, PlainKeys
  <2>9. KeysSurvive' /\ KeysAgree'
    BY <2>3, <2>8 DEF DurableInv, KeysSurvive, KeysAgree, KeysKept
  <2> QED BY <2>3, <2>4, <2>7, <2>9 DEF DurableInv
<1>5. CASE NewKeyPool
  <2>1. /\ UNCHANGED <<handle, onFile, crypted, running, written, dropped>>
        /\ running /\ encrypting = "pool" /\ encrypting' = "rewrite"
        /\ records' = records \cup {Crypted(k) : k \in NewKeys} /\ survivors' = {records'}
    BY <1>5 DEF NewKeyPool
  <2>2. HandlesWriteTxs' /\ LogsAreRecorded' /\ ClosedIsDurable'
    BY <2>1 DEF DurableInv, HandlesWriteTxs, LogsAreRecorded, ClosedIsDurable
  <2>3. crypted /\ (KeysKept => AllCrypted(records))
    BY <2>1 DEF DurableInv, KeysAgree, KeysKept
  <2>4. KeysKept => AllCrypted(records')
    BY <2>1, <2>3, RecordKinds DEF AllCrypted, PlainKeys
  <2>5. KeysSurvive' /\ KeysAgree'
    BY <2>1, <2>3, <2>4 DEF DurableInv, KeysSurvive, KeysAgree, KeysKept
  <2> QED BY <2>1, <2>2, <2>5 DEF DurableInv
<1>6. CASE RewriteCopies
  <2>1. /\ UNCHANGED <<handle, records, crypted, running, written, dropped>>
        /\ survivors' = {records} /\ encrypting = "rewrite"
        /\ encrypting' \in {"no", "copied"}
    BY <1>6 DEF RewriteCopies, Checkpoint
  <2>2. HandlesWriteTxs' /\ LogsAreRecorded' /\ ClosedIsDurable' /\ KeysSurvive'
    BY <2>1 DEF DurableInv, HandlesWriteTxs, LogsAreRecorded, ClosedIsDurable,
                KeysSurvive
  <2>3. KeysAgree'
    BY <2>1 DEF DurableInv, KeysAgree, KeysKept
  <2> QED BY <2>1, <2>2, <2>3 DEF DurableInv
<1>7. CASE RewriteRemoves
  <2>1. /\ UNCHANGED <<handle, records, survivors, crypted, running, written, dropped>>
        /\ encrypting = "copied" /\ encrypting' \in {"removed", "no"}
    BY <1>7 DEF RewriteRemoves
  <2> QED BY <2>1 DEF DurableInv, HandlesWriteTxs, LogsAreRecorded, ClosedIsDurable,
                      KeysSurvive, KeysAgree, KeysKept
<1>10. CASE RewriteRenames
  <2>1. /\ UNCHANGED <<handle, crypted, running, written>>
        /\ running /\ encrypting = "removed" /\ encrypting' = "no"
        /\ survivors' = {records'}
    BY <1>10 DEF RewriteRenames
  <2>2. PICK r : records' = records \ {r} /\ dropped' = dropped \cup {r}
    BY <1>10 DEF RewriteRenames
  <2>3. HandlesWriteTxs' /\ LogsAreRecorded' /\ ClosedIsDurable'
    BY <2>1, <2>2 DEF DurableInv, HandlesWriteTxs, LogsAreRecorded, ClosedIsDurable
  <2>4. crypted /\ (KeysKept => AllCrypted(records))
    BY <2>1 DEF DurableInv, KeysAgree
  <2>5. ASSUME KeysKept'
        PROVE  AllCrypted(records')
    <3>1. KeysKept /\ r \in TxRecords
      BY <2>2, <2>5 DEF KeysKept
    <3>2. r # MasterKey /\ \A k \in Keys : r # Crypted(k)
      BY <3>1, RecordKinds DEF TxRecords
    <3> QED BY <2>2, <2>4, <3>1, <3>2 DEF AllCrypted
  <2>6. KeysSurvive' /\ KeysAgree'
    BY <2>1, <2>4, <2>5 DEF KeysSurvive, KeysAgree, KeysKept
  <2> QED BY <2>1, <2>3, <2>6 DEF DurableInv
<1>8. CASE RewriteGivesUp
  <2>1. /\ UNCHANGED <<handle, records, survivors, onFile, crypted, running, written, dropped>>
        /\ encrypting = "rewrite" /\ encrypting' = "no"
    BY <1>8 DEF RewriteGivesUp
  <2> QED BY <2>1 DEF DurableInv, HandlesWriteTxs, LogsAreRecorded, ClosedIsDurable,
                      KeysSurvive, KeysAgree, KeysKept
<1> QED BY <1>1, <1>2, <1>3, <1>4, <1>5, <1>6, <1>7, <1>8, <1>10 DEF EncryptStep

LEMMA StopDurable ==
    ASSUME UseInv, DurableInv, Exit \/ Crash \/ PowerFailure \/ LoadWallet
    PROVE  DurableInv'
<1> USE DEF disk, flusher, process, history
<1>c. Closed.log = {} /\ Closed.puts = {} /\ Closed.dels = {}
  BY DEF Closed
<1>1. CASE Exit \/ Crash \/ PowerFailure
  <2>1. /\ UNCHANGED <<onFile, written, dropped>>
        /\ records' \in survivors /\ records' \in survivors' /\ survivors' \subseteq survivors
    <3>1. CASE Exit
      BY <3>1 DEF Exit, Checkpoint, DurableInv
    <3>2. CASE Crash
      BY <3>2 DEF Crash, DurableInv
    <3>3. CASE PowerFailure
      BY <3>3 DEF PowerFailure, DurableInv
    <3> QED BY <1>1, <3>1, <3>2, <3>3
  <2>2. Stop
    BY <1>1 DEF Exit, Crash, PowerFailure
  <2>3. ~running' /\ encrypting' = "no" /\ \A h \in Handles : handle'[h] = Closed
    BY <2>2 DEF Stop
  <2>4. HandlesWriteTxs' /\ LogsAreRecorded'
    BY <1>c, <2>3 DEF HandlesWriteTxs, LogsAreRecorded
  <2>5. ClosedIsDurable' /\ KeysSurvive' /\ KeysAgree'
    BY <2>1, <2>3 DEF DurableInv, ClosedIsDurable, KeysSurvive, KeysAgree, KeysKept
  <2> QED BY <2>1, <2>4, <2>5 DEF DurableInv
<1>2. CASE LoadWallet
  <2>1. /\ UNCHANGED <<handle, encrypting, written>> /\ running'
        /\ records' \in {records, {}} /\ survivors' = {records'}
        /\ dropped' = dropped \cup (records \ records')
        /\ crypted' = (MasterKey \in records')
    BY <1>2 DEF LoadWallet
  <2>2. encrypting = "no" /\ \A h \in Handles : handle[h] = Closed
    BY <1>2, UseParts DEF LoadWallet, StoppedIsClosed
  <2>3. HandlesWriteTxs' /\ LogsAreRecorded'
    BY <1>c, <2>1, <2>2 DEF HandlesWriteTxs, LogsAreRecorded
  <2>4. ClosedIsDurable'
    BY <2>1 DEF DurableInv, ClosedIsDurable
  \* If wallet.dat is gone and no key with it, there was none.
  <2>5. ASSUME KeysKept'
        PROVE  IF crypted' THEN AllCrypted(records') ELSE AllPlain(records')
    <3>1. AllPlain(records) \/ AllCrypted(records)
      BY <2>1, <2>5 DEF DurableInv, KeysSurvive, KeysKept
    <3>2. CASE records' = records
      BY <2>1, <3>1, <3>2 DEF AllPlain, AllCrypted
    <3>3. CASE records' = {}
      <4>1. records \subseteq TxRecords
        BY <2>1, <2>5, <3>3 DEF KeysKept
      <4>2. MasterKey \notin records /\ PlainKeys \cap records = {}
        BY <4>1, RecordKinds DEF TxRecords, PlainKeys
      <4>3. PlainKeys = {}
        BY <3>1, <4>2 DEF AllPlain, AllCrypted
      <4> QED BY <2>1, <3>3, <4>3 DEF AllPlain
    <3> QED BY <2>1, <3>2, <3>3
  <2>6. KeysSurvive' /\ KeysAgree'
    BY <2>1, <2>2, <2>5 DEF KeysSurvive, KeysAgree, KeysKept
  <2> QED BY <2>1, <2>3, <2>4, <2>6 DEF DurableInv
<1> QED BY <1>1, <1>2

LEMMA InitDurable == Init => DurableInv
<1> SUFFICES ASSUME Init PROVE DurableInv
  OBVIOUS
<1>1. AllPlain(PlainKeys)
  BY RecordKinds DEF AllPlain, PlainKeys
<1>2. \A h \in Handles : handle[h] = Closed
  BY DEF Init
<1>3. HandlesWriteTxs /\ LogsAreRecorded
  BY <1>2 DEF HandlesWriteTxs, LogsAreRecorded, Closed
<1>4. ClosedIsDurable /\ KeysSurvive /\ KeysAgree
  BY <1>1 DEF Init, ClosedIsDurable, KeysSurvive, KeysAgree, KeysKept
<1> QED BY <1>3, <1>4 DEF Init, DurableInv

LEMMA NextDurable == UseInv /\ DurableInv /\ [Next]_vars => DurableInv'
<1> SUFFICES ASSUME UseInv, DurableInv, [Next]_vars PROVE DurableInv'
  OBVIOUS
<1>1. CASE \E h \in Handles : HandleStep(h)
  BY <1>1, HandleStepDurable
<1>2. CASE FlushThread \/ BackupWallet \/ Shutdown
  BY <1>2, FlushStepDurable
<1>3. CASE EncryptStep
  BY <1>3, EncryptStepDurable
<1>4. CASE Exit \/ Crash \/ PowerFailure \/ LoadWallet
  BY <1>4, StopDurable
<1>5. CASE UNCHANGED vars
  BY <1>5, CheckpointDurable DEF vars, disk, process, history
<1> QED BY <1>1, <1>2, <1>3, <1>4, <1>5 DEF Next

(***************************************************************************)
(* What was written through a closed CDB survives a power failure          *)
(* (CDB::Close, db.cpp), but for the records that CDB::Rewrite drops.      *)
(***************************************************************************)
THEOREM ClosedStaysDurable == Spec => []ClosedIsDurable
<1>1. DurableInv => ClosedIsDurable
  BY DEF DurableInv
<1> QED BY <1>1, InitUse, NextUse, InitDurable, NextDurable, PTL DEF Spec

(***************************************************************************)
(* The keys come back all plain or all encrypted, wherever EncryptWallet   *)
(* (wallet.cpp) and CDB::Rewrite (db.cpp) are cut short and after both are *)
(* done, as long as CDB::Rewrite drops no key: nothing is shown of a       *)
(* wallet whose first record is a key, and of a process that ends between  *)
(* the removal of wallet.dat and the renaming of its copy.                 *)
(***************************************************************************)
THEOREM KeysAlwaysSurvive == Spec => []KeysSurvive
<1>1. DurableInv => KeysSurvive
  BY DEF DurableInv
<1> QED BY <1>1, InitUse, NextUse, InitDurable, NextDurable, PTL DEF Spec
=============================================================================
