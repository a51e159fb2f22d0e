--------------------------- MODULE WalletTxProofs ---------------------------
(***************************************************************************)
(* Proofs about WalletTx, on top of what BlockChainProofs shows of the     *)
(* chain.  Each of the three properties is a statement about one block:    *)
(* that the wallet knows the transactions of the chain that ends in it,    *)
(* has marked what that chain spends, and has not marked more.  The        *)
(* invariant says it of the block that the wallet was told about last,     *)
(* which in the middle of a switch is cursor and not the block the         *)
(* database stands at.                                                     *)
(***************************************************************************)
EXTENDS WalletTx, BlockChainProofs

\* What a wallet is, whatever the moment.
IsWallet(w) ==
    /\ DOMAIN w \subseteq Tx
    /\ w \in [DOMAIN w -> WalletEntry]
    /\ \A t \in DOMAIN w : w[t].spent \subseteq 0 .. NOut[t] - 1

\* The transactions that AddToWalletIfInvolvingMe does not return from at
\* once.
Seen(w, T, fUpdate) == IF fUpdate THEN T ELSE T \ DOMAIN w

LEMMA MineIs ==
    ASSUME NEW o \in Mine
    PROVE  o[1] \in Tx /\ o = <<o[1], o[2]>> /\ o[2] \in MineOf(o[1])
<1>1. o \in Tx \X Nat /\ o[2] < NOut[o[1]]
  BY WalletAssumption DEF WalletAssumption
<1>2. o[1] \in Tx /\ o[2] \in Nat /\ o = <<o[1], o[2]>>
  BY <1>1
<1>3. NOut[o[1]] \in Nat
  BY <1>2, TxAssumption DEF TxAssumption
<1> QED BY <1>1, <1>2, <1>3 DEF MineOf

LEMMA MineOfType ==
    \A t : MineOf(t) \subseteq 0 .. NOut[t] - 1 /\ \A n \in MineOf(t) : <<t, n>> \in Mine
BY DEF MineOf

-----------------------------------------------------------------------------

\* What one call of Sync writes: entries are added, never removed; coins are
\* marked, never unmarked; a transaction that spends a coin of an entry is an
\* entry.
Wrote(w, At, seen, v) ==
    /\ IsWallet(v)
    /\ DOMAIN w \subseteq DOMAIN v /\ DOMAIN v \subseteq DOMAIN w \cup seen
    /\ \A t \in DOMAIN w : w[t].spent \subseteq v[t].spent
    /\ \A t \in DOMAIN v : \A n \in v[t].spent :
          \/ t \in DOMAIN w /\ n \in w[t].spent
          \/ n \in MineOf(t) /\ <<t, n>> \in SpentBy(seen)
    /\ \A t \in DOMAIN v : \A n \in MineOf(t) :
          <<t, n>> \in SpentBy(seen) => n \in v[t].spent
    /\ \A t \in seen : MineOf(t) # {} => t \in DOMAIN v
    /\ \A t \in seen : \A o \in Vin[t] \cap Mine :
          o[1] \in DOMAIN w \cup seen => t \in DOMAIN v
    /\ \A t \in DOMAIN v \cap seen : At[t] # Null => v[t].hashBlock = At[t]
    /\ \A t \in DOMAIN w :
          t \notin seen \/ At[t] = Null => v[t].hashBlock = w[t].hashBlock

LEMMA SyncWrites ==
    ASSUME NEW w, IsWallet(w), NEW T \in SUBSET Tx, NEW At \in [T -> Blocks \cup {Null}],
           NEW fUpdate \in BOOLEAN
    PROVE  Wrote(w, At, Seen(w, T, fUpdate), Sync(w, T, At, fUpdate))
<1> DEFINE seen == Seen(w, T, fUpdate)
           v == Sync(w, T, At, fUpdate)
           told == {t \in seen :
                      \/ t \in DOMAIN w \/ Involves(w, t)
                      \/ \E o \in Vin[t] \cap Mine : o[1] \in seen}
           hb(t) == IF t \in told /\ At[t] # Null THEN At[t]
                    ELSE IF t \in DOMAIN w THEN w[t].hashBlock ELSE Null
           sp(t) == (IF t \in DOMAIN w THEN w[t].spent ELSE {})
                      \cup {n \in MineOf(t) : <<t, n>> \in SpentBy(seen)}
<1>1. v = [t \in DOMAIN w \cup told |-> [hashBlock |-> hb(t), spent |-> sp(t)]]
  BY DEF Sync, Seen
<1>2. told \subseteq seen /\ seen \subseteq T
  BY DEF Seen
<1>3. \A t \in DOMAIN w \cup told : hb(t) \in Blocks \cup {Null}
  <2>1. \A t \in DOMAIN w : w[t].hashBlock \in Blocks \cup {Null}
    BY DEF IsWallet, WalletEntry
  <2>2. \A t \in T : At[t] \in Blocks \cup {Null}
    OBVIOUS
  <2> HIDE DEF told, seen
  <2> QED BY <1>2, <2>1, <2>2
<1>4. \A t \in DOMAIN w \cup told : sp(t) \subseteq 0 .. NOut[t] - 1
  <2>1. \A t \in DOMAIN w : w[t].spent \subseteq 0 .. NOut[t] - 1
    BY DEF IsWallet
  <2> HIDE DEF told, seen
  <2> QED BY <2>1, MineOfType
<1> DEFINE D == DOMAIN w \cup told
<1>5. \A t \in seen : MineOf(t) # {} => t \in told
  BY DEF Involves
<1>6. \A t \in seen : \A o \in Vin[t] \cap Mine : o[1] \in DOMAIN w \cup seen => t \in told
  BY DEF Involves
<1>7. \A t \in seen : t \in DOMAIN w => t \in told
  OBVIOUS
<1> HIDE DEF told, hb, sp, seen, v
<1>8. DOMAIN v = D /\ \A t \in D : v[t].hashBlock = hb(t) /\ v[t].spent = sp(t)
  BY <1>1
<1>9. IsWallet(v)
  <2>1. D \subseteq Tx
    BY <1>2 DEF IsWallet
  <2>2. \A t \in D : sp(t) \in SUBSET Nat
    <3>1. \A t \in D : NOut[t] \in Nat
      BY <2>1, TxAssumption DEF TxAssumption
    <3> QED BY <1>4, <3>1
  <2>3. v \in [D -> WalletEntry]
    BY <1>1, <1>3, <2>2 DEF WalletEntry
  <2> QED BY <1>4, <1>8, <2>1, <2>3 DEF IsWallet
<1>10. \A t \in DOMAIN w : w[t].spent \subseteq v[t].spent
  BY <1>8 DEF sp
<1>11. \A t \in DOMAIN v : \A n \in v[t].spent :
          \/ t \in DOMAIN w /\ n \in w[t].spent
          \/ n \in MineOf(t) /\ <<t, n>> \in SpentBy(seen)
  BY <1>8 DEF sp
<1>12. \A t \in DOMAIN v : \A n \in MineOf(t) :
          <<t, n>> \in SpentBy(seen) => n \in v[t].spent
  BY <1>8 DEF sp
<1>13. \A t \in DOMAIN v \cap seen : At[t] # Null => v[t].hashBlock = At[t]
  BY <1>7, <1>8 DEF hb
<1>14. \A t \in DOMAIN w :
          t \notin seen \/ At[t] = Null => v[t].hashBlock = w[t].hashBlock
  BY <1>2, <1>8 DEF hb
<1>15. DOMAIN w \subseteq DOMAIN v /\ DOMAIN v \subseteq DOMAIN w \cup seen
  BY <1>2, <1>8
<1> QED
  BY <1>5, <1>6, <1>8, <1>9, <1>10, <1>11, <1>12, <1>13, <1>14, <1>15
     DEF Wrote, v, seen
-----------------------------------------------------------------------------

\* The wallet's own transactions of a block.
OwnIn(x) == {t \in TxsOf[x] : MineOf(t) # {} \/ Vin[t] \cap Mine # {}}

\* Wallet w has the own transactions of the chain that ends in b,
Knows(w, b) == \A x \in Connected(b) : OwnIn(x) \subseteq DOMAIN w

\* with the block that each is in,
Places(w, b) == \A x \in Connected(b) : \A t \in OwnIn(x) : w[t].hashBlock = x

\* and has marked the coins that the chain spends.
Marks(w, b) ==
    \A t \in TxsOfChain(b) : \A n \in MineOf(t) :
        <<t, n>> \in SpentBy(TxsOfChain(b)) => n \in w[t].spent

\* Every coin that is marked is spent by an entry that is on the chain or may
\* still get there.
Backed(w, b) ==
    \A t \in DOMAIN w : \A n \in w[t].spent \cap MineOf(t) :
        \E u \in DOMAIN w :
            <<t, n>> \in Vin[u] /\ (u \in TxsOfChain(b) \/ u \notin IsStake)

LEMMA OwnOnChainIs ==
    OwnOnChain = UNION {OwnIn(x) : x \in Connected(db.hashBestChain)}
BY DEF OwnOnChain, OwnIn, TxsOfChain

\* A transaction of the chain with an own output is an entry.
LEMMA KnowsMine ==
    ASSUME NEW w, NEW b, Knows(w, b), NEW t \in TxsOfChain(b),
           MineOf(t) # {} \/ Vin[t] \cap Mine # {}
    PROVE  t \in DOMAIN w
BY DEF Knows, OwnIn, TxsOfChain

LEMMA KnowsLess ==
    ASSUME NEW w, NEW b \in Blocks, NEW c \in Chain[b], Knows(w, b)
    PROVE  Knows(w, c)
<1>1. Connected(c) \subseteq Connected(b)
  BY ChainMonotone DEF Connected
<1> QED BY <1>1 DEF Knows

\* What Sync leaves as it is: all of it, if the transactions it is told of
\* that are on the chain come with their own blocks, and those that spend own
\* coins are on the chain or are not coinstakes.
LEMMA SyncKeeps ==
    ASSUME NEW w, IsWallet(w), NEW T \in SUBSET Tx, NEW At \in [T -> Blocks \cup {Null}],
           NEW fUpdate \in BOOLEAN, NEW v, v = Sync(w, T, At, fUpdate),
           NEW b \in Blocks, Knows(w, b)
    PROVE  /\ Knows(v, b)
           /\ Marks(w, b) => Marks(v, b)
           /\ /\ Places(w, b)
              /\ \A x \in Connected(b) : \A t \in OwnIn(x) :
                    t \in Seen(w, T, fUpdate) => At[t] \in {x, Null}
              => Places(v, b)
           /\ /\ Backed(w, b)
              /\ \A u \in Seen(w, T, fUpdate) :
                    Vin[u] \cap Mine # {} => u \in TxsOfChain(b) \/ u \notin IsStake
              => Backed(v, b)
<1> DEFINE seen == Seen(w, T, fUpdate)
<1> HIDE DEF seen
<1>1. /\ IsWallet(v)
      /\ DOMAIN w \subseteq DOMAIN v /\ DOMAIN v \subseteq DOMAIN w \cup seen
      /\ \A t \in DOMAIN w : w[t].spent \subseteq v[t].spent
      /\ \A t \in DOMAIN v : \A n \in v[t].spent :
            \/ t \in DOMAIN w /\ n \in w[t].spent
            \/ n \in MineOf(t) /\ <<t, n>> \in SpentBy(seen)
      /\ \A t \in seen : \A o \in Vin[t] \cap Mine :
            o[1] \in DOMAIN w \cup seen => t \in DOMAIN v
      /\ \A t \in DOMAIN v \cap seen : At[t] # Null => v[t].hashBlock = At[t]
      /\ \A t \in DOMAIN w :
            t \notin seen \/ At[t] = Null => v[t].hashBlock = w[t].hashBlock
  <2>1. Wrote(w, At, seen, v)
    BY SyncWrites DEF seen
  <2> QED BY <2>1 DEF Wrote
<1>2. Knows(v, b)
  BY <1>1 DEF Knows
<1>3. ASSUME Marks(w, b)
      PROVE  Marks(v, b)
  <2> SUFFICES ASSUME NEW t \in TxsOfChain(b), NEW n \in MineOf(t),
                      <<t, n>> \in SpentBy(TxsOfChain(b))
               PROVE  n \in v[t].spent
    BY DEF Marks
  <2>1. t \in DOMAIN w
    BY KnowsMine
  <2>2. n \in w[t].spent
    BY <1>3 DEF Marks
  <2> QED BY <1>1, <2>1, <2>2
<1>4. ASSUME Places(w, b),
             \A x \in Connected(b) : \A t \in OwnIn(x) : t \in seen => At[t] \in {x, Null}
      PROVE  Places(v, b)
  <2> SUFFICES ASSUME NEW x \in Connected(b), NEW t \in OwnIn(x)
               PROVE  v[t].hashBlock = x
    BY DEF Places
  <2>1. t \in DOMAIN w /\ w[t].hashBlock = x
    BY <1>4 DEF Knows, Places
  <2>2. CASE t \in seen /\ At[t] # Null
    <3>1. At[t] = x
      BY <1>4, <2>2
    <3> QED BY <1>1, <2>1, <2>2, <3>1
  <2>3. CASE ~(t \in seen /\ At[t] # Null)
    BY <1>1, <2>1, <2>3
  <2> QED BY <2>2, <2>3
<1>5. ASSUME Backed(w, b),
             \A u \in seen : Vin[u] \cap Mine # {} => u \in TxsOfChain(b) \/ u \notin IsStake
      PROVE  Backed(v, b)
  <2> SUFFICES ASSUME NEW t \in DOMAIN v, NEW n \in v[t].spent \cap MineOf(t)
               PROVE  \E u \in DOMAIN v :
                         <<t, n>> \in Vin[u] /\ (u \in TxsOfChain(b) \/ u \notin IsStake)
    BY DEF Backed
  <2>1. CASE t \in DOMAIN w /\ n \in w[t].spent
    <3>1. PICK u \in DOMAIN w :
             <<t, n>> \in Vin[u] /\ (u \in TxsOfChain(b) \/ u \notin IsStake)
      BY <1>5, <2>1 DEF Backed
    <3> QED BY <1>1, <3>1
  <2>2. CASE <<t, n>> \in SpentBy(seen)
    <3>1. PICK u \in seen : <<t, n>> \in Vin[u]
      BY <2>2 DEF SpentBy
    <3>2. <<t, n>> \in Vin[u] \cap Mine
      BY <3>1, MineOfType
    <3>3. u \in DOMAIN v
      <4> DEFINE o == <<t, n>>
      <4>1. o[1] = t
        OBVIOUS
      <4>2. o[1] \in DOMAIN w \cup seen
        BY <1>1, <4>1
      <4> HIDE DEF o
      <4> QED BY <1>1, <3>2, <4>2 DEF o
    <3> QED BY <1>5, <3>1, <3>2, <3>3
  <2> QED BY <1>1, <2>1, <2>2
<1> QED BY <1>2, <1>3, <1>4, <1>5 DEF seen

\* ConnectBlock tells the wallet of a block on top of the chain it knows.
LEMMA SyncBlockExtends ==
    ASSUME NEW w, IsWallet(w), NEW x \in Blocks \ {Genesis}, ValidChain(x),
           Knows(w, Parent[x]), NEW v, v = SyncBlock(w, x)
    PROVE  /\ IsWallet(v) /\ DOMAIN w \subseteq DOMAIN v
           /\ Knows(v, x)
           /\ Places(w, Parent[x]) => Places(v, x)
           /\ Marks(w, Parent[x]) => Marks(v, x)
           /\ Backed(w, Parent[x]) => Backed(v, x)
<1> DEFINE p == Parent[x]
           T == TxsOf[x]
           At == [t \in T |-> x]
<1>1. T \in SUBSET Tx /\ At \in [T -> Blocks \cup {Null}] /\ v = Sync(w, T, At, TRUE)
  BY TxAssumption DEF TxAssumption, SyncBlock
<1>2. Seen(w, T, TRUE) = T
  BY DEF Seen
<1>3. p \in Blocks /\ ValidChain(p) /\ Fits(x) /\ x # Null
  BY ChainStep, ValidChainStep, TreeAssumption DEF TreeAssumption
<1>4. /\ TxsOfChain(x) = T \cup TxsOfChain(p) /\ T \cap TxsOfChain(p) = {}
      /\ Connected(x) = {x} \cup Connected(p)
  BY TxsOfChainStep, ConnectedStep
<1>5. \A t \in T : At[t] = x
  OBVIOUS
<1> HIDE DEF At, T
<1>a. Wrote(w, At, T, v)
  BY <1>1, <1>2, SyncWrites
<1>6. /\ IsWallet(v)
      /\ DOMAIN w \subseteq DOMAIN v
      /\ \A t \in DOMAIN w : w[t].spent \subseteq v[t].spent
      /\ \A t \in DOMAIN v : \A n \in MineOf(t) :
            <<t, n>> \in SpentBy(T) => n \in v[t].spent
      /\ \A t \in T : MineOf(t) # {} => t \in DOMAIN v
      /\ \A t \in T : \A o \in Vin[t] \cap Mine :
            o[1] \in DOMAIN w \cup T => t \in DOMAIN v
      /\ \A t \in DOMAIN v \cap T : At[t] # Null => v[t].hashBlock = At[t]
  BY <1>a DEF Wrote
<1>7. ASSUME NEW t \in T, NEW o \in Vin[t] \cap Mine
      PROVE  o[1] \in DOMAIN w \cup T
  <2>1. o \in SpentBy(TxsOf[x])
    BY DEF SpentBy, T
  <2>2. o[1] \in TxsOfChain(x)
    BY <1>3, <2>1 DEF Fits
  <2>3. o[2] \in MineOf(o[1])
    BY MineIs
  <2> QED BY <1>4, <2>2, <2>3, KnowsMine
<1>8. OwnIn(x) \subseteq DOMAIN v
  BY <1>6, <1>7 DEF OwnIn, T
<1>9. Knows(v, x)
  BY <1>4, <1>6, <1>8 DEF Knows
<1>10. ASSUME Places(w, p)
       PROVE  Places(v, x)
  <2>1. \A y \in Connected(p) : \A t \in OwnIn(y) : t \notin T
    BY <1>4 DEF OwnIn, TxsOfChain
  <2>2. Places(v, p)
    BY ZenonT(40), <1>1, <1>2, <1>3, <1>10, <2>1, SyncKeeps
  <2>3. \A t \in OwnIn(x) : v[t].hashBlock = x
    BY <1>3, <1>5, <1>6, <1>8 DEF OwnIn, T
  <2> QED BY <1>4, <2>2, <2>3 DEF Places
<1>11. ASSUME Marks(w, p)
       PROVE  Marks(v, x)
  <2> SUFFICES ASSUME NEW t \in TxsOfChain(x), NEW n \in MineOf(t),
                      <<t, n>> \in SpentBy(TxsOfChain(x))
               PROVE  n \in v[t].spent
    BY DEF Marks
  <2>1. t \in DOMAIN v
    BY <1>9, KnowsMine
  <2>2. CASE <<t, n>> \in SpentBy(T)
    BY <1>6, <2>1, <2>2
  <2>3. CASE <<t, n>> \in SpentBy(TxsOfChain(p))
    <3>1. t \in TxsOfChain(p)
      BY <1>3, <2>3, ValidChainSpends
    <3>2. t \in DOMAIN w /\ n \in w[t].spent
      BY <1>11, <2>3, <3>1, KnowsMine DEF Marks
    <3> QED BY <1>6, <3>2
  <2>4. SpentBy(TxsOfChain(x)) = SpentBy(T) \cup SpentBy(TxsOfChain(p))
    BY <1>4, SpentByUnion
  <2> QED BY <2>2, <2>3, <2>4
<1>12. ASSUME Backed(w, p)
       PROVE  Backed(v, x)
  <2>1. DOMAIN v \subseteq DOMAIN w \cup T
    BY <1>a DEF Wrote
  <2> SUFFICES ASSUME NEW t \in DOMAIN v, NEW n \in v[t].spent \cap MineOf(t)
               PROVE  \E u \in DOMAIN v :
                         <<t, n>> \in Vin[u] /\ (u \in TxsOfChain(x) \/ u \notin IsStake)
    BY DEF Backed
  <2>2. (t \in DOMAIN w /\ n \in w[t].spent) \/ <<t, n>> \in SpentBy(T)
    BY <1>a DEF Wrote
  <2>3. CASE t \in DOMAIN w /\ n \in w[t].spent
    <3>1. PICK u \in DOMAIN w :
             <<t, n>> \in Vin[u] /\ (u \in TxsOfChain(p) \/ u \notin IsStake)
      BY <1>12, <2>3 DEF Backed
    <3> QED BY <1>4, <1>6, <3>1
  <2>4. CASE <<t, n>> \in SpentBy(T)
    <3>1. PICK u \in T : <<t, n>> \in Vin[u]
      BY <2>4 DEF SpentBy
    <3>2. <<t, n>> \in Vin[u] \cap Mine
      BY <3>1, MineOfType
    <3>3. u \in DOMAIN v
      BY <1>6, <1>7, <3>2
    <3> QED BY <1>4, <3>1, <3>3
  <2> QED BY <2>2, <2>3, <2>4
<1> QED BY <1>6, <1>9, <1>10, <1>11, <1>12

\* MarkSpent and its like change one field of an entry.
LEMMA WriteSpent ==
    ASSUME NEW e \in WalletEntry, NEW s \in SUBSET Nat
    PROVE  /\ [e EXCEPT !.spent = s] \in WalletEntry
           /\ [e EXCEPT !.spent = s].hashBlock = e.hashBlock
           /\ [e EXCEPT !.spent = s].spent = s
BY DEF WalletEntry

\* v is w with vfSpent written anew.
Respent(w, f, v) ==
    /\ IsWallet(v) /\ DOMAIN v = DOMAIN w
    /\ \A t \in DOMAIN w : v[t].hashBlock = w[t].hashBlock /\ v[t].spent = f[t]

LEMMA RespentWallet ==
    ASSUME NEW w, IsWallet(w), NEW f, \A t \in DOMAIN w : f[t] \subseteq 0 .. NOut[t] - 1,
           NEW v, v = [t \in DOMAIN w |-> v[t]],
           \A t \in DOMAIN w : \/ v[t] = [w[t] EXCEPT !.spent = f[t]]
                               \/ v[t] = w[t] /\ f[t] = w[t].spent
    PROVE  Respent(w, f, v)
<1>1. ASSUME NEW t \in DOMAIN w
      PROVE  v[t] \in WalletEntry /\ v[t].hashBlock = w[t].hashBlock /\ v[t].spent = f[t]
  <2>1. w[t] \in WalletEntry
    BY DEF IsWallet
  <2>2. f[t] \in SUBSET Nat
    <3>1. NOut[t] \in Nat
      BY TxAssumption DEF IsWallet, TxAssumption
    <3> QED BY <3>1
  <2>3. CASE v[t] = [w[t] EXCEPT !.spent = f[t]]
    <3> DEFINE e == w[t]
               g == f[t]
               r == v[t]
    <3>1. e \in WalletEntry /\ g \in SUBSET Nat /\ r = [e EXCEPT !.spent = g]
      BY <2>1, <2>2, <2>3
    <3> HIDE DEF e, g, r
    <3>2. r \in WalletEntry /\ r.hashBlock = e.hashBlock /\ r.spent = g
      BY <3>1, WriteSpent
    <3> QED BY <3>2 DEF e, g, r
  <2>4. CASE v[t] = w[t] /\ f[t] = w[t].spent
    BY <2>1, <2>4
  <2> QED BY <2>3, <2>4
<1>2. DOMAIN v = DOMAIN w
  OBVIOUS
<1>3. v \in [DOMAIN v -> WalletEntry]
  BY <1>1, <1>2
<1>4. IsWallet(v)
  BY <1>1, <1>2, <1>3 DEF IsWallet
<1> QED BY <1>1, <1>2, <1>4 DEF Respent

\* The coins that DisableTransaction frees of t when x is disconnected.
Freed(t, x) == {n \in MineOf(t) : <<t, n>> \in SpentBy(TxsOf[x] \cap IsStake)}

LEMMA DisableStakesWrites ==
    ASSUME NEW w, IsWallet(w), NEW x
    PROVE  /\ IsWallet(DisableStakes(w, x))
           /\ DOMAIN DisableStakes(w, x) = DOMAIN w
           /\ \A t \in DOMAIN w :
                 /\ DisableStakes(w, x)[t].hashBlock = w[t].hashBlock
                 /\ DisableStakes(w, x)[t].spent = w[t].spent \ Freed(t, x)
<1> DEFINE v == DisableStakes(w, x)
           f == [t \in DOMAIN w |-> w[t].spent \ Freed(t, x)]
<1>1. \A t \in DOMAIN w : f[t] = w[t].spent \ Freed(t, x)
  OBVIOUS
<1>2. v = [t \in DOMAIN w |-> [w[t] EXCEPT !.spent = f[t]]]
  BY DEF DisableStakes, Freed
<1>3. \A t \in DOMAIN w : f[t] \subseteq 0 .. NOut[t] - 1
  BY DEF IsWallet
<1> HIDE DEF v, f
<1>4. v = [t \in DOMAIN w |-> v[t]] /\ \A t \in DOMAIN w : v[t] = [w[t] EXCEPT !.spent = f[t]]
  BY <1>2
<1>5. Respent(w, f, v)
  BY <1>3, <1>4, RespentWallet
<1> QED BY <1>1, <1>5 DEF v, Respent

\* DisconnectBlock takes the top block off the chain and frees the coins that
\* its coinstakes spent: nothing else on the chain spent them.
LEMMA DisableStakesShrinks ==
    ASSUME NEW w, IsWallet(w), NEW x \in Blocks \ {Genesis}, ValidChain(x),
           Knows(w, x), NEW v, v = DisableStakes(w, x)
    PROVE  /\ Knows(v, Parent[x])
           /\ Places(w, x) => Places(v, Parent[x])
           /\ Marks(w, x) => Marks(v, Parent[x])
           /\ Backed(w, x) => Backed(v, Parent[x])
<1> DEFINE p == Parent[x]
<1>1. p \in Blocks /\ Fits(x)
  BY ChainStep, ValidChainStep
<1>2. /\ TxsOfChain(x) = TxsOf[x] \cup TxsOfChain(p)
      /\ Connected(x) = {x} \cup Connected(p)
  BY TxsOfChainStep, ConnectedStep
<1>3. /\ DOMAIN v = DOMAIN w
      /\ \A t \in DOMAIN w : /\ v[t].hashBlock = w[t].hashBlock
                             /\ v[t].spent = w[t].spent \ Freed(t, x)
  BY DisableStakesWrites
<1>4. Knows(v, p)
  BY <1>2, <1>3 DEF Knows
<1>5. ASSUME Places(w, x)
      PROVE  Places(v, p)
  BY <1>2, <1>3, <1>4, <1>5 DEF Places, Knows
<1>6. ASSUME Marks(w, x)
      PROVE  Marks(v, p)
  <2> SUFFICES ASSUME NEW t \in TxsOfChain(p), NEW n \in MineOf(t),
                      <<t, n>> \in SpentBy(TxsOfChain(p))
               PROVE  n \in v[t].spent
    BY DEF Marks
  <2>1. t \in DOMAIN w
    BY <1>3, <1>4, KnowsMine
  <2>2. SpentBy(TxsOfChain(x)) = SpentBy(TxsOf[x]) \cup SpentBy(TxsOfChain(p))
    BY <1>2, SpentByUnion
  <2>3. n \in w[t].spent
    BY <1>2, <1>6, <2>2 DEF Marks
  <2>4. <<t, n>> \notin SpentBy(TxsOf[x])
    <3>1. \A o \in SpentBy(TxsOf[x]) : o \notin SpentBy(TxsOfChain(p))
      BY <1>1 DEF Fits
    <3> QED BY <3>1
  <2>5. n \notin Freed(t, x)
    BY <2>4 DEF Freed, SpentBy
  <2> QED BY <1>3, <2>1, <2>3, <2>5
<1>7. ASSUME Backed(w, x)
      PROVE  Backed(v, p)
  <2> SUFFICES ASSUME NEW t \in DOMAIN v, NEW n \in v[t].spent \cap MineOf(t)
               PROVE  \E u \in DOMAIN v :
                         <<t, n>> \in Vin[u] /\ (u \in TxsOfChain(p) \/ u \notin IsStake)
    BY DEF Backed
  <2>1. n \in w[t].spent /\ n \notin Freed(t, x)
    BY <1>3
  <2>2. PICK u \in DOMAIN w :
           <<t, n>> \in Vin[u] /\ (u \in TxsOfChain(x) \/ u \notin IsStake)
    BY <1>3, <1>7, <2>1 DEF Backed
  <2>3. ~(u \in TxsOf[x] /\ u \in IsStake)
    BY <2>1, <2>2 DEF Freed, SpentBy
  <2> QED BY <1>2, <1>3, <2>2, <2>3
<1> QED BY <1>4, <1>5, <1>6, <1>7

-----------------------------------------------------------------------------

\* Following pnext from a block of the best chain leads along that chain.
LEMMA AheadOnChain ==
    ASSUME NEW tip \in Blocks, pnext = LinksOf(tip), NEW b \in Chain[tip]
    PROVE  Ahead(b) \subseteq Chain[tip]
<1> DEFINE S == {x \in Blocks : x \in Ahead(b) => x \in Chain[tip]}
<1>1. Genesis \in S
  BY GenesisOnChain, TreeAssumption DEF TreeAssumption
<1>2. ASSUME NEW x \in Blocks \ {Genesis}, Parent[x] \in S
      PROVE  x \in S
  <2> SUFFICES ASSUME x \in Ahead(b), x # b
               PROVE  x \in Chain[tip]
    OBVIOUS
  <2> DEFINE p == Parent[x]
  <2>1. p \in Blocks /\ Chain[x] = {x} \cup Chain[p] /\ x \notin Chain[p] /\ p \in Chain[p]
    BY ChainStep, NotOnParentChain, ChainClosed
  <2>2. b \in Chain[p]
    BY <2>1 DEF Ahead
  <2>3. ASSUME NEW y \in Chain[p] \ {p}, b \in Chain[y]
        PROVE  pnext[y] = NextOnChain(y, p)
    <3> DEFINE z == NextOnChain(y, p)
    <3>1. z \in Chain[p] \ {Genesis} /\ Parent[z] = y
      BY <2>1, NextOnChainIsNext
    <3> HIDE DEF z
    <3>2. z \in Chain[x] \ {Genesis}
      BY <2>1, <3>1
    <3>3. NextOnChain(y, x) = z
      BY <3>1, <3>2, NextOnChainUnique
    <3>4. pnext[y] = NextOnChain(y, x)
      BY <2>1, <2>3 DEF Ahead
    <3> QED BY <3>3, <3>4 DEF z
  <2>4. p \in Ahead(b)
    BY <2>1, <2>2, <2>3 DEF Ahead
  <2>5. p \in Chain[tip]
    BY <1>2, <2>4
  <2>6. NextOnChain(p, x) = x
    BY <2>1, NextOnChainUnique
  <2>7. pnext[p] = x
    BY <2>1, <2>2, <2>6 DEF Ahead
  <2>8. p # tip /\ NextOnChain(p, tip) = x
    BY <2>1, <2>7, TreeAssumption DEF LinksOf, TreeAssumption
  <2> QED BY <2>5, <2>8, NextOnChainIsNext
<1>3. S = Blocks
  <2> HIDE DEF S
  <2>1. S \in SUBSET Blocks
    BY DEF S
  <2> QED BY <1>1, <1>2, <2>1, TreeInduction
<1> QED BY <1>3 DEF Ahead

\* A rescan reads the blocks of a part of the best chain, each transaction in
\* its own block, and so disturbs nothing that was right before.
LEMMA ScanWrites ==
    ASSUME NEW w, IsWallet(w), NEW b, NEW fUpdate \in BOOLEAN
    PROVE  \E T \in SUBSET Tx : \E At \in [T -> Blocks \cup {Null}] :
              /\ Scan(w, b, fUpdate) = Sync(w, T, At, fUpdate)
              /\ \A t \in T : At[t] \in Ahead(b) /\ t \in TxsOf[At[t]]
<1> DEFINE T == UNION {TxsOf[x] : x \in Ahead(b)}
           At == [t \in T |-> CHOOSE x \in Ahead(b) : t \in TxsOf[x]]
<1>1. Ahead(b) \subseteq Blocks
  BY DEF Ahead
<1>2. T \in SUBSET Tx
  BY <1>1, TxAssumption DEF TxAssumption
<1>3. \A t \in T : At[t] \in Ahead(b) /\ t \in TxsOf[At[t]]
  <2> SUFFICES ASSUME NEW t \in T
               PROVE  At[t] \in Ahead(b) /\ t \in TxsOf[At[t]]
    OBVIOUS
  <2>1. \E x \in Ahead(b) : t \in TxsOf[x]
    OBVIOUS
  <2>2. At[t] = CHOOSE x \in Ahead(b) : t \in TxsOf[x]
    OBVIOUS
  <2> QED BY <2>1, <2>2
<1>4. At \in [T -> Blocks \cup {Null}]
  <2>1. \A t \in T : (CHOOSE x \in Ahead(b) : t \in TxsOf[x]) \in Ahead(b)
    OBVIOUS
  <2> QED BY <1>1, <2>1
<1>5. Scan(w, b, fUpdate) = Sync(w, T, At, fUpdate)
  BY DEF Scan
<1> HIDE DEF T, At
<1> QED BY <1>2, <1>3, <1>4, <1>5

LEMMA ScanKeeps ==
    ASSUME NEW w, IsWallet(w), NEW tip \in Blocks, pnext = LinksOf(tip), Knows(w, tip),
           NEW b \in Chain[tip], NEW fUpdate \in BOOLEAN, NEW v, v = Scan(w, b, fUpdate)
    PROVE  /\ IsWallet(v) /\ DOMAIN w \subseteq DOMAIN v
           /\ Knows(v, tip)
           /\ Places(w, tip) => Places(v, tip)
           /\ Marks(w, tip) => Marks(v, tip)
           /\ Backed(w, tip) => Backed(v, tip)
           /\ \A c \in Blocks : ~fUpdate /\ Knows(w, c) /\ Places(w, c) => Places(v, c)
<1>1. PICK T \in SUBSET Tx : \E At \in [T -> Blocks \cup {Null}] :
         /\ v = Sync(w, T, At, fUpdate)
         /\ \A t \in T : At[t] \in Ahead(b) /\ t \in TxsOf[At[t]]
  BY ScanWrites
<1>2. PICK At \in [T -> Blocks \cup {Null}] :
         /\ v = Sync(w, T, At, fUpdate)
         /\ \A t \in T : At[t] \in Ahead(b) /\ t \in TxsOf[At[t]]
  BY <1>1
<1> DEFINE seen == Seen(w, T, fUpdate)
<1>3. \A t \in T : At[t] \in Chain[tip] /\ t \in TxsOf[At[t]]
  BY <1>2, AheadOnChain
<1>4. seen \subseteq T
  BY DEF Seen
<1>5. Wrote(w, At, seen, v)
  BY <1>2, SyncWrites
<1> HIDE DEF seen
<1>6. \A x \in Connected(tip) : \A t \in OwnIn(x) : t \in seen => At[t] = x
  <2> SUFFICES ASSUME NEW x \in Connected(tip), NEW t \in OwnIn(x), t \in seen
               PROVE  At[t] = x
    OBVIOUS
  <2> DEFINE y == At[t]
  <2>1. y \in Chain[tip] /\ t \in TxsOf[y] /\ x \in Chain[tip] /\ t \in TxsOf[x]
    BY <1>3, <1>4 DEF Connected, OwnIn
  <2> HIDE DEF y
  <2>2. x \in Blocks /\ y \in Blocks
    BY <2>1, ChainClosed
  <2>3. x \in Chain[y] \/ y \in Chain[x]
    BY <2>1, ChainIsLinear
  <2>4. x = y
    BY <2>1, <2>2, <2>3, NoRepeatAssumption DEF NoRepeatAssumption
  <2> QED BY <2>4 DEF y
<1>7. \A u \in seen : Vin[u] \cap Mine # {} => u \in TxsOfChain(tip)
  <2> SUFFICES ASSUME NEW u \in seen, Vin[u] \cap Mine # {}
               PROVE  u \in TxsOfChain(tip)
    OBVIOUS
  <2>1. At[u] \in Chain[tip] /\ u \in TxsOf[At[u]]
    BY <1>3, <1>4
  <2>2. At[u] # Genesis
    BY <2>1, WalletAssumption DEF WalletAssumption, IsCoinBase
  <2> QED BY <2>1, <2>2 DEF TxsOfChain, Connected
<1>8. ASSUME NEW c \in Blocks, ~fUpdate, Knows(w, c), Places(w, c)
      PROVE  Places(v, c)
  <2>1. seen \cap DOMAIN w = {}
    BY <1>8 DEF seen, Seen
  <2> QED BY <1>5, <1>8, <2>1 DEF Places, Knows, Wrote
<1>9. IsWallet(v) /\ DOMAIN w \subseteq DOMAIN v
  BY <1>5 DEF Wrote
<1>10. /\ Knows(v, tip)
       /\ Marks(w, tip) => Marks(v, tip)
  BY <1>2, SyncKeeps
<1>11. Places(w, tip) => Places(v, tip)
  BY <1>2, <1>6, SyncKeeps DEF seen
<1>12. Backed(w, tip) => Backed(v, tip)
  BY <1>2, <1>7, SyncKeeps DEF seen
<1> QED BY <1>8, <1>9, <1>10, <1>11, <1>12

\* Where the locator of wallet.dat leads is on the best chain.
LEMMA RescanFromOnChain ==
    ASSUME NEW tip \in Blocks, pnext = LinksOf(tip), pindexBest = tip,
           bestblock \in Blocks \cup {Null}
    PROVE  RescanFrom \in Chain[tip]
<1>1. CASE bestblock = Null
  BY <1>1, ChainClosed DEF RescanFrom
<1>2. CASE bestblock # Null
  <2> DEFINE M == {c \in Chain[bestblock] : c = Genesis \/ IsInMainChain(c)}
             h == Height[bestblock]
             D == {h - Height[c] : c \in M}
  <2>1. bestblock \in Blocks /\ M \subseteq Blocks /\ Genesis \in M
    BY <1>2, ChainClosed, GenesisOnChain
  <2>2. h \in Nat /\ \A c \in M : Height[c] \in Nat /\ Height[c] <= h
    BY <2>1, AncestorsAreLower, TreeAssumption DEF TreeAssumption
  <2> HIDE DEF M, h
  <2>3. D \in SUBSET Nat /\ D # {}
    BY <2>1, <2>2
  <2>4. PICK m \in D : \A k \in D : m <= k
    BY <2>3, LeastNatural
  <2>5. PICK b \in M : m = h - Height[b]
    BY <2>4
  <2>6. \A c \in M : Height[c] <= Height[b]
    <3> SUFFICES ASSUME NEW c \in M PROVE Height[c] <= Height[b]
      OBVIOUS
    <3>1. h - Height[b] <= h - Height[c]
      BY <2>4, <2>5
    <3> QED BY <2>2, <3>1
  <2>7. RescanFrom \in M
    <3>1. \E x \in Chain[bestblock] :
             /\ x = Genesis \/ IsInMainChain(x)
             /\ \A c \in Chain[bestblock] :
                   c = Genesis \/ IsInMainChain(c) => Height[c] <= Height[x]
      BY <2>5, <2>6 DEF M
    <3> QED BY <1>2, <3>1 DEF RescanFrom, M
  <2>8. \A c \in M : c \in Chain[tip]
    <3> SUFFICES ASSUME NEW c \in M PROVE c \in Chain[tip]
      OBVIOUS
    <3>1. c \in Blocks /\ (c = Genesis \/ pnext[c] # Null \/ c = tip)
      BY <2>1 DEF M, IsInMainChain
    <3> QED BY <3>1, GenesisOnChain, ChainClosed DEF LinksOf
  <2> QED BY <2>7, <2>8
<1> QED BY <1>1, <1>2

-----------------------------------------------------------------------------

\* ReacceptWalletTransactions and repairwallet change vfSpent only, after the
\* index: what they add the best chain spends, and a coin that it spends they
\* do not take away.
Repaired(w, v, b) ==
    /\ IsWallet(v) /\ DOMAIN v = DOMAIN w
    /\ \A t \in DOMAIN w : v[t].hashBlock = w[t].hashBlock
    /\ \A t \in DOMAIN w : \A n \in v[t].spent :
          n \in w[t].spent \/ <<t, n>> \in SpentBy(TxsOfChain(b))
    /\ \A t \in DOMAIN w : \A n \in w[t].spent :
          <<t, n>> \in SpentBy(TxsOfChain(b)) /\ t \in TxsOfChain(b) => n \in v[t].spent

LEMMA RepairedKeeps ==
    ASSUME NEW w, NEW v, NEW b \in Blocks, Repaired(w, v, b), Knows(w, b)
    PROVE  /\ \A c : Knows(w, c) => Knows(v, c)
           /\ \A c : Knows(w, c) /\ Places(w, c) => Places(v, c)
           /\ Marks(w, b) => Marks(v, b)
           /\ Backed(w, b) => Backed(v, b)
<1>1. \A c : Knows(w, c) => Knows(v, c)
  BY DEF Knows, Repaired
<1>2. \A c : Knows(w, c) /\ Places(w, c) => Places(v, c)
  BY DEF Knows, Places, Repaired
<1>3. ASSUME Marks(w, b)
      PROVE  Marks(v, b)
  <2> SUFFICES ASSUME NEW t \in TxsOfChain(b), NEW n \in MineOf(t),
                      <<t, n>> \in SpentBy(TxsOfChain(b))
               PROVE  n \in v[t].spent
    BY DEF Marks
  <2>1. t \in DOMAIN w /\ n \in w[t].spent
    BY <1>3, KnowsMine DEF Marks
  <2> QED BY <2>1 DEF Repaired
<1>4. ASSUME Backed(w, b)
      PROVE  Backed(v, b)
  <2> SUFFICES ASSUME NEW t \in DOMAIN v, NEW n \in v[t].spent \cap MineOf(t)
               PROVE  \E u \in DOMAIN v :
                         <<t, n>> \in Vin[u] /\ (u \in TxsOfChain(b) \/ u \notin IsStake)
    BY DEF Backed
  <2>1. CASE n \in w[t].spent
    BY <1>4, <2>1 DEF Backed, Repaired
  <2>2. CASE <<t, n>> \in SpentBy(TxsOfChain(b))
    <3>1. PICK u \in TxsOfChain(b) : <<t, n>> \in Vin[u]
      BY <2>2 DEF SpentBy
    <3>2. <<t, n>> \in Vin[u] \cap Mine
      BY <3>1, MineOfType
    <3>3. u \in DOMAIN w
      BY <3>2, KnowsMine
    <3> QED BY <3>1, <3>3 DEF Repaired
  <2> QED BY <2>1, <2>2 DEF Repaired
<1> QED BY <1>1, <1>2, <1>3, <1>4

\* A wallet that is repaired everywhere has marked what the chain spends.
LEMMA RepairedMarks ==
    ASSUME NEW v, NEW b \in Blocks, Knows(v, b),
           \A t \in DOMAIN v : t \in TxsOfChain(b) =>
              MineOf(t) \cap SpentOutputs(t, TxsOfChain(b)) \subseteq v[t].spent
    PROVE  Marks(v, b)
<1> SUFFICES ASSUME NEW t \in TxsOfChain(b), NEW n \in MineOf(t),
                    <<t, n>> \in SpentBy(TxsOfChain(b))
             PROVE  n \in v[t].spent
  BY DEF Marks
<1>1. t \in DOMAIN v
  BY KnowsMine
<1>2. n \in SpentOutputs(t, TxsOfChain(b))
  BY MineOfType DEF SpentOutputs
<1> QED BY <1>1, <1>2

\* The outputs that the index has as spent, for a transaction of the chain.
LEMMA IndexSpent ==
    ASSUME NEW b \in Blocks, db.tx = IndexOfChain(b)
    PROVE  /\ DOMAIN db.tx = TxsOfChain(b)
           /\ \A t \in TxsOfChain(b) : db.tx[t].spent = SpentOutputs(t, TxsOfChain(b))
           /\ \A t : \A n \in SpentOutputs(t, TxsOfChain(b)) : <<t, n>> \in SpentBy(TxsOfChain(b))
BY IndexOfChainType DEF SpentOutputs

\* The first half of a turn of ReacceptWalletTransactions.
LEMMA MarkedRepairs ==
    ASSUME IsWallet(mapWallet)
    PROVE  /\ IsWallet(Marked) /\ DOMAIN Marked = DOMAIN mapWallet
           /\ \A b \in Blocks : db.tx = IndexOfChain(b) =>
                 /\ Repaired(mapWallet, Marked, b)
                 /\ \/ \E t \in DOMAIN mapWallet : SkippedByReaccept(t)
                    \/ \A t \in DOMAIN Marked : t \in TxsOfChain(b) =>
                          MineOf(t) \cap SpentOutputs(t, TxsOfChain(b)) \subseteq Marked[t].spent
<1> DEFINE w == mapWallet
           v == Marked
           f == [t \in DOMAIN w |-> IF SkippedByReaccept(t) THEN w[t].spent
                                    ELSE w[t].spent \cup Mismatch(t)]
<1>1. /\ v = [t \in DOMAIN w |-> v[t]]
      /\ \A t \in DOMAIN w : \/ v[t] = [w[t] EXCEPT !.spent = f[t]]
                             \/ v[t] = w[t] /\ f[t] = w[t].spent
  BY DEF Marked
<1>2. \A t \in DOMAIN w : f[t] \subseteq 0 .. NOut[t] - 1
  BY MineOfType DEF IsWallet, Mismatch
<1>3. \A t \in DOMAIN w : /\ w[t].spent \subseteq f[t]
                          /\ f[t] \subseteq w[t].spent \cup Mismatch(t)
                          /\ ~SkippedByReaccept(t) => Mismatch(t) \subseteq f[t]
  OBVIOUS
<1> HIDE DEF v, f
<1>4. Respent(w, f, v)
  <2> HIDE DEF w
  <2> QED BY <1>1, <1>2, RespentWallet DEF w
<1>5. ASSUME NEW b \in Blocks, db.tx = IndexOfChain(b)
      PROVE  /\ Repaired(w, v, b)
             /\ \/ \E t \in DOMAIN w : SkippedByReaccept(t)
                \/ \A t \in DOMAIN v : t \in TxsOfChain(b) =>
                      MineOf(t) \cap SpentOutputs(t, TxsOfChain(b)) \subseteq v[t].spent
  <2>1. /\ DOMAIN db.tx = TxsOfChain(b)
        /\ \A t \in TxsOfChain(b) : db.tx[t].spent = SpentOutputs(t, TxsOfChain(b))
        /\ \A t : \A n \in SpentOutputs(t, TxsOfChain(b)) : <<t, n>> \in SpentBy(TxsOfChain(b))
    BY <1>5, IndexSpent
  <2>2. \A t : \A n \in Mismatch(t) : <<t, n>> \in SpentBy(TxsOfChain(b))
    BY <2>1 DEF Mismatch
  <2>3. Repaired(w, v, b)
    BY <1>3, <1>4, <2>2 DEF Repaired, Respent
  <2>4. \A t \in DOMAIN w : t \in TxsOfChain(b) =>
           MineOf(t) \cap SpentOutputs(t, TxsOfChain(b)) \subseteq w[t].spent \cup Mismatch(t)
    BY <2>1 DEF Mismatch
  <2>5. ASSUME \A t \in DOMAIN w : ~SkippedByReaccept(t)
        PROVE  \A t \in DOMAIN v : t \in TxsOfChain(b) =>
                  MineOf(t) \cap SpentOutputs(t, TxsOfChain(b)) \subseteq v[t].spent
    <3>1. \A t \in DOMAIN w : w[t].spent \cup Mismatch(t) \subseteq v[t].spent
      BY <1>3, <1>4, <2>5 DEF Respent
    <3> QED BY <1>4, <2>4, <3>1 DEF Respent
  <2> QED BY <2>3, <2>5
<1> QED BY <1>4, <1>5 DEF v, Respent

\* What repairwallet makes of the wallet.
Fixed ==
    [t \in DOMAIN mapWallet |->
        [mapWallet[t] EXCEPT !.spent =
            IF t \in DOMAIN db.tx
            THEN (@ \ MineOf(t)) \cup (db.tx[t].spent \cap MineOf(t)) ELSE @]]

LEMMA FixedRepairs ==
    ASSUME IsWallet(mapWallet)
    PROVE  /\ IsWallet(Fixed) /\ DOMAIN Fixed = DOMAIN mapWallet
           /\ \A b \in Blocks : db.tx = IndexOfChain(b) =>
                 /\ Repaired(mapWallet, Fixed, b)
                 /\ \A t \in DOMAIN Fixed : t \in TxsOfChain(b) =>
                       MineOf(t) \cap SpentOutputs(t, TxsOfChain(b)) \subseteq Fixed[t].spent
<1> DEFINE w == mapWallet
           v == Fixed
           f == [t \in DOMAIN w |->
                    IF t \in DOMAIN db.tx
                    THEN (w[t].spent \ MineOf(t)) \cup (db.tx[t].spent \cap MineOf(t))
                    ELSE w[t].spent]
<1>1. v = [t \in DOMAIN w |-> v[t]] /\ \A t \in DOMAIN w : v[t] = [w[t] EXCEPT !.spent = f[t]]
  BY DEF Fixed
<1>2. \A t \in DOMAIN w : f[t] \subseteq 0 .. NOut[t] - 1
  BY MineOfType DEF IsWallet
<1>3. \A t \in DOMAIN w :
         IF t \in DOMAIN db.tx
         THEN f[t] = (w[t].spent \ MineOf(t)) \cup (db.tx[t].spent \cap MineOf(t))
         ELSE f[t] = w[t].spent
  OBVIOUS
<1> HIDE DEF v, f
<1>4. Respent(w, f, v)
  <2> HIDE DEF w
  <2> QED BY <1>1, <1>2, RespentWallet DEF w
<1>5. ASSUME NEW b \in Blocks, db.tx = IndexOfChain(b)
      PROVE  /\ Repaired(w, v, b)
             /\ \A t \in DOMAIN v : t \in TxsOfChain(b) =>
                   MineOf(t) \cap SpentOutputs(t, TxsOfChain(b)) \subseteq v[t].spent
  <2>1. /\ DOMAIN db.tx = TxsOfChain(b)
        /\ \A t \in TxsOfChain(b) : db.tx[t].spent = SpentOutputs(t, TxsOfChain(b))
        /\ \A t : \A n \in SpentOutputs(t, TxsOfChain(b)) : <<t, n>> \in SpentBy(TxsOfChain(b))
    BY <1>5, IndexSpent
  <2>2. \A t \in DOMAIN w : t \in TxsOfChain(b) =>
           v[t].spent = (w[t].spent \ MineOf(t)) \cup (SpentOutputs(t, TxsOfChain(b)) \cap MineOf(t))
    BY <1>3, <1>4, <2>1 DEF Respent
  <2>3. \A t \in DOMAIN w : t \notin TxsOfChain(b) => v[t].spent = w[t].spent
    BY <1>3, <1>4, <2>1 DEF Respent
  <2>4. \A t : \A n \in MineOf(t) :
           <<t, n>> \in SpentBy(TxsOfChain(b)) => n \in SpentOutputs(t, TxsOfChain(b))
    BY MineOfType DEF SpentOutputs
  <2>5. Repaired(w, v, b)
    BY <1>4, <2>1, <2>2, <2>3, <2>4 DEF Repaired, Respent
  <2> QED BY <1>4, <2>2, <2>5 DEF Respent
<1> QED BY <1>4, <1>5 DEF v, Respent

-----------------------------------------------------------------------------
(***************************************************************************)
(* The invariant.                                                          *)
(***************************************************************************)

\* The block whose chain the wallet was told of last.  LoadBlockIndex comes
\* before RegisterWallet, so that a switch at start-up is not told.
Point == IF pc \in Working /\ Registered THEN cursor ELSE db.hashBestChain

\* The one switch that LoadBlockIndex may make goes back along the best chain.
StartInv ==
    /\ pc = "down" => starting = "no"
    /\ starting = "rescan" =>
          /\ pc \notin {"down", "Further", "Postponed"}
          /\ pc \in {"idle", "SetBestChain"} \cup Working => pindexBest = db.hashBestChain
          /\ pc = "SetBestChain" => pindexNew \in Chain[pindexBest]
          /\ pc \in Working => goal = pindexNew /\ goal \in Chain[base] /\ base = pindexBest
          /\ pc = "Publish" => pindexNew = db.hashBestChain

\* The wallet follows the chain that it was told of, and has all that the
\* committed one holds even in the middle of a switch.
TracksInv ==
    ~diverged =>
        /\ Knows(mapWallet, db.hashBestChain) /\ Knows(mapWallet, Point)
        /\ ~shaken => Places(mapWallet, Point)
        /\ ~undone /\ ~raced => Marks(mapWallet, Point)
        /\ ~shaken /\ ~raced => Backed(mapWallet, Point)

WalletInv == IInv /\ WalletTypeOK /\ StartInv /\ TracksInv

LEMMA TypeIsWallet ==
    WalletTypeOK <=> /\ IsWallet(mapWallet)
                     /\ bestblock \in Blocks \cup {Null}
                     /\ mempool \subseteq Tx
                     /\ starting \in {"rescan", "reaccept", "no"}
                     /\ undone \in BOOLEAN /\ shaken \in BOOLEAN /\ raced \in BOOLEAN
BY DEF WalletTypeOK, IsWallet

\* Every step of the wallet is a step of the chain or leaves the chain alone.
LEMMA WalletStepsChain ==
    ASSUME WalletNext
    PROVE  [Next]_vars
BY DEF WalletNext, WalletStep, WalletConnectBlock, WalletDisconnectBlock, WalletTxnCommit,
       WalletPublish, WalletAbort, WalletCrash, WalletLoadBlockIndex, WalletElse, Rescan,
       Reaccept, FixSpentCoins, CommitTransaction, ReceiveTx, Next, Step

LEMMA WalletInitInv == WalletInit => WalletInv
<1> SUFFICES ASSUME WalletInit
             PROVE  WalletInv
  OBVIOUS
<1>1. IInv
  BY InitIInv DEF WalletInit
<1>2. IsWallet(mapWallet) /\ DOMAIN mapWallet = {}
  BY DEF WalletInit, IsWallet
<1>3. WalletTypeOK
  BY <1>2, TypeIsWallet DEF WalletInit
<1>4. StartInv
  BY DEF WalletInit, Init, StartInv
<1>5. Point = Genesis /\ db.hashBestChain = Genesis
  BY DEF WalletInit, Init, Point, Working
<1>6. TracksInv
  BY <1>2, <1>5, ConnectedGenesis DEF TracksInv, Knows, Places, Marks, Backed
<1> QED BY <1>1, <1>3, <1>4, <1>6 DEF WalletInv

-----------------------------------------------------------------------------

\* The steps that leave the wallet alone and the database at its block: the
\* switch begins or ends where the wallet stands, or is counted as undone.
LEMMA TracksStay ==
    ASSUME TracksInv, mapWallet' = mapWallet, db'.hashBestChain = db.hashBestChain,
           diverged => diverged', shaken => shaken', undone => undone', raced => raced',
           ~diverged' => \/ Point' = Point
                         \/ shaken' /\ undone' /\ Point' = db.hashBestChain
    PROVE  TracksInv'
<1> SUFFICES ASSUME ~diverged'
             PROVE  /\ Knows(mapWallet', db'.hashBestChain) /\ Knows(mapWallet', Point')
                    /\ ~shaken' => Places(mapWallet', Point')
                    /\ ~undone' /\ ~raced' => Marks(mapWallet', Point')
                    /\ ~shaken' /\ ~raced' => Backed(mapWallet', Point')
  BY DEF TracksInv
<1>1. CASE Point' = Point
  BY <1>1 DEF TracksInv
<1>2. CASE shaken' /\ undone' /\ Point' = db.hashBestChain
  BY <1>2 DEF TracksInv
<1> QED BY <1>1, <1>2

\* Between two switches, and before the first block of one, the wallet stands
\* where the database does.
LEMMA PointIsTip ==
    ASSUME IInv, ~diverged, ~Told
    PROVE  Point = db.hashBestChain
BY DEF IInv, ChainInv, Point, Told

\* ConnectBlock: the wallet goes one block up with cursor.
LEMMA WalletConnectBlockInv ==
    ASSUME WalletInv, IInv', WalletConnectBlock
    PROVE  WalletTypeOK' /\ StartInv' /\ TracksInv'
<1> DEFINE w == mapWallet
           x == Next2Connect
<1>1. /\ pc \in Working /\ cursor' = x
      /\ db' = db /\ pc' = pc /\ diverged' = diverged
      /\ UNCHANGED <<pindexBest, pindexNew, base, goal>>
      /\ UNCHANGED <<bestblock, mempool, starting, undone, shaken, raced>>
  BY DEF WalletConnectBlock, ConnectBlock, memory, walletHistory
<1>2. x \in Blocks \ {Genesis} /\ Parent[x] = cursor
  BY CallBlocks, Next2ConnectOnChain DEF WalletInv, WalletConnectBlock, ConnectBlock
<1>3. IsWallet(w)
  BY TypeIsWallet DEF WalletInv
<1>4. mapWallet' = IF Registered THEN SyncBlock(w, x) ELSE w
  BY DEF WalletConnectBlock
<1> HIDE DEF w, x
<1>5. StartInv'
  BY <1>1 DEF WalletInv, StartInv
<1>6. CASE ~Registered
  <2>1. mapWallet' = mapWallet /\ Registered' = Registered
    BY <1>1, <1>4, <1>6 DEF w, Registered
  <2>2. Point' = Point
    BY <1>1, <1>6, <2>1 DEF Point
  <2>3. TracksInv'
    BY <1>1, <2>1, <2>2, TracksStay DEF WalletInv
  <2>4. WalletTypeOK'
    BY <1>1, <2>1 DEF WalletInv, WalletTypeOK
  <2> QED BY <1>5, <2>3, <2>4
<1>7. CASE Registered
  <2> DEFINE v == SyncBlock(w, x)
             At == [t \in TxsOf[x] |-> x]
  <2>1. mapWallet' = v /\ Point = cursor /\ Point' = x
    BY <1>1, <1>4, <1>7 DEF Point, Registered
  <2>2. Wrote(w, At, Seen(w, TxsOf[x], TRUE), v)
    <3>1. TxsOf[x] \in SUBSET Tx /\ At \in [TxsOf[x] -> Blocks \cup {Null}]
      BY <1>2, TxAssumption DEF TxAssumption
    <3>2. v = Sync(w, TxsOf[x], At, TRUE)
      BY DEF SyncBlock
    <3> HIDE DEF At, v
    <3> QED BY <1>3, <3>1, <3>2, SyncWrites
  <2> HIDE DEF v, At
  <2>3. IsWallet(v) /\ DOMAIN w \subseteq DOMAIN v
    BY <2>2 DEF Wrote
  <2>4. WalletTypeOK'
    <3>1. IsWallet(mapWallet')
      BY <2>1, <2>3
    <3> QED BY <1>1, <3>1 DEF WalletInv, WalletTypeOK, IsWallet
  <2>5. ASSUME ~diverged
        PROVE  /\ Knows(v, db.hashBestChain) /\ Knows(v, x)
               /\ ~shaken => Places(v, x)
               /\ ~undone /\ ~raced => Marks(v, x)
               /\ ~shaken /\ ~raced => Backed(v, x)
    <3>1. ValidChain(x)
      BY <1>1, <2>5 DEF IInv, ChainInv
    <3>2. /\ Knows(w, db.hashBestChain) /\ Knows(w, Parent[x])
          /\ ~shaken => Places(w, Parent[x])
          /\ ~undone /\ ~raced => Marks(w, Parent[x])
          /\ ~shaken /\ ~raced => Backed(w, Parent[x])
      BY <1>2, <2>1, <2>5 DEF WalletInv, TracksInv, w
    <3>3. /\ Knows(v, x)
          /\ Places(w, Parent[x]) => Places(v, x)
          /\ Marks(w, Parent[x]) => Marks(v, x)
          /\ Backed(w, Parent[x]) => Backed(v, x)
      BY <1>2, <1>3, <3>1, <3>2, SyncBlockExtends DEF v
    <3>4. Knows(v, db.hashBestChain)
      BY <2>3, <3>2 DEF Knows
    <3> QED BY <3>2, <3>3, <3>4
  <2>6. TracksInv'
    BY <1>1, <2>1, <2>5 DEF TracksInv
  <2> QED BY <1>5, <2>4, <2>6
<1> QED BY <1>6, <1>7

\* DisconnectBlock: the wallet goes one block down with cursor.
LEMMA WalletDisconnectBlockInv ==
    ASSUME WalletInv, WalletDisconnectBlock
    PROVE  WalletTypeOK' /\ StartInv' /\ TracksInv'
<1> DEFINE w == mapWallet
<1>1. /\ pc \in Working /\ cursor' = Parent[cursor] /\ cursor \notin Chain[goal]
      /\ db' = db /\ pc' = pc /\ diverged' = diverged
      /\ UNCHANGED <<pindexBest, pindexNew, base, goal>>
      /\ UNCHANGED <<bestblock, mempool, starting, undone, shaken, raced>>
  BY DEF WalletDisconnectBlock, DisconnectBlock, memory, walletHistory, Working
<1>2. cursor \in Blocks \ {Genesis}
  BY <1>1, CallBlocks, GenesisOnChain DEF WalletInv
<1>3. IsWallet(w)
  BY TypeIsWallet DEF WalletInv
<1>4. mapWallet' = IF Registered THEN DisableStakes(w, cursor) ELSE w
  BY DEF WalletDisconnectBlock
<1> HIDE DEF w
<1>5. StartInv'
  BY <1>1 DEF WalletInv, StartInv
<1>6. CASE ~Registered
  <2>1. mapWallet' = mapWallet /\ Registered' = Registered
    BY <1>1, <1>4, <1>6 DEF w, Registered
  <2>2. Point' = Point
    BY <1>1, <1>6, <2>1 DEF Point
  <2>3. TracksInv'
    BY <1>1, <2>1, <2>2, TracksStay DEF WalletInv
  <2>4. WalletTypeOK'
    BY <1>1, <2>1 DEF WalletInv, WalletTypeOK
  <2> QED BY <1>5, <2>3, <2>4
<1>7. CASE Registered
  <2> DEFINE v == DisableStakes(w, cursor)
             p == Parent[cursor]
  <2>1. mapWallet' = v /\ Point = cursor /\ Point' = p
    BY <1>1, <1>4, <1>7 DEF Point, Registered
  <2>2. IsWallet(v) /\ DOMAIN v = DOMAIN w
    BY <1>3, DisableStakesWrites
  <2> HIDE DEF v
  <2>3. WalletTypeOK'
    <3>1. IsWallet(mapWallet')
      BY <2>1, <2>2
    <3> QED BY <1>1, <3>1 DEF WalletInv, WalletTypeOK, IsWallet
  <2>4. ASSUME ~diverged
        PROVE  /\ Knows(v, db.hashBestChain) /\ Knows(v, p)
               /\ ~shaken => Places(v, p)
               /\ ~undone /\ ~raced => Marks(v, p)
               /\ ~shaken /\ ~raced => Backed(v, p)
    <3>1. ValidChain(cursor)
      BY <1>1, <2>4 DEF WalletInv, IInv, ChainInv
    <3>2. /\ Knows(w, db.hashBestChain) /\ Knows(w, cursor)
          /\ ~shaken => Places(w, cursor)
          /\ ~undone /\ ~raced => Marks(w, cursor)
          /\ ~shaken /\ ~raced => Backed(w, cursor)
      BY <2>1, <2>4 DEF WalletInv, TracksInv, w
    <3>3. /\ Knows(v, p)
          /\ Places(w, cursor) => Places(v, p)
          /\ Marks(w, cursor) => Marks(v, p)
          /\ Backed(w, cursor) => Backed(v, p)
      BY <1>2, <1>3, <3>1, <3>2, DisableStakesShrinks DEF v
    <3>4. Knows(v, db.hashBestChain)
      BY <2>2, <3>2 DEF Knows
    <3> QED BY <3>2, <3>3, <3>4
  <2>5. TracksInv'
    BY <1>1, <2>1, <2>4 DEF TracksInv
  <2> QED BY <1>5, <2>3, <2>5
<1> QED BY <1>6, <1>7

\* TxnCommit: the database comes to where the wallet is, or a switch that was
\* not told ends further down the chain the wallet knows.
LEMMA WalletTxnCommitInv ==
    ASSUME WalletInv, WalletTxnCommit
    PROVE  WalletTypeOK' /\ StartInv' /\ TracksInv'
<1>1. /\ pc \in Working /\ cursor = goal /\ diverged' = diverged
      /\ db' = [batch EXCEPT !.hashBestChain = goal]
      /\ pc' = IF goal = pindexNew THEN "Publish" ELSE "Further"
      /\ UNCHANGED <<pindexBest, pindexNew, base, goal>>
      /\ UNCHANGED <<mapWallet, bestblock, starting, raced>>
      /\ mempool' = PoolAfterCommit
      /\ undone' = (undone \/ ~Registered) /\ shaken' = (shaken \/ ~Registered)
  BY DEF WalletTxnCommit, TxnCommit, wallet
<1>2. goal \in Blocks /\ base \in Blocks /\ IsDatabase(batch)
  BY <1>1, CallBlocks DEF WalletInv, IInv, BatchInv
<1>3. db'.hashBestChain = goal
  BY <1>1, <1>2, WriteHashBestChain
<1>4. pc' \notin Working /\ pc' \notin {"idle", "down", "SetBestChain", "Postponed"}
  BY <1>1 DEF Working
<1>5. PoolAfterCommit \subseteq Tx
  <2>1. \A b \in Chain[base] : TxsOf[b] \subseteq Tx
    BY <1>2, ChainClosed, TxAssumption DEF TxAssumption
  <2> QED BY <2>1 DEF PoolAfterCommit, WalletInv, WalletTypeOK
<1>6. WalletTypeOK'
  <2>1. IsWallet(mapWallet') /\ mempool' \subseteq Tx
    BY <1>1, <1>5, TypeIsWallet DEF WalletInv
  <2>2. undone' \in BOOLEAN /\ shaken' \in BOOLEAN
    BY <1>1
  <2> QED BY <1>1, <2>1, <2>2 DEF WalletInv, WalletTypeOK, IsWallet
<1>7. StartInv'
  BY <1>1, <1>3, <1>4 DEF WalletInv, StartInv
<1>8. Point' = goal
  BY <1>3, <1>4 DEF Point
<1>9. CASE Registered
  <2>1. Point = goal
    BY <1>1, <1>9 DEF Point
  <2>2. (undone' => undone) /\ (shaken' => shaken) /\ (undone => undone') /\ (shaken => shaken')
    BY <1>1, <1>9
  <2>3. TracksInv'
    BY <1>1, <1>3, <1>8, <2>1, <2>2 DEF WalletInv, TracksInv
  <2> QED BY <1>6, <1>7, <2>3
<1>10. CASE ~Registered
  <2>1. undone' /\ shaken'
    BY <1>1, <1>10
  <2>2. ASSUME ~diverged
        PROVE  Knows(mapWallet, goal)
    <3>1. goal \in Chain[base] /\ base = db.hashBestChain
      BY <1>1, <1>10, <2>2 DEF WalletInv, StartInv, Registered, IInv, ChainInv
    <3> QED BY <1>2, <2>2, <3>1, KnowsLess DEF WalletInv, TracksInv
  <2>3. TracksInv'
    BY <1>1, <1>3, <1>8, <2>1, <2>2 DEF TracksInv
  <2> QED BY <1>6, <1>7, <2>3
<1> QED BY <1>9, <1>10

\* SetBestChain writes the locator of the block it published.
LEMMA WalletPublishInv ==
    ASSUME WalletInv, WalletPublish
    PROVE  WalletTypeOK' /\ StartInv' /\ TracksInv'
<1>1. /\ pc = "Publish" /\ pc' = "idle" /\ db' = db /\ diverged' = diverged
      /\ pindexBest' = pindexNew
      /\ bestblock' \in {bestblock, pindexNew}
      /\ UNCHANGED <<mapWallet, mempool, starting, undone, shaken, raced>>
  BY DEF WalletPublish, Publish, Return, Goto, walletHistory
<1>2. pindexNew \in Blocks
  BY <1>1, CallBlocks DEF WalletInv, Calling
<1>3. WalletTypeOK'
  BY <1>1, <1>2 DEF WalletInv, WalletTypeOK
<1>4. StartInv'
  BY <1>1 DEF WalletInv, StartInv, Working
<1>5. Point' = Point
  BY <1>1 DEF Point, Working
<1>6. TracksInv'
  BY <1>1, <1>5, TracksStay DEF WalletInv
<1> QED BY <1>3, <1>4, <1>6

\* TxnAbort drops what the wallet has been told.
LEMMA WalletAbortInv ==
    ASSUME WalletInv, WalletAbort
    PROVE  WalletTypeOK' /\ StartInv' /\ TracksInv'
<1>1. /\ pc \in Working
      /\ \/ pc # "Postponed" /\ FailFirst
         \/ pc = "Postponed" /\ FailPostponed
         \/ pc # "Postponed" /\ Return /\ db' = db
         \/ pc = "Postponed" /\ Goto("Publish", pindexNew) /\ db' = db
      /\ UNCHANGED <<pindexBest, diverged>>
  BY DEF WalletAbort, BlockRefused, ReorganizeReadFails, CommitFails, Working
<1>2. /\ UNCHANGED <<mapWallet, bestblock, mempool, starting, raced>>
      /\ undone' = (undone \/ Told) /\ shaken' = (shaken \/ Told)
  BY DEF WalletAbort, wallet
<1>3. pindexNew \in Blocks /\ goal \in Blocks /\ TypeOK
  BY <1>1, CallBlocks DEF WalletInv, Calling, IInv
<1>4. db'.hashBestChain = db.hashBestChain
  BY <1>1, <1>3, InvalidChainFoundWrites DEF FailFirst, FailPostponed
<1>5. pc' = IF pc = "Postponed" THEN "Publish" ELSE "idle"
  BY <1>1 DEF FailFirst, FailPostponed, Return, Goto
<1>6. WalletTypeOK'
  <2>1. undone' \in BOOLEAN /\ shaken' \in BOOLEAN
    BY <1>2
  <2> QED BY <1>2, <2>1 DEF WalletInv, WalletTypeOK
<1>7. StartInv'
  BY <1>1, <1>2, <1>4, <1>5 DEF WalletInv, StartInv, Working
<1>8. Point' = db.hashBestChain
  BY <1>4, <1>5 DEF Point, Working
<1>9. ~diverged => Point' = Point \/ (shaken' /\ undone')
  <2>1. CASE Told
    BY <1>2, <2>1
  <2>2. CASE ~Told
    <3>1. ASSUME ~diverged PROVE Point = db.hashBestChain
      BY <2>2, <3>1, PointIsTip DEF WalletInv
    <3> QED BY <1>8, <3>1
  <2> QED BY <2>1, <2>2
<1>10. TracksInv'
  BY <1>1, <1>2, <1>4, <1>8, <1>9, TracksStay DEF WalletInv
<1> QED BY <1>6, <1>7, <1>10

LEMMA WalletCrashInv ==
    ASSUME WalletInv, WalletCrash
    PROVE  WalletTypeOK' /\ StartInv' /\ TracksInv'
<1>1. /\ pc' = "down" /\ db' = db /\ diverged' = diverged
      /\ mempool' = {} /\ starting' = "no"
      /\ UNCHANGED <<mapWallet, bestblock, raced>>
      /\ undone' = (undone \/ Told) /\ shaken' = (shaken \/ Told)
  BY DEF WalletCrash, Crash, Goto, wallet
<1>2. WalletTypeOK'
  <2>1. undone' \in BOOLEAN /\ shaken' \in BOOLEAN
    BY <1>1
  <2> QED BY <1>1, <2>1 DEF WalletInv, WalletTypeOK
<1>3. StartInv'
  BY <1>1 DEF StartInv
<1>4. Point' = db.hashBestChain
  BY <1>1 DEF Point, Working
<1>5. ~diverged => Point' = Point \/ (shaken' /\ undone')
  <2>1. CASE Told
    BY <1>1, <2>1
  <2>2. CASE ~Told
    <3>1. ASSUME ~diverged PROVE Point = db.hashBestChain
      BY <2>2, <3>1, PointIsTip DEF WalletInv
    <3> QED BY <1>4, <3>1
  <2> QED BY <2>1, <2>2
<1>6. TracksInv'
  BY <1>1, <1>4, <1>5, TracksStay DEF WalletInv
<1> QED BY <1>2, <1>3, <1>6

\* LoadBlockIndex: the node is up again, the wallet not registered yet.
LEMMA WalletLoadBlockIndexInv ==
    ASSUME WalletInv, WalletLoadBlockIndex
    PROVE  WalletTypeOK' /\ StartInv' /\ TracksInv'
<1>1. /\ pc = "down" /\ db' = db /\ diverged' = diverged
      /\ pindexBest' = db.hashBestChain
      /\ starting' = "rescan"
      /\ UNCHANGED <<mapWallet, bestblock, mempool, undone, shaken, raced>>
  BY DEF WalletLoadBlockIndex, LoadBlockIndex, wallet, walletHistory
<1>2. \/ pc' = "idle"
      \/ pc' = "SetBestChain" /\ pindexNew' \in Chain[db.hashBestChain]
  <2>1. \/ Return
        \/ \E lowest \in Connected(db.hashBestChain) : Goto("SetBestChain", Parent[lowest])
    BY DEF WalletLoadBlockIndex, LoadBlockIndex, BadBlocks
  <2>2. CASE Return
    BY <2>2 DEF Return, Goto
  <2>3. ASSUME NEW lowest \in Connected(db.hashBestChain), Goto("SetBestChain", Parent[lowest])
        PROVE  pc' = "SetBestChain" /\ pindexNew' \in Chain[db.hashBestChain]
    <3>1. db.hashBestChain \in Blocks
      BY CallBlocks DEF WalletInv
    <3>2. Parent[lowest] \in Chain[db.hashBestChain]
      BY <2>3, <3>1, ChainClosed DEF ClosedUnderParent, Connected
    <3> QED BY <2>3, <3>2 DEF Goto
  <2> QED BY <2>1, <2>2, <2>3
<1>3. WalletTypeOK'
  BY <1>1 DEF WalletInv, WalletTypeOK
<1>4. StartInv'
  BY <1>1, <1>2 DEF StartInv, Working
<1>5. Point' = Point
  BY <1>1, <1>2 DEF Point, Working
<1>6. TracksInv'
  BY <1>1, <1>5, TracksStay DEF WalletInv
<1> QED BY <1>3, <1>4, <1>6

\* At start-up SetBestChain is called with a block of the best chain: it goes
\* there at once and postpones nothing.
LEMMA SetBestChainAtStart ==
    ASSUME IInv, StartInv, starting = "rescan", SetBestChain
    PROVE  /\ pc' = "Reorganize" /\ goal' = pindexNew
           /\ pindexNew \in Chain[pindexBest] /\ pindexBest = db.hashBestChain
<1>1. pc = "SetBestChain" /\ pindexNew \in Chain[pindexBest] /\ pindexBest = db.hashBestChain
  BY DEF SetBestChain, StartInv
<1>2. pindexNew \in Blocks /\ pindexBest \in Blocks
  BY <1>1, CallBlocks DEF Calling
<1>3. /\ (pc' = "Extend" /\ goal' = pindexNew) \/ pc' = "Reorganize"
      /\ goal' \in Chain[pindexNew]
      /\ goal' = pindexNew \/ ChainTrust[goal'] > ChainTrust[pindexBest]
  BY <1>2, SetBestChainGoal
<1>4. ~(pindexNew # Genesis /\ Parent[pindexNew] = pindexBest)
  BY <1>1, <1>2, NotOnParentChain
<1>5. pc' = "Reorganize"
  BY <1>4 DEF SetBestChain, TxnBegin
<1>6. goal' \in Chain[pindexBest] /\ goal' \in Blocks
  BY <1>1, <1>2, <1>3, ChainMonotone
<1>7. ~(ChainTrust[goal'] > ChainTrust[pindexBest])
  <2>1. ChainTrust[goal'] \in Nat /\ ChainTrust[pindexBest] \in Nat
    BY <1>2, <1>6, TrustAssumption DEF TrustAssumption
  <2>2. goal' = pindexBest \/ ChainTrust[goal'] < ChainTrust[pindexBest]
    BY <1>2, <1>6, AncestorsAreLower
  <2> QED BY <2>1, <2>2
<1> QED BY <1>1, <1>3, <1>5, <1>7

\* The other steps of the chain: AcceptBlock, the beginning of a transaction
\* and a postponed block that cannot be read.
LEMMA WalletElseInv ==
    ASSUME WalletInv, WalletElse
    PROVE  WalletTypeOK' /\ StartInv' /\ TracksInv'
<1>1. UNCHANGED <<mapWallet, bestblock, mempool, starting, undone, shaken, raced>>
  BY DEF WalletElse, wallet, walletHistory
<1>2. WalletTypeOK'
  BY <1>1 DEF WalletInv, WalletTypeOK
<1>3. CASE Registered /\ \E b \in Blocks : AcceptBlock(b)
  <2>1. PICK b \in Blocks : AcceptBlock(b)
    BY <1>3
  <2>2. /\ pc = "idle" /\ pc' \in {"idle", "SetBestChain"} /\ diverged' = diverged
        /\ db' = [db EXCEPT !.blockindex = @ \cup {b}, !.hashNext[b] = Null]
    BY <2>1 DEF AcceptBlock, Goto, call
  <2>3. db'.hashBestChain = db.hashBestChain
    BY <2>2, WriteBlockIndex DEF WalletInv, IInv, TypeOK
  <2>4. StartInv'
    BY <1>1, <1>3, <2>2 DEF StartInv, Registered
  <2>5. Point' = Point
    BY <2>2, <2>3 DEF Point, Working
  <2>6. TracksInv'
    BY <1>1, <2>2, <2>3, <2>5, TracksStay DEF WalletInv
  <2> QED BY <1>2, <2>4, <2>6
<1>4. CASE SetBestChain
  <2>1. /\ pc = "SetBestChain" /\ pc' \in Working \ {"Postponed"} /\ db' = db
        /\ diverged' = (diverged \/ pindexBest # db.hashBestChain)
        /\ cursor' = pindexBest /\ base' = pindexBest
        /\ UNCHANGED <<pindexNew, pindexBest>>
    BY <1>4 DEF SetBestChain, TxnBegin, Working, memory
  <2>2. StartInv'
    <3>1. CASE starting = "rescan"
      BY <1>1, <1>4, <2>1, <3>1, SetBestChainAtStart DEF WalletInv, StartInv, Working
    <3>2. CASE starting # "rescan"
      BY <1>1, <2>1, <3>2 DEF StartInv, Working
    <3> QED BY <3>1, <3>2
  <2>3. diverged => diverged'
    BY <2>1
  <2>4. ~diverged' => pindexBest = db.hashBestChain
    BY <2>1
  <2>5. Point = db.hashBestChain
    BY <2>1 DEF Point, Working
  <2>6. ~diverged' => Point' = Point
    BY <2>1, <2>4, <2>5 DEF Point
  <2>7. TracksInv'
    BY <1>1, <2>1, <2>3, <2>6, TracksStay DEF WalletInv
  <2> QED BY <1>2, <2>2, <2>7
<1>5. CASE ConnectFurther \/ PostponedReadFails
  <2>1. /\ pc = "Further" /\ db' = db /\ diverged' = diverged
        /\ \/ pc' = "Postponed" /\ cursor' = goal
           \/ pc' = "Publish"
    BY <1>5 DEF ConnectFurther, PostponedReadFails, TxnBegin, Goto
  <2>2. starting # "rescan"
    BY <2>1 DEF WalletInv, StartInv
  <2>3. StartInv'
    BY <1>1, <2>1, <2>2 DEF StartInv
  <2>4. ~diverged => Point' = Point
    BY <2>1 DEF Point, Working, WalletInv, IInv, ChainInv
  <2>5. TracksInv'
    BY <1>1, <2>1, <2>4, TracksStay DEF WalletInv
  <2> QED BY <1>2, <2>3, <2>5
<1> QED BY <1>3, <1>4, <1>5 DEF WalletElse

-----------------------------------------------------------------------------

\* What the wallet's own steps rest on: they leave the chain where it is.
LEMMA ChainStays ==
    ASSUME IInv, StartInv, UNCHANGED vars
    PROVE  /\ db.hashBestChain \in Blocks /\ Point \in Blocks
           /\ db' = db /\ pc' = pc /\ diverged' = diverged
           /\ starting' = starting => StartInv'
           /\ starting # "rescan" /\ pc # "down" /\ starting' # "rescan" => StartInv'
           /\ Registered' = Registered \/ pc = "idle" => Point' = Point
           /\ ~diverged /\ pc # "down" =>
                 /\ pnext = LinksOf(db.hashBestChain)
                 /\ db.tx = IndexOfChain(db.hashBestChain)
<1>1. UNCHANGED <<db, pc, pindexBest, pindexNew, base, goal, cursor, diverged>>
  BY DEF vars, memory, call
<1>2. db.hashBestChain \in Blocks /\ Point \in Blocks
  BY CallBlocks DEF Point
<1>3. /\ starting' = starting => StartInv'
      /\ starting # "rescan" /\ pc # "down" /\ starting' # "rescan" => StartInv'
  BY <1>1 DEF StartInv
<1>4. Registered' = Registered \/ pc = "idle" => Point' = Point
  BY <1>1 DEF Point, Working
<1>5. ~diverged /\ pc # "down" =>
         /\ pnext = LinksOf(db.hashBestChain)
         /\ db.tx = IndexOfChain(db.hashBestChain)
  BY DEF IInv, LinksInv, ChainInv
<1> QED BY <1>1, <1>2, <1>3, <1>4, <1>5

\* The start-up rescan.
LEMMA RescanInv ==
    ASSUME WalletInv, Rescan
    PROVE  WalletTypeOK' /\ StartInv' /\ TracksInv'
<1> DEFINE w == mapWallet
           tip == db.hashBestChain
<1>1. /\ pc = "idle" /\ starting = "rescan" /\ starting' = "reaccept" /\ UNCHANGED vars
      /\ UNCHANGED <<bestblock, mempool, undone, shaken, raced>>
  BY DEF Rescan, walletHistory
<1>2. PICK from \in {RescanFrom, Genesis} : mapWallet' = w \/ mapWallet' = Scan(w, from, TRUE)
  BY DEF Rescan
<1>3. IInv /\ StartInv /\ IsWallet(w) /\ pindexBest = tip
  BY <1>1, TypeIsWallet DEF WalletInv, StartInv
<1>4. /\ tip \in Blocks /\ db' = db /\ pc' = pc /\ diverged' = diverged
      /\ Point' = Point /\ Point = tip
      /\ ~diverged => pnext = LinksOf(tip)
  BY <1>1, <1>3, ChainStays DEF Point, Working
<1>5. StartInv'
  BY <1>1, <1>4 DEF StartInv
<1> HIDE DEF w
<1>6. IsWallet(mapWallet')
  <2>1. CASE mapWallet' = w
    BY <1>3, <2>1
  <2>2. CASE mapWallet' = Scan(w, from, TRUE)
    <3>1. PICK T \in SUBSET Tx : \E At \in [T -> Blocks \cup {Null}] :
             mapWallet' = Sync(w, T, At, TRUE)
      BY <1>3, <2>2, ScanWrites
    <3>2. PICK At \in [T -> Blocks \cup {Null}] : mapWallet' = Sync(w, T, At, TRUE)
      BY <3>1
    <3>3. Wrote(w, At, Seen(w, T, TRUE), mapWallet')
      BY <1>3, <3>2, SyncWrites
    <3> QED BY <3>3 DEF Wrote
  <2> QED BY <1>2, <2>1, <2>2
<1>7. WalletTypeOK'
  BY <1>1, <1>6 DEF WalletInv, WalletTypeOK, IsWallet
<1>8. ASSUME ~diverged
      PROVE  LET v == mapWallet' IN
             /\ Knows(v, tip)
             /\ ~shaken => Places(v, tip)
             /\ ~undone /\ ~raced => Marks(v, tip)
             /\ ~shaken /\ ~raced => Backed(v, tip)
  <2>1. /\ Knows(w, tip)
        /\ ~shaken => Places(w, tip)
        /\ ~undone /\ ~raced => Marks(w, tip)
        /\ ~shaken /\ ~raced => Backed(w, tip)
    BY <1>4, <1>8 DEF WalletInv, TracksInv, w
  <2>2. CASE mapWallet' = w
    BY <2>1, <2>2
  <2>3. CASE mapWallet' = Scan(w, from, TRUE)
    <3>1. pnext = LinksOf(tip) /\ bestblock \in Blocks \cup {Null}
      BY <1>4, <1>8 DEF WalletInv, WalletTypeOK
    <3>2. from \in Chain[tip]
      BY <1>3, <1>4, <3>1, RescanFromOnChain, GenesisOnChain
    <3> HIDE DEF tip
    <3>3. /\ Knows(mapWallet', tip)
          /\ Places(w, tip) => Places(mapWallet', tip)
          /\ Marks(w, tip) => Marks(mapWallet', tip)
          /\ Backed(w, tip) => Backed(mapWallet', tip)
      BY <1>3, <1>4, <2>1, <2>3, <3>1, <3>2, ScanKeeps
    <3> QED BY <2>1, <3>3
  <2> QED BY <1>2, <2>2, <2>3
<1>9. TracksInv'
  BY <1>1, <1>4, <1>8 DEF TracksInv
<1> QED BY <1>5, <1>7, <1>9

\* repairwallet.
LEMMA FixSpentCoinsInv ==
    ASSUME WalletInv, FixSpentCoins
    PROVE  WalletTypeOK' /\ StartInv' /\ TracksInv'
<1> DEFINE w == mapWallet
           v == Fixed
           tip == db.hashBestChain
<1>1. /\ pc # "down" /\ Registered /\ UNCHANGED vars
      /\ UNCHANGED <<bestblock, mempool, starting, shaken>>
      /\ mapWallet' = v /\ undone' = FALSE /\ raced' = (raced \/ Told)
  BY DEF FixSpentCoins, Fixed
<1>2. IInv /\ StartInv /\ IsWallet(w)
  BY TypeIsWallet DEF WalletInv
<1>3. Registered' = Registered
  BY <1>1 DEF Registered
<1>4. /\ tip \in Blocks /\ Point \in Blocks /\ db' = db /\ diverged' = diverged
      /\ Point' = Point /\ StartInv'
      /\ ~diverged => db.tx = IndexOfChain(tip)
  BY <1>1, <1>2, <1>3, ChainStays
<1>5. IsWallet(v)
  BY <1>2, FixedRepairs
<1> HIDE DEF v
<1>6. WalletTypeOK'
  <2>1. IsWallet(mapWallet') /\ raced' \in BOOLEAN /\ undone' \in BOOLEAN
    BY <1>1, <1>5
  <2> QED BY <1>1, <2>1 DEF WalletInv, WalletTypeOK, IsWallet
<1>7. ASSUME ~diverged
      PROVE  /\ Knows(v, tip) /\ Knows(v, Point)
             /\ ~shaken => Places(v, Point)
             /\ ~raced' => Marks(v, Point)
             /\ ~shaken /\ ~raced' => Backed(v, Point)
  <2>1. /\ Repaired(w, v, tip)
        /\ \A t \in DOMAIN v : t \in TxsOfChain(tip) =>
              MineOf(t) \cap SpentOutputs(t, TxsOfChain(tip)) \subseteq v[t].spent
    BY <1>2, <1>4, <1>7, FixedRepairs DEF v
  <2>2. /\ Knows(w, tip) /\ Knows(w, Point)
        /\ ~shaken => Places(w, Point)
        /\ ~shaken /\ ~raced => Backed(w, Point)
    BY <1>7 DEF WalletInv, TracksInv
  <2> HIDE DEF w, tip
  <2>3. /\ \A c : Knows(w, c) => Knows(v, c)
        /\ \A c : Knows(w, c) /\ Places(w, c) => Places(v, c)
        /\ Backed(w, tip) => Backed(v, tip)
    BY <1>4, <2>1, <2>2, RepairedKeeps
  <2>4. Knows(v, tip) /\ Knows(v, Point) /\ (~shaken => Places(v, Point))
    BY <2>2, <2>3
  <2>5. Marks(v, tip)
    BY <1>4, <2>1, <2>4, RepairedMarks
  <2>6. ~raced' => ~raced /\ ~Told
    BY <1>1
  <2>7. ~Told => Point = tip
    BY <1>2, <1>7, PointIsTip DEF tip
  <2> QED BY <2>2, <2>3, <2>4, <2>5, <2>6, <2>7
<1>8. TracksInv'
  BY <1>1, <1>4, <1>7 DEF TracksInv
<1> QED BY <1>4, <1>6, <1>8

\* A turn of ReacceptWalletTransactions, also in the middle of a switch.
LEMMA ReacceptInv ==
    ASSUME WalletInv, Reaccept
    PROVE  WalletTypeOK' /\ StartInv' /\ TracksInv'
<1> DEFINE w == mapWallet
           m == Marked
           v == mapWallet'
           tip == db.hashBestChain
<1>1. /\ pc # "down" /\ starting = "reaccept" /\ UNCHANGED vars
      /\ UNCHANGED <<bestblock, shaken>>
      /\ v = m \/ v = Scan(m, Genesis, FALSE)
      /\ starting' \in {"no", "reaccept"}
      /\ undone' = (undone /\ \E t \in DOMAIN mapWallet : SkippedByReaccept(t))
      /\ raced' = (raced \/ Told)
  BY DEF Reaccept
<1>2. mempool' \subseteq Tx
  <2>1. \E T \in SUBSET DOMAIN mapWallet : mempool' = mempool \cup T
    BY DEF Reaccept
  <2> QED BY <2>1 DEF WalletInv, WalletTypeOK
<1>3. IInv /\ StartInv /\ IsWallet(w)
  BY TypeIsWallet DEF WalletInv
<1>4. Registered' = Registered
  BY <1>1 DEF Registered
<1>5. /\ tip \in Blocks /\ Point \in Blocks /\ db' = db /\ diverged' = diverged
      /\ Point' = Point /\ StartInv'
      /\ ~diverged => pnext = LinksOf(tip) /\ db.tx = IndexOfChain(tip)
  BY <1>1, <1>3, <1>4, ChainStays
<1>6. IsWallet(m) /\ DOMAIN m = DOMAIN w
  BY <1>3, MarkedRepairs
<1> HIDE DEF m, v
<1>7. IsWallet(v)
  <2>1. CASE v = Scan(m, Genesis, FALSE)
    <3>1. PICK T \in SUBSET Tx : \E At \in [T -> Blocks \cup {Null}] :
             v = Sync(m, T, At, FALSE)
      BY <1>6, <2>1, ScanWrites
    <3>2. PICK At \in [T -> Blocks \cup {Null}] : v = Sync(m, T, At, FALSE)
      BY <3>1
    <3>3. Wrote(m, At, Seen(m, T, FALSE), v)
      BY <1>6, <3>2, SyncWrites
    <3> QED BY <3>3 DEF Wrote
  <2> QED BY <1>1, <1>6, <2>1
<1>8. WalletTypeOK'
  <2>1. IsWallet(mapWallet') /\ undone' \in BOOLEAN /\ raced' \in BOOLEAN
    BY <1>1, <1>7 DEF v
  <2> QED BY <1>1, <1>2, <2>1 DEF WalletInv, WalletTypeOK, IsWallet
<1>9. ASSUME ~diverged
      PROVE  /\ Knows(v, tip) /\ Knows(v, Point)
             /\ ~shaken => Places(v, Point)
             /\ ~undone' /\ ~raced' => Marks(v, Point)
             /\ ~shaken /\ ~raced' => Backed(v, Point)
  <2>1. /\ Repaired(w, m, tip)
        /\ \/ \E t \in DOMAIN w : SkippedByReaccept(t)
           \/ \A t \in DOMAIN m : t \in TxsOfChain(tip) =>
                 MineOf(t) \cap SpentOutputs(t, TxsOfChain(tip)) \subseteq m[t].spent
    BY <1>3, <1>5, <1>9, MarkedRepairs DEF m
  <2>2. /\ Knows(w, tip) /\ Knows(w, Point)
        /\ ~shaken => Places(w, Point)
        /\ ~undone /\ ~raced => Marks(w, Point)
        /\ ~shaken /\ ~raced => Backed(w, Point)
    BY <1>9 DEF WalletInv, TracksInv
  <2>3. undone => undone' \/ ~\E t \in DOMAIN w : SkippedByReaccept(t)
    BY <1>1
  <2>4. ~raced' => ~raced /\ ~Told
    BY <1>1
  <2>5. ~Told => Point = tip
    BY <1>3, <1>9, PointIsTip
  <2>6. pnext = LinksOf(tip) /\ Genesis \in Chain[tip]
    BY <1>5, <1>9, GenesisOnChain
  <2> HIDE DEF w, tip
  <2>7. /\ \A c : Knows(w, c) => Knows(m, c)
        /\ \A c : Knows(w, c) /\ Places(w, c) => Places(m, c)
        /\ Marks(w, tip) => Marks(m, tip)
        /\ Backed(w, tip) => Backed(m, tip)
    BY <1>5, <2>1, <2>2, RepairedKeeps
  <2>8. Knows(m, tip) /\ Knows(m, Point) /\ (~shaken => Places(m, Point))
    BY <2>2, <2>7
  <2>9. ASSUME ~undone', ~raced'
        PROVE  Marks(m, tip)
    <3>1. CASE ~undone
      BY <2>2, <2>4, <2>5, <2>7, <2>9, <3>1
    <3>2. CASE undone
      BY <1>5, <2>1, <2>3, <2>8, <2>9, <3>2, RepairedMarks
    <3> QED BY <3>1, <3>2
  <2>10. ~shaken /\ ~raced' => Backed(m, tip)
    BY <2>2, <2>4, <2>5, <2>7
  <2>11. /\ DOMAIN m \subseteq DOMAIN v
         /\ Marks(m, tip) => Marks(v, tip)
         /\ Backed(m, tip) => Backed(v, tip)
         /\ Places(m, Point) => Places(v, Point)
    <3>1. CASE v = Scan(m, Genesis, FALSE)
      BY <1>5, <1>6, <2>6, <2>8, <3>1, ScanKeeps
    <3> QED BY <1>1, <3>1
  <2>12. Knows(v, tip) /\ Knows(v, Point)
    BY <2>8, <2>11 DEF Knows
  <2> QED BY <2>4, <2>5, <2>8, <2>9, <2>10, <2>11, <2>12
<1>10. TracksInv'
  BY <1>1, <1>5, <1>9 DEF TracksInv, v
<1> QED BY <1>5, <1>8, <1>10

\* A transaction that is in no block, sent or received.
LEMMA SyncOneInv ==
    ASSUME WalletInv, NEW t \in Tx \ IsStake, pc = "idle",
           mapWallet' = Sync(mapWallet, {t}, [u \in {t} |-> Null], TRUE),
           mempool' \subseteq Tx,
           UNCHANGED <<vars, bestblock, starting, walletHistory>>
    PROVE  WalletTypeOK' /\ StartInv' /\ TracksInv'
<1> DEFINE w == mapWallet
           v == mapWallet'
           tip == db.hashBestChain
           T == {t}
           At == [u \in {t} |-> Null]
<1>1. UNCHANGED vars /\ UNCHANGED <<bestblock, starting, undone, shaken, raced>>
  BY DEF walletHistory
<1>2. IInv /\ StartInv /\ IsWallet(w)
  BY TypeIsWallet DEF WalletInv
<1>3. /\ tip \in Blocks /\ db' = db /\ diverged' = diverged
      /\ Point' = Point /\ Point = tip /\ StartInv'
  BY <1>1, <1>2, ChainStays DEF Point, Working
<1>4. /\ T \in SUBSET Tx /\ At \in [T -> Blocks \cup {Null}] /\ v = Sync(w, T, At, TRUE)
      /\ \A u \in T : At[u] = Null /\ u \notin IsStake
  OBVIOUS
<1> HIDE DEF T, At, v, w, tip
<1>5. Wrote(w, At, Seen(w, T, TRUE), v)
  BY <1>2, <1>4, SyncWrites
<1>6. IsWallet(v)
  BY <1>5 DEF Wrote
<1>7. WalletTypeOK'
  BY <1>1, <1>6 DEF v, WalletInv, WalletTypeOK, IsWallet
<1>8. ASSUME ~diverged
      PROVE  /\ Knows(v, tip)
             /\ ~shaken => Places(v, tip)
             /\ ~undone /\ ~raced => Marks(v, tip)
             /\ ~shaken /\ ~raced => Backed(v, tip)
  <2>1. /\ Knows(w, tip)
        /\ ~shaken => Places(w, tip)
        /\ ~undone /\ ~raced => Marks(w, tip)
        /\ ~shaken /\ ~raced => Backed(w, tip)
    BY <1>3, <1>8 DEF WalletInv, TracksInv, w, tip
  <2>2. Seen(w, T, TRUE) = T
    BY DEF Seen
  <2>3. /\ Knows(v, tip)
        /\ Marks(w, tip) => Marks(v, tip)
    BY <1>2, <1>3, <1>4, <2>1, SyncKeeps
  <2>4. Places(w, tip) => Places(v, tip)
    <3>1. \A u \in DOMAIN w : v[u].hashBlock = w[u].hashBlock
      BY <1>4, <1>5, <2>2 DEF Wrote
    <3> QED BY <2>1, <3>1 DEF Knows, Places
  <2>5. Backed(w, tip) => Backed(v, tip)
    BY <1>2, <1>3, <1>4, <2>1, <2>2, SyncKeeps
  <2> QED BY <2>1, <2>3, <2>4, <2>5
<1>9. TracksInv'
  BY <1>1, <1>3, <1>8 DEF TracksInv, v, tip
<1> QED BY <1>3, <1>7, <1>9

LEMMA CommitTransactionInv ==
    ASSUME WalletInv, NEW t \in Tx, CommitTransaction(t) \/ ReceiveTx(t)
    PROVE  WalletTypeOK' /\ StartInv' /\ TracksInv'
<1>1. t \in Tx \ IsStake
  BY WalletAssumption DEF WalletAssumption, CommitTransaction, ReceiveTx, Acceptable, Passes, Loose
<1>2. mempool' \subseteq Tx
  BY DEF CommitTransaction, ReceiveTx, WalletInv, WalletTypeOK
<1>3. /\ pc = "idle"
      /\ mapWallet' = Sync(mapWallet, {t}, [u \in {t} |-> Null], TRUE)
      /\ UNCHANGED <<vars, bestblock, starting, walletHistory>>
  BY DEF CommitTransaction, ReceiveTx
<1> QED BY <1>1, <1>2, <1>3, SyncOneInv

-----------------------------------------------------------------------------

LEMMA WalletNextInv ==
    ASSUME WalletInv, [WalletNext]_walletVars
    PROVE  WalletInv'
<1>1. CASE UNCHANGED walletVars
  <2>1. UNCHANGED vars /\ UNCHANGED <<mapWallet, bestblock, mempool, starting, undone, shaken, raced>>
    BY <1>1 DEF walletVars, wallet, walletHistory
  <2>2. IInv'
    BY <2>1, NextIInv DEF WalletInv
  <2>3. WalletTypeOK'
    BY <2>1 DEF WalletInv, WalletTypeOK
  <2>4. Registered' = Registered
    BY <2>1 DEF Registered
  <2>5. StartInv' /\ Point' = Point /\ db' = db /\ diverged' = diverged
    BY <2>1, <2>4, ChainStays DEF WalletInv
  <2>6. TracksInv'
    BY <2>1, <2>5, TracksStay DEF WalletInv
  <2> QED BY <2>2, <2>3, <2>5, <2>6 DEF WalletInv
<1>2. CASE WalletNext
  <2>1. IInv'
    BY <1>2, WalletStepsChain, NextIInv DEF WalletInv
  <2>2. CASE WalletConnectBlock
    BY <2>1, <2>2, WalletConnectBlockInv DEF WalletInv
  <2>3. CASE WalletDisconnectBlock
    BY <2>1, <2>3, WalletDisconnectBlockInv DEF WalletInv
  <2>4. CASE WalletTxnCommit
    BY <2>1, <2>4, WalletTxnCommitInv DEF WalletInv
  <2>5. CASE WalletPublish
    BY <2>1, <2>5, WalletPublishInv DEF WalletInv
  <2>6. CASE WalletAbort
    BY <2>1, <2>6, WalletAbortInv DEF WalletInv
  <2>7. CASE WalletCrash
    BY <2>1, <2>7, WalletCrashInv DEF WalletInv
  <2>8. CASE WalletLoadBlockIndex
    BY <2>1, <2>8, WalletLoadBlockIndexInv DEF WalletInv
  <2>9. CASE WalletElse
    BY <2>1, <2>9, WalletElseInv DEF WalletInv
  <2>10. CASE Rescan
    BY <2>1, <2>10, RescanInv DEF WalletInv
  <2>11. CASE Reaccept
    BY <2>1, <2>11, ReacceptInv DEF WalletInv
  <2>12. CASE FixSpentCoins
    BY <2>1, <2>12, FixSpentCoinsInv DEF WalletInv
  <2>13. CASE \E t \in Tx : CommitTransaction(t) \/ ReceiveTx(t)
    BY <2>1, <2>13, CommitTransactionInv DEF WalletInv
  <2> QED
    BY <1>2, <2>2, <2>3, <2>4, <2>5, <2>6, <2>7, <2>8, <2>9, <2>10, <2>11, <2>12, <2>13
       DEF WalletNext, WalletStep
<1> QED BY <1>1, <1>2

\* The inductive invariant: what BlockChainProofs shows of the chain, the
\* types, where a switch at start-up leads, and that the wallet follows the
\* chain ConnectBlock and DisconnectBlock told it of last.
THEOREM WalletInvHolds == WalletSpec => []WalletInv
<1>1. WalletInv /\ [WalletNext]_walletVars => WalletInv'
  BY WalletNextInv
<1> QED BY <1>1, WalletInitInv, PTL DEF WalletSpec

\* Every variable of the wallet has its type: vfSpent never marks an output
\* that its transaction does not have (MarkSpent checks the index).
THEOREM WalletTypeCorrect == WalletSpec => []WalletTypeOK
<1>1. WalletInv => WalletTypeOK
  BY DEF WalletInv
<1> QED BY <1>1, WalletInvHolds, PTL

\* At any moment, so after a crash at any moment, the wallet has every own
\* transaction of the committed chain, and between switches each in its block
\* as long as no switch was undone: SyncWithWallets over any sequence of
\* reorganizations, crashes, rescans and repairs.
THEOREM WalletAlwaysKnowsChain == WalletSpec => []WalletKnowsChain
<1>1. ASSUME WalletInv
      PROVE  WalletKnowsChain
  <2> DEFINE tip == db.hashBestChain
  <2> SUFFICES ASSUME ~diverged
               PROVE  /\ OwnOnChain \subseteq DOMAIN mapWallet
                      /\ pc = "idle" /\ ~shaken =>
                            \A t \in OwnOnChain : mapWallet[t].hashBlock = db.tx[t].pos
    BY DEF WalletKnowsChain
  <2>1. Knows(mapWallet, tip) /\ tip \in Blocks /\ db.tx = IndexOfChain(tip)
    BY <1>1, CallBlocks DEF WalletInv, TracksInv, IInv, ChainInv
  <2>2. OwnOnChain \subseteq DOMAIN mapWallet
    BY <2>1, OwnOnChainIs DEF Knows
  <2>3. ASSUME pc = "idle", ~shaken, NEW t \in OwnOnChain
        PROVE  mapWallet[t].hashBlock = db.tx[t].pos
    <3>1. Point = tip
      BY <2>3 DEF Point, Working
    <3>2. PICK x \in Connected(tip) : t \in OwnIn(x)
      BY OwnOnChainIs
    <3>3. mapWallet[t].hashBlock = x
      BY <1>1, <2>3, <3>1, <3>2 DEF WalletInv, TracksInv, Places
    <3>4. t \in TxsOf[x]
      BY <3>2 DEF OwnIn
    <3> HIDE DEF tip
    <3>5. IndexOfChain(tip)[t].pos = x
      BY <2>1, <3>2, <3>4, IndexPos
    <3> QED BY <2>1, <3>3, <3>5
  <2> QED BY <2>2, <2>3
<1> QED BY <1>1, WalletInvHolds, PTL

\* Between two switches every coin of the wallet that the best chain spends is
\* marked spent: WalletUpdateSpent, DisableTransaction, the rescans and
\* repairwallet leave no coin to be spent twice, unless a switch was undone
\* and not repaired since, or repaired in the middle of another.
THEOREM SpentAlwaysMarked == WalletSpec => []SpentIsMarked
<1>1. ASSUME WalletInv
      PROVE  SpentIsMarked
  <2> DEFINE tip == db.hashBestChain
  <2> SUFFICES ASSUME pc = "idle", ~diverged, ~undone, ~raced,
                      NEW t \in OwnOnChain, NEW n \in MineOf(t) \cap db.tx[t].spent
               PROVE  n \in mapWallet[t].spent
    BY DEF SpentIsMarked, ChainCoinsMarked
  <2>1. Point = tip
    BY DEF Point, Working
  <2>2. Marks(mapWallet, tip)
    BY <1>1, <2>1 DEF WalletInv, TracksInv
  <2>3. tip \in Blocks /\ db.tx = IndexOfChain(tip)
    BY <1>1, CallBlocks DEF WalletInv, IInv, ChainInv
  <2>4. t \in TxsOfChain(tip)
    BY DEF OwnOnChain
  <2>5. <<t, n>> \in SpentBy(TxsOfChain(tip))
    BY <2>3, <2>4, IndexSpent
  <2> QED BY <2>2, <2>4, <2>5 DEF Marks
<1> QED BY <1>1, WalletInvHolds, PTL

\* No coin is lost: what is marked spent is spent by an entry of the wallet
\* that is on the best chain or may still get there, since DisableTransaction
\* frees what a disconnected coinstake had spent.
THEOREM CoinNeverLost == WalletSpec => []CoinNotLost
<1>1. ASSUME WalletInv
      PROVE  CoinNotLost
  <2> SUFFICES ASSUME pc = "idle", ~diverged, ~shaken, ~raced
               PROVE  Backed(mapWallet, db.hashBestChain)
    BY DEF CoinNotLost, Backed
  <2>1. Point = db.hashBestChain
    BY DEF Point, Working
  <2> QED BY <1>1, <2>1 DEF WalletInv, TracksInv
<1> QED BY <1>1, WalletInvHolds, PTL
=============================================================================
