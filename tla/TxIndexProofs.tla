--------------------------- MODULE TxIndexProofs ---------------------------
(***************************************************************************)
(* Facts about the block tree that every proof about the chain rests on:   *)
(* induction along the tree, and what Chain and NextOnChain are.  Then the *)
(* transaction index: connecting a block takes the index of its parent's   *)
(* chain to the index of its own chain, and disconnecting it takes that    *)
(* back.                                                                   *)
(***************************************************************************)
EXTENDS TxIndex, FiniteSetTheorems, TLAPS

\* A set of naturals that is not empty has a least element.  (Initial segments
\* 0 .. x are finite sets, and strict inclusion is well-founded on those.)
LEMMA LeastNatural ==
    ASSUME NEW T \in SUBSET Nat, T # {}
    PROVE  \E m \in T : \A k \in T : m <= k
<1> DEFINE I == {0 .. x : x \in T}
<1>1. ASSUME NEW x \in T
      PROVE  0 .. x \in FiniteSubsetsOf(Nat)
  <2>1. IsFiniteSet(0 .. x)
    BY FS_Interval
  <2>2. 0 .. x \subseteq Nat
    OBVIOUS
  <2> QED BY <2>1, <2>2, Zenon DEF FiniteSubsetsOf
<1>2. \E x \in I : \A y \in I : ~ (<<y, x>> \in StrictSubsetOrdering(Nat))
  <2>1. I \subseteq FiniteSubsetsOf(Nat) /\ I # {}
    BY <1>1, Zenon
  <2> QED BY <2>1, FS_StrictSubsetOrderingWellFounded, WFMin, Zenon
<1>3. PICK m \in T : \A k \in T : ~ (<<0 .. k, 0 .. m>> \in StrictSubsetOrdering(Nat))
  BY <1>2, Zenon
<1>4. ASSUME NEW k \in T, k < m
      PROVE  FALSE
  <2>1. 0 .. k \subseteq 0 .. m /\ 0 .. k # 0 .. m
    <3>1. k \in Nat /\ m \in Nat
      OBVIOUS
    <3>2. m \in 0 .. m /\ m \notin 0 .. k
      BY <3>1, <1>4
    <3> QED BY <3>1, <3>2, <1>4
  <2>2. 0 .. k \in SUBSET Nat /\ 0 .. m \in SUBSET Nat
    OBVIOUS
  <2>3. <<0 .. k, 0 .. m>> \in StrictSubsetOrdering(Nat)
    BY <2>1, <2>2, Zenon DEF StrictSubsetOrdering
  <2> QED BY <2>3, <1>3, Zenon
<1> QED BY <1>3, <1>4

\* Induction from the genesis block upwards: heights are natural numbers, and
\* a block lies above its parent.
LEMMA TreeInduction ==
    ASSUME NEW S \in SUBSET Blocks,
           Genesis \in S,
           \A b \in Blocks \ {Genesis} : Parent[b] \in S => b \in S
    PROVE  S = Blocks
<1> SUFFICES ASSUME Blocks \ S # {} PROVE FALSE
  OBVIOUS
<1> DEFINE T == {Height[b] : b \in Blocks \ S}
<1>1. T \in SUBSET Nat /\ T # {}
  BY TreeAssumption DEF TreeAssumption
<1>2. PICK b \in Blocks \ S : \A k \in T : Height[b] <= k
  <2>1. \E m \in T : \A k \in T : m <= k
    <3> HIDE DEF T
    <3> QED BY <1>1, LeastNatural
  <2> QED BY <2>1
<1>3. b # Genesis
  OBVIOUS
<1>4. Parent[b] \in Blocks /\ Height[b] = Height[Parent[b]] + 1 /\ Height[Parent[b]] \in Nat
  BY <1>3, TreeAssumption DEF TreeAssumption
<1>5. Parent[b] \in S
  <2> SUFFICES ASSUME Parent[b] \notin S PROVE FALSE
    OBVIOUS
  <2>1. Height[Parent[b]] \in T
    BY <1>4
  <2>2. Height[b] <= Height[Parent[b]]
    BY <1>2, <2>1
  <2> QED BY <1>4, <2>2
<1> QED BY <1>3, <1>5

-----------------------------------------------------------------------------

\* A block is on its own chain, with everything pprev leads to.
LEMMA ChainClosed ==
    ASSUME NEW b \in Blocks
    PROVE  Chain[b] \subseteq Blocks /\ b \in Chain[b] /\ ClosedUnderParent(Chain[b])
<1>1. Chain[b] \subseteq Blocks /\ b \in Chain[b]
  BY DEF Chain
<1>2. ASSUME NEW x \in Chain[b] \ {Genesis}
      PROVE  Parent[x] \in Chain[b]
  <2>1. Parent[x] \in Blocks
    BY <1>1, TreeAssumption DEF TreeAssumption
  <2>2. ASSUME NEW S \in SUBSET Blocks, b \in S, ClosedUnderParent(S)
        PROVE  Parent[x] \in S
    <3>1. x \in S
      BY <2>2 DEF Chain
    <3> QED BY <3>1, <2>2 DEF ClosedUnderParent
  <2> QED BY <2>1, <2>2 DEF Chain
<1> QED BY <1>1, <1>2 DEF ClosedUnderParent

\* And nothing else is.
LEMMA ChainMinimal ==
    ASSUME NEW b \in Blocks, NEW S, b \in S, ClosedUnderParent(S)
    PROVE  Chain[b] \subseteq S
<1> DEFINE U == S \cap Blocks
<1>1. U \in SUBSET Blocks /\ b \in U
  OBVIOUS
<1>2. ClosedUnderParent(U)
  BY TreeAssumption DEF TreeAssumption, ClosedUnderParent
<1>3. Chain[b] \subseteq U
  BY <1>1, <1>2 DEF Chain
<1> QED BY <1>3

LEMMA ChainMonotone ==
    ASSUME NEW b \in Blocks, NEW c \in Chain[b]
    PROVE  c \in Blocks /\ Chain[c] \subseteq Chain[b]
BY ChainClosed, ChainMinimal

LEMMA ChainGenesis == Chain[Genesis] = {Genesis}
<1>1. Genesis \in Blocks
  BY TreeAssumption DEF TreeAssumption
<1>2. ClosedUnderParent({Genesis})
  BY DEF ClosedUnderParent
<1>3. Chain[Genesis] \subseteq {Genesis}
  BY <1>1, <1>2, ChainMinimal
<1>4. Genesis \in Chain[Genesis]
  BY <1>1, ChainClosed
<1> QED BY <1>3, <1>4

LEMMA ChainStep ==
    ASSUME NEW b \in Blocks \ {Genesis}
    PROVE  Parent[b] \in Blocks /\ Chain[b] = {b} \cup Chain[Parent[b]]
<1>1. Parent[b] \in Blocks
  BY TreeAssumption DEF TreeAssumption
<1>2. Parent[b] \in Chain[b]
  BY ChainClosed DEF ClosedUnderParent
<1>3. ClosedUnderParent({b} \cup Chain[Parent[b]])
  BY <1>1, ChainClosed DEF ClosedUnderParent
<1>4. Chain[b] \subseteq {b} \cup Chain[Parent[b]]
  BY <1>3, ChainMinimal
<1> QED BY <1>1, <1>2, <1>4, ChainClosed, ChainMonotone

\* Every chain starts at the genesis block.
LEMMA GenesisOnChain == \A b \in Blocks : Genesis \in Chain[b]
<1> DEFINE S == {b \in Blocks : Genesis \in Chain[b]}
<1>1. Genesis \in S
  BY ChainGenesis, TreeAssumption DEF TreeAssumption
<1>2. ASSUME NEW b \in Blocks \ {Genesis}, Parent[b] \in S
      PROVE  b \in S
  BY <1>2, ChainStep
<1>3. S = Blocks
  <2> HIDE DEF S
  <2>1. S \in SUBSET Blocks
    BY DEF S
  <2> QED BY <1>1, <1>2, <2>1, TreeInduction
<1> QED BY <1>3

\* Below a block, heights and trust are smaller.
LEMMA AncestorsAreLower ==
    \A b \in Blocks : \A a \in Chain[b] \ {b} :
        Height[a] < Height[b] /\ ChainTrust[a] < ChainTrust[b]
<1> DEFINE Lower(b) == \A a \in Chain[b] \ {b} :
                Height[a] < Height[b] /\ ChainTrust[a] < ChainTrust[b]
           S == {b \in Blocks : Lower(b)}
<1>1. Genesis \in S
  BY ChainGenesis, TreeAssumption DEF TreeAssumption
<1>2. ASSUME NEW b \in Blocks \ {Genesis}, Parent[b] \in S
      PROVE  b \in S
  <2>1. Height[b] = Height[Parent[b]] + 1 /\ ChainTrust[b] > ChainTrust[Parent[b]]
    BY TreeAssumption, TrustAssumption DEF TreeAssumption, TrustAssumption
  <2>2. ASSUME NEW a \in Chain[b] \ {b}
        PROVE  Height[a] < Height[b] /\ ChainTrust[a] < ChainTrust[b]
    <3>1. Parent[b] \in Blocks /\ a \in Chain[Parent[b]]
      BY ChainStep
    <3>2. a \in Blocks
      BY <3>1, ChainClosed
    <3>3. {Height[a], Height[b], Height[Parent[b]]} \subseteq Nat
      BY <3>1, <3>2, TreeAssumption DEF TreeAssumption
    <3>4. {ChainTrust[a], ChainTrust[b], ChainTrust[Parent[b]]} \subseteq Nat
      BY <3>1, <3>2, TrustAssumption DEF TrustAssumption
    <3>5. CASE a = Parent[b]
      BY <3>5, <3>3, <3>4, <2>1
    <3>6. CASE a # Parent[b]
      BY <3>6, <3>1, <3>3, <3>4, <2>1, <1>2
    <3> QED BY <3>5, <3>6
  <2> QED BY <2>2
<1>3. S = Blocks
  <2> HIDE DEF S
  <2>1. S \in SUBSET Blocks
    BY DEF S
  <2> QED BY <1>1, <1>2, <2>1, TreeInduction
<1> QED BY <1>3

LEMMA NotOnParentChain ==
    ASSUME NEW b \in Blocks \ {Genesis}
    PROVE  b \notin Chain[Parent[b]]
<1>1. Parent[b] \in Blocks /\ Height[b] = Height[Parent[b]] + 1
  BY TreeAssumption DEF TreeAssumption
<1>2. Height[b] \in Nat /\ Height[Parent[b]] \in Nat
  BY <1>1, TreeAssumption DEF TreeAssumption
<1> SUFFICES ASSUME b \in Chain[Parent[b]] PROVE FALSE
  OBVIOUS
<1>3. b # Parent[b]
  BY <1>1, <1>2
<1>4. Height[b] < Height[Parent[b]]
  BY <1>1, <1>3, AncestorsAreLower
<1> QED BY <1>1, <1>2, <1>4

\* The step from a block towards the end of a chain it is on.
LEMMA NextOnChainIsNext ==
    ASSUME NEW b \in Blocks, NEW c \in Chain[b], c # b
    PROVE  /\ NextOnChain(c, b) \in Chain[b] \ {Genesis}
           /\ NextOnChain(c, b) \in Blocks
           /\ Parent[NextOnChain(c, b)] = c
<1>1. \E x \in Chain[b] \ {Genesis} : Parent[x] = c
  <2> SUFFICES ASSUME \A x \in Chain[b] \ {Genesis} : Parent[x] # c PROVE FALSE
    OBVIOUS
  <2>1. ClosedUnderParent(Chain[b] \ {c})
    BY ChainClosed DEF ClosedUnderParent
  <2>2. Chain[b] \subseteq Chain[b] \ {c}
    BY <2>1, ChainClosed, ChainMinimal
  <2> QED BY <2>2
<1>2. NextOnChain(c, b) \in Chain[b] \ {Genesis} /\ Parent[NextOnChain(c, b)] = c
  BY <1>1, Zenon DEF NextOnChain
<1> QED BY <1>2, ChainClosed

\* Of two blocks of a chain one is on the chain of the other.
LEMMA ChainIsLinear ==
    \A b \in Blocks : \A x, y \in Chain[b] : x \in Chain[y] \/ y \in Chain[x]
<1> DEFINE Linear(b) == \A x, y \in Chain[b] : x \in Chain[y] \/ y \in Chain[x]
           S == {b \in Blocks : Linear(b)}
<1>1. Genesis \in S
  BY ChainGenesis, TreeAssumption DEF TreeAssumption
<1>2. ASSUME NEW b \in Blocks \ {Genesis}, Parent[b] \in S
      PROVE  b \in S
  BY <1>2, ChainStep
<1>3. S = Blocks
  <2> HIDE DEF S
  <2>1. S \in SUBSET Blocks
    BY DEF S
  <2> QED BY <1>1, <1>2, <2>1, TreeInduction
<1> QED BY <1>3

\* A chain has one block above each of its blocks.
LEMMA NextOnChainUnique ==
    ASSUME NEW b \in Blocks, NEW x \in Chain[b] \ {Genesis}
    PROVE  /\ Parent[x] \in Chain[b] \ {b}
           /\ NextOnChain(Parent[x], b) = x
<1>1. x \in Blocks \ {Genesis} /\ Parent[x] \in Chain[b]
  BY ChainClosed DEF ClosedUnderParent
<1>2. Parent[x] # b
  BY <1>1, NotOnParentChain
<1> DEFINE y == NextOnChain(Parent[x], b)
<1>3. y \in Chain[b] \ {Genesis} /\ y \in Blocks /\ Parent[y] = Parent[x]
  BY <1>1, <1>2, NextOnChainIsNext
<1> HIDE DEF y
<1>4. x \in Chain[y] \/ y \in Chain[x]
  BY <1>3, ChainIsLinear
<1>5. x = y
  BY <1>1, <1>3, <1>4, ChainStep, NotOnParentChain
<1> QED BY <1>1, <1>2, <1>5 DEF y

-----------------------------------------------------------------------------

LEMMA ConnectedGenesis == Connected(Genesis) = {} /\ TxsOfChain(Genesis) = {}
BY ChainGenesis DEF Connected, TxsOfChain

LEMMA ConnectedStep ==
    ASSUME NEW b \in Blocks \ {Genesis}
    PROVE  /\ Connected(b) = {b} \cup Connected(Parent[b])
           /\ b \notin Connected(Parent[b])
BY ChainStep, NotOnParentChain DEF Connected

\* The chain of a block on a chain is part of it.
LEMMA ConnectedMonotone ==
    ASSUME NEW b \in Blocks, NEW c \in Connected(b)
    PROVE  /\ c \in Blocks \ {Genesis}
           /\ Connected(c) \subseteq Connected(b)
           /\ TxsOfChain(c) \subseteq TxsOfChain(b)
<1>1. c \in Blocks \ {Genesis} /\ Connected(c) \subseteq Connected(b)
  BY ChainMonotone DEF Connected
<1> QED BY <1>1 DEF TxsOfChain

LEMMA TxsOfChainStep ==
    ASSUME NEW b \in Blocks \ {Genesis}
    PROVE  /\ TxsOfChain(b) = TxsOf[b] \cup TxsOfChain(Parent[b])
           /\ TxsOf[b] \cap TxsOfChain(Parent[b]) = {}
<1>1. TxsOfChain(b) = TxsOf[b] \cup TxsOfChain(Parent[b])
  BY ConnectedStep DEF TxsOfChain
<1>2. \A a \in Connected(Parent[b]) : TxsOf[a] \cap TxsOf[b] = {}
  BY ChainStep, NotOnParentChain, NoRepeatAssumption DEF NoRepeatAssumption, Connected
<1>3. TxsOf[b] \cap TxsOfChain(Parent[b]) = {}
  BY <1>2 DEF TxsOfChain
<1> QED BY <1>1, <1>3

LEMMA TxsOfChainType ==
    ASSUME NEW b \in Blocks
    PROVE  TxsOfChain(b) \subseteq Tx
<1>1. \A x \in Connected(b) : TxsOf[x] \subseteq Tx
  BY ChainClosed, TxAssumption DEF TxAssumption, Connected
<1> QED BY <1>1 DEF TxsOfChain

\* A transaction is in one block of a chain only, and the index names it.
LEMMA IndexPos ==
    ASSUME NEW b \in Blocks, NEW x \in Connected(b), NEW t \in TxsOf[x]
    PROVE  t \in TxsOfChain(b) /\ IndexOfChain(b)[t].pos = x
<1>1. t \in TxsOfChain(b)
  BY DEF TxsOfChain
<1>2. ASSUME NEW y \in Connected(b), t \in TxsOf[y]
      PROVE  y = x
  <2>1. x \in Blocks /\ y \in Blocks /\ (x \in Chain[y] \/ y \in Chain[x])
    BY ChainIsLinear, ChainClosed DEF Connected
  <2> QED BY <1>2, <2>1, NoRepeatAssumption DEF NoRepeatAssumption
<1>3. (CHOOSE y \in Connected(b) : t \in TxsOf[y]) = x
  BY <1>2
<1> QED BY <1>1, <1>3 DEF IndexOfChain

-----------------------------------------------------------------------------

LEMMA SpentByType ==
    ASSUME NEW T \in SUBSET Tx, NEW o \in SpentBy(T)
    PROVE  o[1] \in Tx /\ o[2] \in Nat /\ o = <<o[1], o[2]>>
BY TxAssumption DEF TxAssumption, SpentBy

LEMMA SpentByUnion ==
    ASSUME NEW T, NEW U
    PROVE  /\ SpentBy(T \cup U) = SpentBy(T) \cup SpentBy(U)
           /\ \A t : SpentOutputs(t, T \cup U) = SpentOutputs(t, T) \cup SpentOutputs(t, U)
<1>1. SpentBy(T \cup U) = SpentBy(T) \cup SpentBy(U)
  BY DEF SpentBy
<1> QED BY <1>1 DEF SpentOutputs

LEMMA IndexOfChainType ==
    ASSUME NEW b \in Blocks
    PROVE  /\ IsIndex(IndexOfChain(b))
           /\ DOMAIN IndexOfChain(b) = TxsOfChain(b)
           /\ \A t \in TxsOfChain(b) :
                 IndexOfChain(b)[t].spent = SpentOutputs(t, TxsOfChain(b))
<1> DEFINE idx == IndexOfChain(b)
<1>1. DOMAIN idx = TxsOfChain(b)
  BY DEF IndexOfChain
<1>2. \A t \in TxsOfChain(b) : idx[t].spent = SpentOutputs(t, TxsOfChain(b))
  BY DEF IndexOfChain
<1>3. ASSUME NEW t \in TxsOfChain(b)
      PROVE  idx[t] \in [pos : Blocks, spent : SUBSET Nat]
  <2>1. PICK x \in Connected(b) : t \in TxsOf[x]
    BY DEF TxsOfChain
  <2>2. idx[t].pos \in Blocks
    BY <2>1, IndexPos, ChainClosed DEF Connected
  <2>3. idx[t].spent \in SUBSET Nat
    <3>1. SpentOutputs(t, TxsOfChain(b)) \in SUBSET Nat
      BY DEF SpentOutputs
    <3> QED BY <1>2, <3>1
  <2>4. idx[t] = [pos |-> idx[t].pos, spent |-> idx[t].spent]
    BY DEF IndexOfChain
  <2> QED BY <2>2, <2>3, <2>4
<1>4. idx \in [TxsOfChain(b) -> [pos : Blocks, spent : SUBSET Nat]]
  BY <1>1, <1>3 DEF IndexOfChain
<1> QED BY <1>1, <1>2, <1>4, TxsOfChainType DEF IsIndex

LEMMA ConnectType ==
    ASSUME NEW idx, IsIndex(idx), NEW b \in Blocks
    PROVE  IsIndex(Connect(idx, b))
<1> DEFINE T == DOMAIN idx \cup TxsOf[b]
<1>1. T \subseteq Tx
  BY TxAssumption DEF TxAssumption, IsIndex
<1>2. DOMAIN Connect(idx, b) = T
  BY DEF Connect
<1>3. Connect(idx, b) \in [T -> [pos : Blocks, spent : SUBSET Nat]]
  <2> SUFFICES ASSUME NEW t \in T
               PROVE  Connect(idx, b)[t] \in [pos : Blocks, spent : SUBSET Nat]
    BY <1>2 DEF Connect
  <2>1. SpentOutputs(t, TxsOf[b]) \subseteq Nat
    BY DEF SpentOutputs
  <2>2. t \in DOMAIN idx => idx[t].pos \in Blocks /\ idx[t].spent \subseteq Nat
    BY DEF IsIndex
  <2> QED BY <2>1, <2>2 DEF Connect
<1> QED BY <1>1, <1>2, <1>3 DEF IsIndex

LEMMA DisconnectType ==
    ASSUME NEW idx, IsIndex(idx), NEW b \in Blocks
    PROVE  IsIndex(Disconnect(idx, b))
<1> DEFINE T == DOMAIN idx \ TxsOf[b]
<1>1. DOMAIN Disconnect(idx, b) = T /\ T \subseteq Tx
  BY DEF Disconnect, IsIndex
<1>2. Disconnect(idx, b) \in [T -> [pos : Blocks, spent : SUBSET Nat]]
  <2> SUFFICES ASSUME NEW t \in T
               PROVE  Disconnect(idx, b)[t] \in [pos : Blocks, spent : SUBSET Nat]
    BY <1>1 DEF Disconnect
  <2>1. idx[t] \in [pos : Blocks, spent : SUBSET Nat]
    BY DEF IsIndex
  <2> QED BY <2>1 DEF Disconnect
<1> QED BY <1>1, <1>2 DEF IsIndex

-----------------------------------------------------------------------------

LEMMA ValidChainGenesis == ValidChain(Genesis)
BY ConnectedGenesis DEF ValidChain

LEMMA ValidChainStep ==
    ASSUME NEW b \in Blocks \ {Genesis}
    PROVE  ValidChain(b) <=> ValidChain(Parent[b]) /\ b \in SoundBlocks /\ Fits(b)
BY ConnectedStep DEF ValidChain

\* Blocks on a valid chain only spend what was created on that chain.
LEMMA ValidChainSpends ==
    ASSUME NEW b \in Blocks, ValidChain(b), NEW o \in SpentBy(TxsOfChain(b))
    PROVE  o[1] \in TxsOfChain(b)
<1>1. PICK x \in Connected(b) : o \in SpentBy(TxsOf[x])
  BY DEF SpentBy, TxsOfChain
<1>2. o[1] \in TxsOfChain(x)
  BY <1>1 DEF ValidChain, Fits
<1> QED BY <1>1, <1>2, ConnectedMonotone

\* No output is spent twice on a valid chain.
LEMMA ValidChainSpendsOnce ==
    \A b \in Blocks : ValidChain(b) =>
        \A t, u \in TxsOfChain(b) : t # u => Vin[t] \cap Vin[u] = {}
<1> DEFINE Once(b) == ValidChain(b) =>
                        \A t, u \in TxsOfChain(b) : t # u => Vin[t] \cap Vin[u] = {}
           S == {b \in Blocks : Once(b)}
<1>1. Genesis \in S
  BY ConnectedGenesis, TreeAssumption DEF TreeAssumption
<1>2. ASSUME NEW b \in Blocks \ {Genesis}, Parent[b] \in S
      PROVE  b \in S
  <2> DEFINE p == Parent[b]
  <2> SUFFICES ASSUME ValidChain(b), NEW t \in TxsOfChain(b), NEW u \in TxsOfChain(b), t # u
               PROVE  Vin[t] \cap Vin[u] = {}
    OBVIOUS
  <2>1. ValidChain(p) /\ Fits(b)
    BY ValidChainStep
  <2>2. TxsOfChain(b) = TxsOf[b] \cup TxsOfChain(p)
    BY TxsOfChainStep
  <2>3. \A x \in TxsOf[b], y \in TxsOfChain(p) : Vin[x] \cap Vin[y] = {}
    BY <2>1 DEF Fits, SpentBy
  <2>4. \A x, y \in TxsOf[b] : x # y => Vin[x] \cap Vin[y] = {}
    BY <2>1 DEF Fits
  <2>5. \A x, y \in TxsOfChain(p) : x # y => Vin[x] \cap Vin[y] = {}
    BY <1>2, <2>1
  <2> QED BY <2>2, <2>3, <2>4, <2>5
<1>3. S = Blocks
  <2> HIDE DEF S
  <2>1. S \in SUBSET Blocks
    BY DEF S
  <2> QED BY <1>1, <1>2, <2>1, TreeInduction
<1> QED BY <1>3

\* The new transactions of a block have no output spent below it.
LEMMA NewOutputsUnspent ==
    ASSUME NEW b \in Blocks \ {Genesis}, ValidChain(Parent[b]), NEW t \in TxsOf[b]
    PROVE  SpentOutputs(t, TxsOfChain(Parent[b])) = {}
<1>1. Parent[b] \in Blocks
  BY ChainStep
<1>2. ASSUME NEW n, <<t, n>> \in SpentBy(TxsOfChain(Parent[b]))
      PROVE  FALSE
  <2>1. t \in TxsOfChain(Parent[b])
    BY <1>1, <1>2, ValidChainSpends
  <2> QED BY <2>1, TxsOfChainStep
<1> QED BY <1>2 DEF SpentOutputs

\* Connecting b to the index of the chain below it makes the index of its own.
LEMMA ConnectExtends ==
    ASSUME NEW b \in Blocks \ {Genesis}, ValidChain(Parent[b])
    PROVE  Connect(IndexOfChain(Parent[b]), b) = IndexOfChain(b)
<1> DEFINE p == Parent[b]
           idx == IndexOfChain(p)
<1>1. p \in Blocks /\ DOMAIN idx = TxsOfChain(p)
  BY ChainStep, IndexOfChainType
<1>2. DOMAIN idx \cup TxsOf[b] = TxsOfChain(b)
  BY <1>1, TxsOfChainStep
<1>3. ASSUME NEW t \in TxsOfChain(b)
      PROVE  /\ Connect(idx, b)[t].pos = IndexOfChain(b)[t].pos
             /\ Connect(idx, b)[t].spent = IndexOfChain(b)[t].spent
  <2>1. IndexOfChain(b)[t].spent = SpentOutputs(t, TxsOfChain(p)) \cup SpentOutputs(t, TxsOf[b])
    BY IndexOfChainType, TxsOfChainStep, SpentByUnion
  <2>2. CASE t \in TxsOf[b]
    <3>1. Connect(idx, b)[t].pos = b /\ Connect(idx, b)[t].spent = SpentOutputs(t, TxsOf[b])
      BY <1>2, <2>2 DEF Connect
    <3>2. IndexOfChain(b)[t].pos = b
      BY <2>2, ConnectedStep, IndexPos
    <3>3. SpentOutputs(t, TxsOfChain(p)) = {}
      BY <2>2, NewOutputsUnspent
    <3> QED BY <2>1, <3>1, <3>2, <3>3
  <2>3. CASE t \notin TxsOf[b]
    <3>1. /\ Connect(idx, b)[t].pos = idx[t].pos
          /\ Connect(idx, b)[t].spent = idx[t].spent \cup SpentOutputs(t, TxsOf[b])
      BY <1>2, <2>3 DEF Connect
    <3>2. PICK x \in Connected(p) : t \in TxsOf[x]
      BY <1>1, <1>2, <2>3 DEF TxsOfChain
    <3>3. idx[t].pos = x /\ IndexOfChain(b)[t].pos = x
      BY <1>1, <3>2, ConnectedStep, IndexPos
    <3>4. idx[t].spent = SpentOutputs(t, TxsOfChain(p))
      BY <1>1, <1>2, <2>3, IndexOfChainType
    <3> QED BY <2>1, <3>1, <3>3, <3>4
  <2> QED BY <2>2, <2>3
<1> QED BY <1>2, <1>3 DEF Connect, IndexOfChain

\* What ConnectBlock lets through makes a valid chain.
LEMMA ConnectValid ==
    ASSUME NEW b \in Blocks \ {Genesis}, ValidChain(Parent[b]), NEW best,
           CanConnect(IndexOfChain(Parent[b]), b, best)
    PROVE  ValidChain(b)
<1> DEFINE p == Parent[b]
           idx == IndexOfChain(p)
<1>1. p \in Blocks /\ DOMAIN idx = TxsOfChain(p)
  BY ChainStep, IndexOfChainType
<1>2. TxsOf[b] \in SUBSET Tx
  BY TxAssumption DEF TxAssumption
<1>3. ASSUME NEW o \in SpentBy(TxsOf[b])
      PROVE  /\ o[1] \in TxsOfChain(b)
             /\ o[2] \in 0 .. NOut[o[1]] - 1
             /\ o \notin SpentBy(TxsOfChain(p))
  <2>1. o[1] \in Tx /\ o[2] \in Nat /\ o = <<o[1], o[2]>>
    BY <1>2, SpentByType
  <2>2. InputOk(idx, b, o)
    BY DEF CanConnect
  <2>3. o[2] \in 0 .. NOut[o[1]] - 1
    <3>1. NOut[o[1]] \in Nat /\ o[2] < NOut[o[1]]
      BY <2>1, <2>2, TxAssumption DEF TxAssumption, InputOk
    <3> QED BY <2>1, <3>1
  <2>4. CASE o[1] \in TxsOf[b]
    <3>1. o \notin SpentBy(TxsOfChain(p))
      BY <1>1, <2>4, ValidChainSpends, TxsOfChainStep
    <3> QED BY <2>3, <2>4, <3>1, TxsOfChainStep
  <2>5. CASE o[1] \notin TxsOf[b]
    <3>1. o[1] \in TxsOfChain(p) /\ o[2] \notin SpentOutputs(o[1], TxsOfChain(p))
      BY <1>1, <2>2, <2>5, IndexOfChainType DEF InputOk
    <3>2. o \notin SpentBy(TxsOfChain(p))
      BY <2>1, <2>3, <3>1 DEF SpentOutputs
    <3> QED BY <2>3, <3>1, <3>2, TxsOfChainStep
  <2> QED BY <2>4, <2>5
<1> QED BY <1>3, ValidChainStep DEF CanConnect, Fits

\* Disconnecting b is the inverse of connecting it.
LEMMA DisconnectInverts ==
    ASSUME NEW b \in Blocks \ {Genesis}, ValidChain(b)
    PROVE  Disconnect(IndexOfChain(b), b) = IndexOfChain(Parent[b])
<1> DEFINE p == Parent[b]
           idx == IndexOfChain(b)
<1>1. p \in Blocks /\ DOMAIN idx = TxsOfChain(b) /\ Fits(b)
  BY ChainStep, IndexOfChainType, ValidChainStep
<1>2. DOMAIN idx \ TxsOf[b] = TxsOfChain(p)
  BY <1>1, TxsOfChainStep
<1>3. ASSUME NEW t \in TxsOfChain(p)
      PROVE  /\ idx[t].pos = IndexOfChain(p)[t].pos
             /\ idx[t].spent \ SpentOutputs(t, TxsOf[b]) = IndexOfChain(p)[t].spent
  <2>1. idx[t].pos = IndexOfChain(p)[t].pos
    <3>1. PICK x \in Connected(p) : t \in TxsOf[x]
      BY DEF TxsOfChain
    <3> QED BY <1>1, <3>1, ConnectedStep, IndexPos
  <2>2. idx[t].spent = SpentOutputs(t, TxsOfChain(p)) \cup SpentOutputs(t, TxsOf[b])
    BY <1>2, IndexOfChainType, TxsOfChainStep, SpentByUnion
  <2>3. SpentOutputs(t, TxsOfChain(p)) \cap SpentOutputs(t, TxsOf[b]) = {}
    BY <1>1 DEF Fits, SpentOutputs
  <2>4. IndexOfChain(p)[t].spent = SpentOutputs(t, TxsOfChain(p))
    BY <1>1, IndexOfChainType
  <2> QED BY <2>1, <2>2, <2>3, <2>4
<1>4. \A t \in TxsOfChain(p) :
         [idx[t] EXCEPT !.spent = @ \ SpentOutputs(t, TxsOf[b])] = IndexOfChain(p)[t]
  <2> SUFFICES ASSUME NEW t \in TxsOfChain(p)
               PROVE  [idx[t] EXCEPT !.spent = @ \ SpentOutputs(t, TxsOf[b])] = IndexOfChain(p)[t]
    OBVIOUS
  <2>1. idx[t] = [pos |-> idx[t].pos, spent |-> idx[t].spent]
    BY <1>2 DEF IndexOfChain
  <2>2. IndexOfChain(p)[t] = [pos |-> IndexOfChain(p)[t].pos, spent |-> IndexOfChain(p)[t].spent]
    BY DEF IndexOfChain
  <2> HIDE DEF idx
  <2> QED BY <1>3, <2>1, <2>2
<1>5. Disconnect(idx, b) = [t \in TxsOfChain(p) |-> IndexOfChain(p)[t]]
  BY <1>2, <1>4 DEF Disconnect
<1> QED BY <1>1, <1>5 DEF IndexOfChain
=============================================================================
