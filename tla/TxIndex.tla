------------------------------ MODULE TxIndex ------------------------------
(***************************************************************************)
(* The transaction index ("tx" records of CTxDB) and what connecting and   *)
(* disconnecting a block does to it.                                       *)
(*                                                                         *)
(* An index maps each transaction it knows to a CTxIndex: the block that   *)
(* holds it (pos) and the outputs that are spent (vSpent entries that are  *)
(* not null).                                                              *)
(*                                                                         *)
(* A block's transactions are a set.  A block whose transactions are out   *)
(* of order, badly signed, overspent, not paying their fees, or whose      *)
(* coinstake takes too much fails ConnectBlock whatever the index holds:   *)
(* such a block is left out of SoundBlocks.                                *)
(***************************************************************************)
EXTENDS BlockTree

CONSTANTS
    Tx,            \* transaction hashes
    Vin,           \* the outpoints <<tx, n>> a transaction spends
    NOut,          \* the number of its outputs
    IsStake,       \* the coinstakes
    TxsOf,         \* the transactions of a block
    SoundBlocks,   \* the blocks with no defect of their own
    Maturity,      \* nCoinbaseMaturity
    Payout,        \* what a block's coinbase pays
    RewardAt       \* GetProofOfWorkReward, of a height

IsCoinBase(t) == Vin[t] = {}

SpentBy(T) == UNION {Vin[t] : t \in T}

\* The outputs of t that transactions of T spend.
SpentOutputs(t, T) == {n \in 0 .. NOut[t] - 1 : <<t, n>> \in SpentBy(T)}

ASSUME TxAssumption ==
    /\ Vin \in [Tx -> SUBSET (Tx \X Nat)]
    /\ NOut \in [Tx -> Nat]
    /\ IsStake \subseteq Tx
    /\ TxsOf \in [Blocks -> SUBSET Tx]
    /\ SoundBlocks \subseteq Blocks
    /\ Maturity \in Nat
    /\ Payout \in [Blocks -> Nat]
    /\ RewardAt \in [{Height[b] : b \in Blocks} -> Nat]

\* No transaction occurs twice on one chain.  A coinbase starts with the
\* height of its block (AcceptBlock refuses any other), and any other
\* transaction spends, directly or through transactions of its own block, an
\* output that its first occurrence has spent.
ASSUME NoRepeatAssumption ==
    \A b \in Blocks : \A a \in Chain[b] \ {b} : TxsOf[a] \cap TxsOf[b] = {}

\* The genesis block is never connected: SetBestChain only points at it.
Connected(b) == Chain[b] \ {Genesis}

-----------------------------------------------------------------------------

IsIndex(idx) ==
    /\ DOMAIN idx \subseteq Tx
    /\ idx \in [DOMAIN idx -> [pos : Blocks, spent : SUBSET Nat]]

\* CheckBlock, for what it reads besides the block: the coinbase may not pay
\* more than the reward at the height of the best block of the moment.
CheckBlock(b, best) == Payout[b] <= RewardAt[Height[best]]

\* BIP30: no transaction of the block overwrites one with an unspent output.
NoOverwrite(idx, b) ==
    \A t \in TxsOf[b] \cap DOMAIN idx : idx[t].spent = 0 .. NOut[t] - 1

\* Spending an output of t, which block pos holds, from block b: coinbases
\* and coinstakes have to lie Maturity blocks deep.
Mature(t, pos, b) ==
    IsCoinBase(t) \/ t \in IsStake =>
        ~(pos \in Chain[b] /\ Height[b] - Height[pos] < Maturity)

\* Mutant: the double-spend check of ConnectInputs is forgotten.
InputOkSpentUnchecked(idx, b, o) ==
    /\ o[2] < NOut[o[1]]
    /\ o[1] \in TxsOf[b] \/ o[1] \in DOMAIN idx

\* FetchInputs and ConnectInputs for one outpoint: the output exists, in the
\* index or in the block itself, is mature and not spent.
InputOk(idx, b, o) ==
    /\ o[2] < NOut[o[1]]
    /\ IF o[1] \in TxsOf[b]
       THEN Mature(o[1], b, b)
       ELSE /\ o[1] \in DOMAIN idx
            /\ Mature(o[1], idx[o[1]].pos, b)
            /\ o[2] \notin idx[o[1]].spent

CanConnect(idx, b, best) ==
    /\ b \in SoundBlocks
    /\ CheckBlock(b, best)
    /\ NoOverwrite(idx, b)
    /\ \A o \in SpentBy(TxsOf[b]) : InputOk(idx, b, o)
    /\ \A t, u \in TxsOf[b] : t # u => Vin[t] \cap Vin[u] = {}

\* ConnectBlock: the block's transactions enter the index (mapQueuedChanges),
\* its inputs are marked spent.
Connect(idx, b) ==
    [t \in DOMAIN idx \cup TxsOf[b] |->
        [pos   |-> IF t \in TxsOf[b] THEN b ELSE idx[t].pos,
         spent |-> (IF t \in TxsOf[b] THEN {} ELSE idx[t].spent)
                   \cup SpentOutputs(t, TxsOf[b])]]

\* DisconnectBlock finds the index entry of every input.
CanDisconnect(idx, b) ==
    \A o \in SpentBy(TxsOf[b]) : o[1] \in DOMAIN idx /\ o[2] < NOut[o[1]]

\* Mutant: DisconnectInputs does not write the cleared vSpent back.
DisconnectKeepsSpent(idx, b) == [t \in DOMAIN idx \ TxsOf[b] |-> idx[t]]

\* DisconnectBlock: inputs are unspent again, transactions leave the index.
Disconnect(idx, b) ==
    [t \in DOMAIN idx \ TxsOf[b] |->
        [idx[t] EXCEPT !.spent = @ \ SpentOutputs(t, TxsOf[b])]]

-----------------------------------------------------------------------------

\* The index a chain defines, said without connecting anything: every
\* transaction of the chain, in the block that has it, with the outputs some
\* transaction of the chain spends.
TxsOfChain(b) == UNION {TxsOf[x] : x \in Connected(b)}

IndexOfChain(b) ==
    [t \in TxsOfChain(b) |->
        [pos   |-> CHOOSE x \in Connected(b) : t \in TxsOf[x],
         spent |-> SpentOutputs(t, TxsOfChain(b))]]

\* The transactions of x fit the chain below x: what they spend was created
\* on that chain or in x, nothing below x has spent it, and they do not spend
\* it twice.
Fits(x) ==
    /\ \A o \in SpentBy(TxsOf[x]) :
          /\ o[1] \in TxsOfChain(x)
          /\ o[2] \in 0 .. NOut[o[1]] - 1
          /\ o \notin SpentBy(TxsOfChain(Parent[x]))
    /\ \A t, u \in TxsOf[x] : t # u => Vin[t] \cap Vin[u] = {}

ValidChain(b) == \A x \in Connected(b) : x \in SoundBlocks /\ Fits(x)
=============================================================================
