----------------------------- MODULE BlockTree -----------------------------
(***************************************************************************)
(* The blocks a node may ever see, as a tree, and what a block says about  *)
(* itself: its parent (hashPrevBlock), its height, the trust of the chain  *)
(* that ends in it.  In the code these are fields of CBlockIndex which are *)
(* computed once, when AddToBlockIndex makes the entry, and never change   *)
(* afterwards: they are constants here.                                    *)
(***************************************************************************)
EXTENDS Integers, FiniteSets

CONSTANTS
    Blocks,      \* the block hashes that occur
    Genesis,     \* hashGenesisBlock
    Parent,      \* hashPrevBlock of every other block
    Height,      \* CBlockIndex::nHeight
    ChainTrust,  \* CBlockIndex::bnChainTrust
    Null         \* a null pointer, a zero hash

ASSUME TreeAssumption ==
    /\ Genesis \in Blocks
    /\ Null \notin Blocks
    /\ Parent \in [Blocks \ {Genesis} -> Blocks]
    /\ Height \in [Blocks -> Nat]
    /\ Height[Genesis] = 0
    /\ \A b \in Blocks \ {Genesis} : Height[b] = Height[Parent[b]] + 1

\* A block's trust is positive: GetBlockTrust is at least 1 for any target
\* that passed CheckProofOfWork or GetNextTargetRequired.
ASSUME TrustAssumption ==
    /\ ChainTrust \in [Blocks -> Nat]
    /\ \A b \in Blocks \ {Genesis} : ChainTrust[b] > ChainTrust[Parent[b]]

-----------------------------------------------------------------------------

\* S holds every block that walking pprev from a block of S reaches.
ClosedUnderParent(S) == \A x \in S \ {Genesis} : Parent[x] \in S

\* The chain that ends in b: b and all its ancestors, the genesis block
\* included.  (The smallest closed set with b in it; stated without recursion
\* so that facts about it can be proved.)
Chain ==
    [b \in Blocks |->
        {a \in Blocks : \A S \in SUBSET Blocks :
                            b \in S /\ ClosedUnderParent(S) => a \in S}]

\* The block above c on the chain that ends in b, for c on that chain.
NextOnChain(c, b) == CHOOSE x \in Chain[b] \ {Genesis} : Parent[x] = c
=============================================================================
