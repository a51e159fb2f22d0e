----------------------------- MODULE BestChain -----------------------------
(***************************************************************************)
(* What the block chain database promises: it knows a growing set of       *)
(* blocks and stands at one of them; its transaction index is the index of *)
(* that block's chain; it moves in one step to a heavier valid chain or    *)
(* back along its own.  Once torn it promises nothing.                     *)
(***************************************************************************)
EXTENDS TxIndex

VARIABLES known, tip, index, torn

Init ==
    /\ known = {Genesis}
    /\ tip = Genesis
    /\ index = IndexOfChain(Genesis)
    /\ torn = FALSE

Learn(b) ==
    /\ b \notin known /\ b # Genesis /\ Parent[b] \in known
    /\ known' = known \cup {b}
    /\ UNCHANGED <<tip, index, torn>>

MoveTo(b) ==
    /\ tip' = b
    /\ index' = IndexOfChain(b)
    /\ UNCHANGED <<known, torn>>

SwitchTo(b) ==
    /\ ChainTrust[b] > ChainTrust[tip]
    /\ ValidChain(b)
    /\ MoveTo(b)

RollBackTo(b) ==
    /\ b \in Chain[tip]
    /\ MoveTo(b)

Next ==
    \/ torn'
    \/ \E b \in Blocks : Learn(b)
    \/ \E b \in known : SwitchTo(b) \/ RollBackTo(b)

Spec == Init /\ [][Next]_<<known, tip, index, torn>>
=============================================================================
