--------------------------- MODULE MCBlockChain ---------------------------
(***************************************************************************)
(* A tree of nine blocks for BlockChain.  Trust in brackets:               *)
(*                                                                         *)
(*   g - a1 [1] - a2 [2] - a3 [5]                                          *)
(*    \                                                                    *)
(*     b1 [1] - b2 [3] - b3 [4] - b4 [6]                                   *)
(*         \                                                               *)
(*          c2 [7]                                                         *)
(*                                                                         *)
(* so that arrival in the right order moves the best chain from a to b and *)
(* back.  Coinbases ka and kb mature after two blocks: a3 spends ka (t),   *)
(* b3 spends kb (s, which u of the same block spends on).  b4 spends kb a  *)
(* second time (w) and c2 spends it too early (v): both are to be refused. *)
(***************************************************************************)
EXTENDS BlockChain

MCBlocks == {"g", "a1", "a2", "a3", "b1", "b2", "b3", "b4", "c2"}
MCParent ==
    [b \in MCBlocks \ {"g"} |->
        CASE b \in {"a1", "b1"} -> "g"
          [] b = "a2" -> "a1"
          [] b = "a3" -> "a2"
          [] b \in {"b2", "c2"} -> "b1"
          [] b = "b3" -> "b2"
          [] b = "b4" -> "b3"]
MCHeight ==
    [b \in MCBlocks |->
        CASE b = "g" -> 0
          [] b \in {"a1", "b1"} -> 1
          [] b \in {"a2", "b2", "c2"} -> 2
          [] b \in {"a3", "b3"} -> 3
          [] b = "b4" -> 4]
MCChainTrust ==
    [b \in MCBlocks |->
        CASE b = "g" -> 0
          [] b \in {"a1", "b1"} -> 1
          [] b = "a2" -> 2
          [] b = "b2" -> 3
          [] b = "b3" -> 4
          [] b = "a3" -> 5
          [] b = "b4" -> 6
          [] b = "c2" -> 7]

MCTx == {"ka", "kb", "t", "s", "u", "v", "w"}
MCVin ==
    [x \in MCTx |->
        CASE x \in {"ka", "kb"} -> {}
          [] x = "t" -> {<<"ka", 0>>}
          [] x \in {"s", "v", "w"} -> {<<"kb", 0>>}
          [] x = "u" -> {<<"s", 0>>, <<"kb", 1>>}]
MCNOut == [x \in MCTx |-> IF x = "kb" THEN 2 ELSE 1]
MCTxsOf ==
    [b \in MCBlocks |->
        CASE b = "a1" -> {"ka"}
          [] b = "a3" -> {"t"}
          [] b = "b1" -> {"kb"}
          [] b = "b3" -> {"s", "u"}
          [] b = "b4" -> {"w"}
          [] b = "c2" -> {"v"}
          [] OTHER -> {}]

AllSound == MCBlocks

\* The reward halves at height 3; a2 pays what was due before.
HalvingPayout == [b \in MCBlocks |-> IF b = "a2" THEN 2 ELSE 1]
HalvingReward == [h \in 0 .. 4 |-> IF h < 3 THEN 2 ELSE 1]
=============================================================================
