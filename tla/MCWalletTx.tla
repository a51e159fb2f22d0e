---------------------------- MODULE MCWalletTx ----------------------------
(***************************************************************************)
(* Trust in brackets:                                                      *)
(*                                                                         *)
(*   g - a1 [1] - a2 [2] - a3 [3]                                          *)
(*                   |\                                                    *)
(*                   | b3 [4] - b4 [6], refused                            *)
(*                    \                                                    *)
(*                     c3 [5]                                              *)
(*                                                                         *)
(* a1 pays the wallet two coins (k).  The first is staked by s in a3 and   *)
(* by z in c3, the second spent by the payment p, which all branches       *)
(* have.  The change of p is spent by q, made here, and by r, made by a    *)
(* copy of the wallet, in c3.                                              *)
(***************************************************************************)
EXTENDS WalletTx

MCBlocks == {"g", "a1", "a2", "a3", "b3", "b4", "c3"}
MCParent ==
    [b \in MCBlocks \ {"g"} |->
        CASE b = "a1" -> "g"
          [] b = "a2" -> "a1"
          [] b \in {"a3", "b3", "c3"} -> "a2"
          [] b = "b4" -> "b3"]
MCHeight ==
    [b \in MCBlocks |->
        CASE b = "g" -> 0
          [] b = "a1" -> 1
          [] b = "a2" -> 2
          [] b \in {"a3", "b3", "c3"} -> 3
          [] b = "b4" -> 4]
MCChainTrust ==
    [b \in MCBlocks |->
        CASE b = "g" -> 0
          [] b = "a1" -> 1
          [] b = "a2" -> 2
          [] b = "a3" -> 3
          [] b = "b3" -> 4
          [] b = "c3" -> 5
          [] b = "b4" -> 6]

MCTx == {"k", "s", "z", "p", "q", "r"}
MCVin ==
    [t \in MCTx |->
        CASE t = "k" -> {}
          [] t \in {"s", "z"} -> {<<"k", 0>>}
          [] t = "p" -> {<<"k", 1>>}
          [] t \in {"q", "r"} -> {<<"p", 0>>}]
MCNOut == [t \in MCTx |-> IF t \in {"k", "s", "z"} THEN 2 ELSE 1]
MCTxsOf ==
    [b \in MCBlocks |->
        CASE b = "a1" -> {"k"}
          [] b = "a3" -> {"s", "p"}
          [] b = "b3" -> {"p"}
          [] b = "c3" -> {"z", "p", "r"}
          [] OTHER -> {}]
MCMine == {<<"k", 0>>, <<"k", 1>>, <<"s", 1>>, <<"z", 1>>, <<"p", 0>>}

B4Unsound == MCBlocks \ {"b4"}
FlatPayout == [b \in MCBlocks |-> 1]
FlatReward == [h \in 0 .. 4 |-> 1]
=============================================================================
