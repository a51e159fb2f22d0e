----------------------------- MODULE MCMemPool -----------------------------
(***************************************************************************)
(* A tree of six blocks for MemPool, with the transactions of each block:  *)
(*                                                                         *)
(*   g - h {k} - a {p, r} - a2 {}                                          *)
(*              \                                                          *)
(*               b {r} - b2 {q}                                            *)
(*                                                                         *)
(* p and q spend the same output of the coinbase k, r another; c spends p, *)
(* d spends c and a third output of k, and e spends p and d.               *)
(***************************************************************************)
EXTENDS MemPool

MCBlocks == {"g", "h", "a", "a2", "b", "b2"}
MCParent ==
    [b \in MCBlocks \ {"g"} |->
        CASE b = "h" -> "g"
          [] b \in {"a", "b"} -> "h"
          [] b = "a2" -> "a"
          [] b = "b2" -> "b"]
MCHeight ==
    [b \in MCBlocks |->
        CASE b = "g" -> 0
          [] b = "h" -> 1
          [] b \in {"a", "b"} -> 2
          [] b \in {"a2", "b2"} -> 3]

MCTx == {"k", "p", "q", "r", "c", "d", "e"}
MCVin ==
    [t \in MCTx |->
        CASE t = "k" -> {}
          [] t \in {"p", "q"} -> {<<"k", 0>>}
          [] t = "r" -> {<<"k", 1>>}
          [] t = "c" -> {<<"p", 0>>}
          [] t = "d" -> {<<"c", 0>>, <<"k", 2>>}
          [] t = "e" -> {<<"p", 1>>, <<"d", 0>>}]
MCNOut == [t \in MCTx |-> CASE t = "k" -> 3 [] t = "p" -> 2 [] OTHER -> 1]
MCTxsOf ==
    [b \in MCBlocks |->
        CASE b = "h" -> {"k"}
          [] b = "a" -> {"p", "r"}
          [] b = "b" -> {"r"}
          [] b = "b2" -> {"q"}
          [] OTHER -> {}]

FlatPayout == [b \in MCBlocks |-> 1]
FlatReward == [h \in 0 .. 3 |-> 1]
=============================================================================
