-------------------------- MODULE MCSyncCheckpoint --------------------------
(***************************************************************************)
(* A tree of seven blocks for SyncCheckpoint.  Trust in brackets; c4 is    *)
(* refused by ConnectBlock, a2 is a hardened checkpoint:                   *)
(*                                                                         *)
(*   g - a1 [1] - a2 [2] - a3 [5]                                          *)
(*    \             \                                                      *)
(*     b1 [3]        c3 [4] - c4 [6]                                       *)
(***************************************************************************)
EXTENDS SyncCheckpoint

MCBlocks == {"g", "a1", "a2", "a3", "b1", "c3", "c4"}
MCParent ==
    [b \in MCBlocks \ {"g"} |->
        CASE b \in {"a1", "b1"} -> "g"
          [] b = "a2" -> "a1"
          [] b \in {"a3", "c3"} -> "a2"
          [] b = "c4" -> "c3"]
MCHeight ==
    [b \in MCBlocks |->
        CASE b = "g" -> 0
          [] b \in {"a1", "b1"} -> 1
          [] b = "a2" -> 2
          [] b \in {"a3", "c3"} -> 3
          [] b = "c4" -> 4]
MCChainTrust ==
    [b \in MCBlocks |->
        CASE b = "g" -> 0
          [] b = "a1" -> 1
          [] b = "a2" -> 2
          [] b = "b1" -> 3
          [] b = "c3" -> 4
          [] b = "a3" -> 5
          [] b = "c4" -> 6]

Empty == [t \in {} |-> 0]
NoTxs == [b \in MCBlocks |-> {}]
MCSoundBlocks == MCBlocks \ {"c4"}
FlatPayout == [b \in MCBlocks |-> 1]
FlatReward == [h \in 0 .. 4 |-> 1]
=============================================================================
