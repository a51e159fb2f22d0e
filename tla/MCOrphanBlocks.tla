--------------------------- MODULE MCOrphanBlocks ---------------------------
(***************************************************************************)
(* A tree of seven blocks for OrphanBlocks.  x1, x2 and x3 spend the same  *)
(* stake; c waits two levels up, and is where a checkpoint may be.         *)
(*                                                                         *)
(*   g - a - x1                                                            *)
(*    \                                                                    *)
(*     m - x2 - c                                                          *)
(*      \                                                                  *)
(*       x3                                                                *)
(***************************************************************************)
EXTENDS OrphanBlocks

MCBlocks == {"g", "a", "x1", "m", "x2", "x3", "c"}
MCParent ==
    [b \in MCBlocks \ {"g"} |->
        CASE b \in {"a", "m"} -> "g"
          [] b = "x1" -> "a"
          [] b \in {"x2", "x3"} -> "m"
          [] b = "c" -> "x2"]
MCHeight ==
    [b \in MCBlocks |->
        CASE b = "g" -> 0
          [] b \in {"a", "m"} -> 1
          [] b \in {"x1", "x2", "x3"} -> 2
          [] b = "c" -> 3]
MCStake == [b \in MCBlocks |-> IF b \in {"x1", "x2", "x3"} THEN "s" ELSE Null]
=============================================================================
