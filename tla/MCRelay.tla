------------------------------ MODULE MCRelay ------------------------------
(***************************************************************************)
(* Three nodes, each connected to the others at first; two transactions,   *)
(* made by different nodes, of which the second spends the first.          *)
(***************************************************************************)
EXTENDS Relay, TLC

MCNodes == {"a", "b", "c"}
MCNeeds == ("t" :> {}) @@ ("u" :> {"t"})
MCMaker == ("t" :> "a") @@ ("u" :> "b")
MCNotTrickled == [n \in MCNodes |-> IF n = "c" THEN {"t", "u"} ELSE {}]
MCLinks == {{"a", "b"}, {"b", "c"}, {"a", "c"}}
=============================================================================
