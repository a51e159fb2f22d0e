---------------------------- MODULE MCAddrMan ----------------------------
(***************************************************************************)
(* Four addresses from two sources.  New buckets hold one entry and the    *)
(* tried bucket two, so that all of them overflow.                         *)
(***************************************************************************)
EXTENDS AddrMan

MCAddrs == {"a", "b", "c", "d"}
MCNewBucket ==
    [x \in MCAddrs |->
        [s \in {"s", "t"} |->
            CASE s = "s" -> 1
              [] x = "a" -> 1
              [] OTHER -> 2]]
MCTriedBucket == [x \in MCAddrs |-> 1]
=============================================================================
