--------------------------- MODULE MCConnections ---------------------------
(***************************************************************************)
(* Three opening threads, two slots and one CNode, outbound or inbound.    *)
(* Two threads get past the test for the address before it is connected:   *)
(* the second finds the node of the first, or an inbound one, and both     *)
(* move a grant to it while the socket handler disconnects and deletes it. *)
(* The third thread waits for a slot.                                      *)
(***************************************************************************)
EXTENDS Connections
=============================================================================
