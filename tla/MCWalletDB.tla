---------------------------- MODULE MCWalletDB ----------------------------
(***************************************************************************)
(* A handle under cs_wallet, one without it, two keys, another             *)
(* record and a key that the new pool adds.                                *)
(***************************************************************************)
EXTENDS WalletDB
=============================================================================
