---------------------------- MODULE MCWalletFile ----------------------------
(* WalletFile for TLC: the versions and the process lives are bounded. *)
EXTENDS WalletFile
=============================================================================
