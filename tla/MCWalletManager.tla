--------------------------- MODULE MCWalletManager ---------------------------
(***************************************************************************)
(* Instances of WalletManager for TLC: one or two mnemonics, one or two    *)
(* coins and passwords, two accounts per coin.                             *)
(***************************************************************************)
EXTENDS WalletManager

CONSTANTS s1, s2, btc, eth, p1, p2

NoImports == {}
\* The address of the HD wallet itself, imported as a key or to watch
ImportAccount0 == {[seed |-> s1, coin |-> btc, acct |-> 0]}
\* The address of one of its derived wallets
ImportAccount1 == {[seed |-> s1, coin |-> btc, acct |-> 1]}
=============================================================================
