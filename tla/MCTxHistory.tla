----------------------------- MODULE MCTxHistory ----------------------------
(***************************************************************************)
(* p and q spend the same coin of somebody else, and c spends what p made: *)
(* the wallet may know c by its output long before it knows p is its own.  *)
(***************************************************************************)
EXTENDS TxHistory

CONSTANTS p, q, c, a1, a2, x, p1, q1, c1

TxIn == [t \in Tx |-> IF t = c THEN {p1} ELSE {x}]
CoinSource == [o \in Outpoint |-> CASE o = p1 -> p [] o = q1 -> q [] o = c1 -> c [] OTHER -> None]
CoinOwner == [o \in Outpoint |-> CASE o = p1 -> a2 [] o \in {q1, c1} -> a1 [] OTHER -> None]
=============================================================================
