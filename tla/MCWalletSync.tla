---------------------------- MODULE MCWalletSync ----------------------------
(***************************************************************************)
(* Two addresses with a transaction each, which spend the same coin: the   *)
(* first branch mines the one at height 1, the second branch the other.    *)
(***************************************************************************)
EXTENDS WalletSync

CONSTANTS t1, t2, a1, a2

OneEach == [a \in Addr |-> IF a = a1 THEN {t1} ELSE {t2}]
MinedApart == [b \in Branch |-> [t \in Tx |-> IF (b = 1) = (t = t1) THEN 1 ELSE 0]]
EachOther == [t \in Tx |-> Tx \ {t}]
NoHeirs == [t \in Tx |-> {}]
=============================================================================
