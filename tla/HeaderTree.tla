----------------------------- MODULE HeaderTree -----------------------------
(***************************************************************************)
(* The block headers servers may send, as deserialize_header and           *)
(* hash_header of electrum/blockchain.py see them: each passes             *)
(* verify_header on top of its predecessor.  Height 0 stands for the last  *)
(* checkpoint and everything below it.                                     *)
(***************************************************************************)
EXTENDS Integers, Sequences

CONSTANTS
  Header,   \* the headers, and Genesis
  Genesis,  \* the last checkpoint
  NoHeader, \* no header, or the hash of an empty one
  Prev,     \* Prev[h]: the header h was mined on
  Height,   \* Height[h]: its block_height
  Work,     \* Work[h]: get_chainwork up to h
  Branch    \* Branch[h]: the headers above the checkpoint up to h

ASSUME HeaderAssumption ==
  /\ Genesis \in Header /\ NoHeader \notin Header
  /\ Prev \in [Header -> Header] /\ Height \in [Header -> Nat] /\ Work \in [Header -> Nat]
  /\ Branch \in [Header -> Seq(Header)]
  /\ Height[Genesis] = 0 /\ Branch[Genesis] = <<>>
  /\ \A h \in Header \ {Genesis} :
       /\ Height[h] = Height[Prev[h]] + 1 /\ Work[h] > Work[Prev[h]]
       /\ Branch[h] = Append(Branch[Prev[h]], h)

\* The header at height k on the way to h
HeaderAt(h, k) == IF k = 0 THEN Genesis ELSE Branch[h][k]

OnBranch(h, tip) == Height[h] <= Height[tip] /\ HeaderAt(tip, Height[h]) = h
=============================================================================
