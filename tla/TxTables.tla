------------------------------ MODULE TxTables ------------------------------
(***************************************************************************)
(* What the wallet and its verifier note of one transaction, and the       *)
(* steps of electrum/address_synchronizer.py that change the notes:        *)
(* add_unverified_tx, remove_unverified_tx, add_verified_tx, the reset to  *)
(* local of receive_history_callback, remove_transaction and               *)
(* undo_verifications.                                                     *)
(***************************************************************************)
EXTENDS Integers

CONSTANTS
  Tx,         \* the transactions of the wallet's addresses
  Branch,     \* the branches of the block chain, numbered from the first
  ForkHeight, \* the last height all branches have in common
  MaxHeight,  \* the highest block
  None        \* no entry in a table

ASSUME TablesAssumption ==
  /\ 1 \in Branch /\ Branch \subseteq Nat \ {0}
  /\ MaxHeight \in Nat /\ ForkHeight \in 0 .. MaxHeight
  /\ None \notin Int /\ None \notin Int \X Int

Height == 0 .. MaxHeight     \* 0 is TX_HEIGHT_UNCONFIRMED
LocalHeight == -2            \* TX_HEIGHT_LOCAL

\* The header of branch b at height h
HeaderAt(b, h) == <<h, IF h <= ForkHeight THEN 0 ELSE b>>
Header == Height \X (Branch \cup {0})

\* db.transactions, unverified_tx, db.verified_tx, merkle_roots and
\* requested_merkle, for one transaction
Entry ==
  [have: BOOLEAN, unverified: Height \cup {None}, verified: Header \cup {None},
   root: BOOLEAN, asked: BOOLEAN]

Unknown == [have |-> FALSE, unverified |-> None, verified |-> None, root |-> FALSE, asked |-> FALSE]

\* get_tx_height
TxHeight(e) ==
  IF e.verified # None THEN e.verified[1]
  ELSE IF e.unverified # None THEN e.unverified ELSE LocalHeight

\* remove_spv_proof_for_tx
Unproved(e) == [e EXCEPT !.root = FALSE, !.asked = FALSE]

\* add_unverified_tx
AddUnverified(e, h) ==
  IF e.verified = None THEN [e EXCEPT !.unverified = h]
  ELSE IF h = 0 THEN [Unproved(e) EXCEPT !.verified = None]
  ELSE e

\* remove_unverified_tx: only if it still has this height
RemoveUnverified(e, h) == IF e.unverified = h THEN [e EXCEPT !.unverified = None] ELSE e

\* Mutant: the header hash is left out.
AddVerifiedBare(e, header) ==
  [e EXCEPT !.unverified = None, !.verified = <<header[1], None>>, !.root = TRUE, !.asked = FALSE]

\* The answer of the server was verified: add_verified_tx and the notes of
\* the verifier.
AddVerified(e, header) ==
  [e EXCEPT !.unverified = None, !.verified = header, !.root = TRUE, !.asked = FALSE]

\* Mutant: the verifier is not told.
MadeLocalAlone(e) == [e EXCEPT !.unverified = None, !.verified = None]

\* receive_history_callback, for a transaction that left the history
MadeLocal(e) == [Unproved(e) EXCEPT !.unverified = None, !.verified = None]

\* remove_transaction: the verifier is not told.
RemovedTx(e) == [e EXCEPT !.have = FALSE, !.unverified = None, !.verified = None]

\* undo_verifications on branch b with its headers up to top
Undone(e, b, top) ==
  IF /\ e.verified # None /\ e.verified[1] > ForkHeight
     /\ e.verified[1] > top \/ e.verified # HeaderAt(b, e.verified[1])
  THEN [Unproved(e) EXCEPT !.verified = None, !.unverified = e.verified[1]]
  ELSE e
=============================================================================
