----------------------------- MODULE AtomicFile -----------------------------
(***************************************************************************)
(* What a wallet file promises to the rest of the program: the file is     *)
(* either missing or a whole version of the document, a save puts the      *)
(* version of that moment in its place in one step, and a process that     *)
(* dies leaves what was saved last, which is what the next one reads.      *)
(***************************************************************************)
EXTENDS Naturals

CONSTANTS Missing

VARIABLES
  saved,   \* Missing or the version on the disk
  doc,     \* the version in memory
  alive    \* TRUE while a process lives

Init == saved = Missing /\ doc = 0 /\ alive = FALSE

New == alive /\ doc' = 1 /\ UNCHANGED <<saved, alive>>
Edit == alive /\ doc' = doc + 1 /\ UNCHANGED <<saved, alive>>
Commit == alive /\ saved' = doc /\ UNCHANGED <<doc, alive>>
Remove == alive /\ saved' = Missing /\ UNCHANGED <<doc, alive>>
Die == alive' = FALSE /\ doc' = 0 /\ UNCHANGED saved
\* A process that never comes to the file starts without a document.
Read == ~alive /\ alive' = TRUE /\ doc' \in {0, saved} \cap Nat /\ UNCHANGED saved

Next == New \/ Edit \/ Commit \/ Remove \/ Die \/ Read

Spec == Init /\ [][Next]_<<saved, doc, alive>>
=============================================================================
