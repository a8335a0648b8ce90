---------------------------- MODULE MCBlockchain ----------------------------
(* Blockchain for TLC: the headers of a few competing branches above the    *)
(* checkpoint "g", each with its predecessor.                               *)
EXTENDS Blockchain

CONSTANTS
  Tree,      \* the branches of the run
  Heavy,     \* headers after a retarget, worth three of the others
  MaxChains  \* bound on the Blockchain objects

\* Forks of forks, and one below all the others
Forks ==
  {<<"a1", "g">>, <<"a2", "a1">>, <<"a3", "a2">>,
   <<"b3", "a2">>, <<"b4", "b3">>,
   <<"c2", "a1">>, <<"c3", "c2">>, <<"c4", "c3">>,
   <<"d1", "g">>, <<"d2", "d1">>, <<"d3", "d2">>, <<"d4", "d3">>, <<"d5", "d4">>,
   <<"e3", "c2">>, <<"e4", "e3">>}

MCHeader == {"g"} \cup {e[1] : e \in Tree}
MCPrev == [h \in MCHeader |-> IF h = "g" THEN "g" ELSE (CHOOSE e \in Tree : e[1] = h)[2]]
MCBranch[h \in MCHeader] == IF h = "g" THEN <<>> ELSE Append(MCBranch[MCPrev[h]], h)
MCHeight[h \in MCHeader] == IF h = "g" THEN 0 ELSE MCHeight[MCPrev[h]] + 1
MCWork[h \in MCHeader] ==
  IF h = "g" THEN 0 ELSE MCWork[MCPrev[h]] + (IF h \in Heavy THEN 3 ELSE 1)
MCChain == 1 .. MaxChains
=============================================================================
