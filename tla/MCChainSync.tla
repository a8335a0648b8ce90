----------------------------- MODULE MCChainSync ----------------------------
(* ChainSync for TLC: the branches above the checkpoint "g", each header     *)
(* with its predecessor.                                                     *)
EXTENDS ChainSync

CONSTANTS
  Tree,  \* the branches of the run
  Heavy  \* headers after a retarget, worth three of the others

\* A short branch, and one that is found again after it was left behind
TwoBranches ==
  {<<"a1", "g">>, <<"a2", "a1">>, <<"a3", "a2">>,
   <<"b2", "a1">>, <<"b3", "b2">>, <<"b4", "b3">>, <<"b5", "b4">>, <<"b6", "b5">>}

\* Branches a server can change to one after another, one of them to a branch
\* that is shorter
ThreeBranches ==
  {<<"a1", "g">>, <<"a2", "a1">>, <<"b1", "g">>, <<"b2", "b1">>, <<"b3", "b2">>,
   <<"c2", "b1">>}

MCHeader == {"g"} \cup {e[1] : e \in Tree}
MCPrev == [h \in MCHeader |-> IF h = "g" THEN "g" ELSE (CHOOSE e \in Tree : e[1] = h)[2]]
MCBranch[h \in MCHeader] == IF h = "g" THEN <<>> ELSE Append(MCBranch[MCPrev[h]], h)
MCHeight[h \in MCHeader] == IF h = "g" THEN 0 ELSE MCHeight[MCPrev[h]] + 1
MCWork[h \in MCHeader] ==
  IF h = "g" THEN 0 ELSE MCWork[MCPrev[h]] + (IF h \in Heavy THEN 3 ELSE 1)
=============================================================================
