------------------------------- MODULE MCPush -------------------------------
(***************************************************************************)
(* Instances of Push for TLC.                                              *)
(***************************************************************************)
EXTENDS Push, TLC

Symmetric == Permutations(Review) \cup Permutations(Rc)
TheFirst == {2}             \* one of the two commits a range may hold is sensitive
SomePaths == {{3}, 1 .. 3}   \* an answer names no paths, the other's or <rc-diff>
TheLast == {3}
Recreated == {"recreate"}
FollowsHead == {"moving"}
=============================================================================
