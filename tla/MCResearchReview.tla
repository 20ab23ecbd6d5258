--------------------------- MODULE MCResearchReview ---------------------------
(* Instances of ResearchReview for TLC.                                     *)
EXTENDS ResearchReview, TLC

\* Model values for the tool calls, and for a thread that only looks.
CONSTANTS c1, c2, w

\* A full research task, and a request bounded to two stages.
TwoRoutes == {<<>>, <<"data", "hypothesis">>}
FullRoute == {<<>>}

\* Calls differ in nothing but their name.
CallSymmetry == Permutations(Calls)
=============================================================================
