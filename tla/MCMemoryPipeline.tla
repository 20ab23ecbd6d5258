--------------------------- MODULE MCMemoryPipeline ---------------------------
(* Instances of MemoryPipeline for TLC.                                     *)
EXTENDS MemoryPipeline, TLC

\* Model values for the turns and the observation files.
CONSTANTS t1, t2, t3, o1, o2

\* Turns and observations are interchangeable.
Symmetry == Permutations(Turns) \cup Permutations(Observations)
=============================================================================
