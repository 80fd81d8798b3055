------------------------- MODULE MCGenerationQueue -------------------------
(* Instances of GenerationQueue for TLC.  Generations differ only in the      *)
(* place they have in line, which is part of the state.                       *)
EXTENDS GenerationQueue, TLC

Symmetry == Permutations(Generation \ Derived) \cup Permutations(Derived \ Courseware)
                \cup Permutations(Courseware) \cup Permutations(Handoff)
=============================================================================
