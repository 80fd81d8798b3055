-------------------------- MODULE MCResearchRuns ---------------------------
(* Instances of ResearchRuns and its refinement for TLC. *)
EXTENDS ResearchRunsRefinement, ResearchRunsInvariant, TLC

\* Workers that run the same code are interchangeable when all may die.
Symmetry == Permutations(Worker)
=============================================================================
