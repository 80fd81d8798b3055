---------------------------- MODULE MCAnswerChain ----------------------------
(* Instances of AnswerChain for TLC: the workers share one process, and with   *)
(* it the mutation lock of the store of signals.                               *)
EXTENDS AnswerChainRefinement, TLC

OneProcess == [w \in Worker |-> CHOOSE p \in Process : TRUE]

Symmetry == Permutations(Worker)
=============================================================================
