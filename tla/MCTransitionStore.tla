-------------------------- MODULE MCTransitionStore --------------------------
(* TransitionStore on two runs and one or two hosts.                       *)
EXTENDS TransitionStore, TLC

Symmetry == Permutations(Runs) \cup Permutations(Hosts)

=============================================================================
