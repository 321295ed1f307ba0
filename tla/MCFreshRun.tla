----------------------------- MODULE MCFreshRun -----------------------------
(* FreshRun for TLC: the stopping processes are interchangeable.           *)
EXTENDS FreshRun, TLC

UntilRaced == ~raced
Symmetry == Permutations(Stops)
=============================================================================
