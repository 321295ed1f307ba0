-------------------------- MODULE MCHostAgentFence --------------------------
(* HostAgentFence for one Agent.                                           *)
EXTENDS HostAgentFence, TLC

MCAgentOf == [p \in Procs |-> CHOOSE a \in Agents : TRUE]

Symmetry == Permutations(Runs) \cup Permutations(Procs)

=============================================================================
