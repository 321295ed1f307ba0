----------------------------- MODULE MCRunQueue -----------------------------
(* Instances of RunQueue for TLC.                                          *)
EXTENDS RunQueue

\* Every Run may use every Host.
AnyHost == [r \in Runs |-> Hosts]

=============================================================================
