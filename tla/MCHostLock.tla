----------------------------- MODULE MCHostLock -----------------------------
(* HostLock for TLC: the controllers are interchangeable, and nothing is   *)
(* promised once something was taken from a process or session that lives. *)
EXTENDS HostLock, TLC

Symmetry == Permutations(Clients)
UntilBroken == broken = {}

\* Over SSH a claim does not write the lock again, so a Run needs one revision
\* less than it does here for its whole life.
MaxRemoteRev == MaxRev - 1
ShorterOverSSH == place = "ssh" =>
  \A c \in Clients : client[c].new = None \/ client[c].new.rev <= MaxRemoteRev
=============================================================================
