--------------------------- MODULE HostOwnership ---------------------------
(***************************************************************************)
(* What the Host Lock of one Maya Host promises, whichever file and script *)
(* keeps it: a Maya UI Session belongs to the Run the lock names, and the  *)
(* lock passes to another Run only when no session of the former is left.  *)
(* The promise ends when the mutex around the lock file stops excluding,   *)
(* or a stop releases the lock under a live session or a live process of a *)
(* checkout: sound is then FALSE and anything may follow.                  *)
(***************************************************************************)
CONSTANTS Clients, None, Standing

VARIABLES owner,    \* the Run the Host Lock names, or None
          lease,    \* "none", "active", "expired" or "kept"
          session,  \* the Run that launched the live Maya, Standing, or None
          sound     \* whether nothing was taken from the living so far

vars == <<owner, lease, session, sound>>

Init == owner = None /\ lease = "none" /\ session \in {None, Standing} /\ sound = TRUE

\* A Run becomes the owner of a Host that is free, or whose lease ran out
\* while the Session Broker reports nothing alive.
Take(c) == /\ owner = None \/ (lease = "expired" /\ session = None)
           /\ owner' = c /\ lease' = "active"
           /\ UNCHANGED session

\* The lease is renewed, runs out, or is made durable for a Kept Session.
Change == /\ owner # None
          /\ \/ lease # "kept" /\ lease' \in {"active", "expired"}
             \/ lease # "none" /\ lease' = "kept"
          /\ UNCHANGED <<owner, session>>

\* The lock goes only when no session of its Run is alive.
Drop == /\ owner # None /\ session # owner
        /\ owner' = None /\ lease' = "none"
        /\ UNCHANGED session

\* Maya is started for the owner, under a lease that has not run out.
Launch == /\ lease \in {"active", "kept"} /\ session \in {None, owner}
          /\ session' = owner
          /\ UNCHANGED <<owner, lease>>

\* Only the owner's own session, or the Host's standing one, is stopped.
Stop == /\ lease \in {"active", "kept"} /\ session \in {owner, Standing}
        /\ session' = None
        /\ UNCHANGED <<owner, lease>>

Kept == /\ sound'
        /\ UNCHANGED sound
        /\ (\E c \in Clients : Take(c)) \/ Change \/ Drop \/ Launch \/ Stop

Next == Kept \/ ~sound'

Spec == Init /\ [][Next]_vars
=============================================================================
