----------------------------- MODULE MCRunEvents ----------------------------
(* RunEvents for TLC. *)
EXTENDS RunEvents

\* The histories are claimed until a failure that was cut off took effect, or a
\* follower's refresh put other events in the place of the Run's.
UntilTorn == ~torn

\* An Agent's Run with a follower that attached early is explored with fewer
\* events and failures.
EarlyLines == 4
EarlyFaults == 1
ShorterWhenEarly == early # None =>
    Len(source) <= EarlyLines /\ faults <= EarlyFaults /\ (asg # None => asg.n <= 1)

=============================================================================
