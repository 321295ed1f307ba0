--------------------------- MODULE RunQueueProofs ---------------------------
(***************************************************************************)
(* Proofs about RunQueue, for any Runs, Hosts, capacity and bounds.        *)
(*                                                                         *)
(* Two inductive invariants.  IInv holds whatever write fails, and gives   *)
(* the exclusion of Hosts, of cancellation and assignment, the bound of    *)
(* the queue and its order.  FaultFree holds besides as long as no write   *)
(* failed: memory and disk agree, so that nothing is lost, nothing is      *)
(* decided twice and startup can go on from every stop.                    *)
(*                                                                         *)
(* The lemma that a step keeps a part has one step per action, and rests   *)
(* on the parts that its ASSUME names.                                     *)
(***************************************************************************)
EXTENDS RunQueue, TLAPS, FiniteSetTheorems, WellFoundedInduction

\* Places of a goroutine whose Run is not in the queue yet, and of one that holds
\* queueAdmissionMu.
Coming == {"new", "admitting", "accepted", "marked"}
Inside == {"admitting", "accepted", "marked", "readmitting"}

\* On the way from a selection to the assignment; between two selections.
Heading == {"chosen", "marker", "rollback"}
Idle == {"loop", "blocked", "undo", "again"}

\* A goroutine on its way to an assignment goes to the Host that was selected for
\* it, and until it gave it up it has that Host's lock; a selection it has still
\* to see comes with the lock too.
RouteOf(r) ==
    /\ place[r] \in Heading => at[r] # None /\ selected[r] = at[r] /\ r \notin canceled
    /\ place[r] \in {"chosen", "marker", "undo"} => at[r] # None /\ lock[at[r]] = r
    /\ place[r] \in Idle /\ selected[r] # None =>
          /\ lock[selected[r]] = r /\ r \notin canceled
          /\ place[r] = "undo" => selected[r] # at[r]
    /\ place[r] = "marker" => asg[r] = "marker" /\ home[r] = at[r]

Route == \A r \in Runs : RouteOf(r)

\* A process that is not serving has no goroutine and no scheduler at work.
AtRest ==
    /\ \A r \in Runs : r \in todo => intent[r] # None /\ r \notin queued /\ phase # "up"
    /\ phase = "down" => queued = {}
    /\ phase # "up" =>
        /\ \A r \in Runs : /\ place[r] \in {"new", "gone"} /\ at[r] = None
                           /\ selected[r] = None /\ cancelStep[r] = None
        /\ dispatching = {} /\ claim = None /\ admitter = None /\ visit = {} /\ cycle = FALSE

\* A Run that is being admitted has left no trace beyond admission.
Entrance ==
    \A r \in Runs :
        /\ place[r] \in Coming =>
              /\ r \notin queued /\ cancelStep[r] = None /\ asg[r] = None
              /\ ledger[r] \notin Ending
        /\ place[r] = "new" => intent[r] = None /\ ledger[r] = None
        /\ place[r] \in Inside <=> admitter = r

\* What a marker or an assignment of a Run says of its other records.
RecordedOf(r) ==
    /\ asg[r] # None => /\ place[r] \in {"marker", "failing", "failed", "gone"}
                        /\ r \in queued => r \in dispatching
    /\ asg[r] \in {"assigned", "quarantined", "completed"} => place[r] = "gone" /\ r \notin queued
    /\ asg[r] \in {"assigned", "completed"} => intent[r] = None
    /\ asg[r] = "marker" => phase \in {"up", "down"}
    /\ asg[r] \in {"marker", "assigned", "quarantined"} => home[r] \in Hosts
    /\ asg[r] = "assigned" => hstate[home[r]] = "locked"
    /\ asg[r] = "quarantined" => hstate[home[r]] = "quarantined"

Recorded == \A r \in Runs : RecordedOf(r)

\* The Run being claimed has no Host and no assignment.
ClaimFresh ==
    \A r \in Runs, h \in Hosts : claim = <<r, h>> => selected[r] = None /\ asg[r] = None

\* A Run whose cancellation is under way or on record is out of dispatch.
CanceledIsOut ==
    \A r \in Runs : cancelStep[r] # None \/ ledger[r] \in Ending =>
        /\ asg[r] = None /\ selected[r] = None
        /\ place[r] \notin Heading \cup Coming
        /\ r \in queued => r \in canceled

\* The queue is finite and within its capacity.
Capacity == IsFiniteSet(Waiting) /\ WithinCapacity

\* No Run was accepted after now, and the one being admitted was accepted last.
Time ==
    \A r \in Runs : /\ accepted[r] <= clock
                    /\ place[r] \in {"accepted", "marked"} => accepted[r] = clock

\* The inductive invariant.
IInv ==
    /\ TypeOK /\ Route /\ AtRest /\ Entrance /\ Recorded /\ ClaimFresh /\ CanceledIsOut
    /\ OneRunPerHost /\ Capacity /\ Time

-----------------------------------------------------------------------------
(* Numbers and types.                                                      *)

\* A nonempty set of numbers has a least one: what dispatchQueuedRuns visits next
\* is one of the Hosts it has still to visit.
LEMMA MinIn == ASSUME NEW S \in SUBSET Nat, S # {} PROVE Min(S) \in S
<1>1. PICK x \in S : \A y \in S : ~(<<y, x>> \in OpToRel(<, Nat))
    BY NatLessThanWellFounded, WFMin
<1>2. ASSUME NEW y \in S, ~(x <= y) PROVE FALSE
    <2>1. <<y, x>> \in Nat \X Nat /\ y < x
        BY <1>2
    <2> QED
        BY <2>1, <1>1 DEF OpToRel
<1> QED
    BY <1>2 DEF Min

\* A bounded counter stays a number.
LEMMA Counters ==
    ASSUME TypeOK
    PROVE  clock + 1 \in Nat /\ faults + 1 \in Nat /\ stops + 1 \in Nat /\ changes + 1 \in Nat
    BY DEF TypeOK

\* Every step keeps the types.
LEMMA TypeStep == ASSUME TypeOK, Next PROVE TypeOK'
<1> USE Counters, QueueAssumption
<1>1. ASSUME NEW r \in Runs, Submit(r) PROVE TypeOK'
    BY <1>1 DEF TypeOK, Terminal, Submit, Goes, Ledger, Admitting, Intent, Fault, entries,
         scheduler, hosts
<1>2. ASSUME NEW r \in Runs, Accept(r) PROVE TypeOK'
    BY <1>2 DEF TypeOK, Terminal, Accept, Goes, Ledger, Fault, Intent, entries, scheduler, hosts
<1>3. ASSUME NEW r \in Runs, MarkQueued(r) PROVE TypeOK'
    BY <1>3 DEF TypeOK, Terminal, MarkQueued, Goes, Ledger, Fault, entries, scheduler, hosts
<1>4. ASSUME NEW r \in Runs, Enqueue(r) PROVE TypeOK'
    BY <1>4 DEF TypeOK, Terminal, Enqueue, Intent, Goes, Fault, scheduler, hosts
<1>5. ASSUME NEW r \in Runs, Look(r) PROVE TypeOK'
    <2>1. sched' \in BOOLEAN
        BY <1>5 DEF Look, StartScheduler, TypeOK
    <2> QED
        BY <2>1, <1>5 DEF TypeOK, Look, Goes, entries, disk, hosts, bounds
<1>6. ASSUME NEW r \in Runs, Wake(r) PROVE TypeOK'
    BY <1>6 DEF TypeOK, Terminal, Wake, Goes, entries, scheduler, disk, hosts, bounds
<1>7. ASSUME NEW r \in Runs, FirstLook(r) PROVE TypeOK'
    BY <1>7 DEF TypeOK, Terminal, FirstLook, WriteMarker, Goes, entries, ResetHost, ResetDispatch,
         Fault, Unlock, scheduler
<1>8. ASSUME NEW r \in Runs, Undo(r) PROVE TypeOK'
    BY <1>8 DEF TypeOK, Terminal, Undo, Unlock, Goes, Fault, entries, scheduler, disk
<1>9. ASSUME NEW r \in Runs, Reenter(r) PROVE TypeOK'
    BY <1>9 DEF TypeOK, Terminal, Reenter, Goes, Fault, Admitting, Intent, scheduler, hosts
<1>10. ASSUME NEW r \in Runs, Readmit(r) PROVE TypeOK'
    BY <1>10 DEF TypeOK, Terminal, Readmit, Intent, Goes, entries, scheduler, hosts, bounds
<1>11. ASSUME NEW r \in Runs, SecondLook(r) PROVE TypeOK'
    BY <1>11 DEF TypeOK, Terminal, SecondLook, Unlock, Goes, Fault, entries, scheduler
<1>12. ASSUME NEW r \in Runs, Rollback(r) PROVE TypeOK'
    BY <1>12 DEF TypeOK, Terminal, Rollback, ResetHost, ResetDispatch, Goes, entries, scheduler,
         disk, bounds
<1>13. ASSUME NEW r \in Runs, Assign(r) PROVE TypeOK'
    BY <1>13 DEF TypeOK, Terminal, Assign, Goes, Ledger, Intent, Delete, Fault, entries, scheduler
<1>14. ASSUME NEW r \in Runs, RecordFailure(r) PROVE TypeOK'
    BY <1>14 DEF TypeOK, Terminal, RecordFailure, Ledger, Goes, Fault, entries, scheduler
<1>15. ASSUME NEW r \in Runs, RemoveFailed(r) PROVE TypeOK'
    BY <1>15 DEF TypeOK, Terminal, RemoveFailed, Goes, Intent, Delete, Fault, scheduler, hosts
<1>16. ASSUME NEW r \in Runs, Cancel(r) PROVE TypeOK'
    BY <1>16 DEF TypeOK, Terminal, Cancel, Cancelable, Intent, Fault, waiters, scheduler, hosts
<1>17. ASSUME NEW r \in Runs, CancelPrepare(r) PROVE TypeOK'
    BY <1>17 DEF TypeOK, Terminal, CancelPrepare, Ledger, Ending, CancelFails, Fault, entries,
         scheduler, hosts
<1>18. ASSUME NEW r \in Runs, CancelCleanup(r) PROVE TypeOK'
    BY <1>18 DEF TypeOK, Terminal, CancelCleanup, Ledger, CancelFails, Fault, entries, scheduler,
         hosts
<1>19. ASSUME NEW r \in Runs, CancelRemove(r) PROVE TypeOK'
    BY <1>19 DEF TypeOK, Terminal, CancelRemove, Intent, Delete, Fault, entries, scheduler, hosts
<1>20. ASSUME NEW r \in Runs, Complete(r) PROVE TypeOK'
    BY <1>20 DEF TypeOK, Terminal, Complete, Ledger, Unlock, entries, waiters, scheduler, bounds
<1>21. ASSUME NEW r \in Runs, Load(r) PROVE TypeOK'
    <2>1. intent' \in [Runs -> {None, "admitting", "queued", "canceling"}]
        BY <1>21 DEF TypeOK, Load, Drop, Intent, LoadCanceling, Refuse
    <2>2. ledger' \in [Runs -> {None, "submitted", "queued", "canceling"} \cup Terminal]
        BY <1>21 DEF TypeOK, Terminal, Load, Drop, LoadCanceling, Ending, Ledger, Refuse
    <2>3. phase' \in {"loading", "refused"} /\ todo' \subseteq todo
        BY <1>21 DEF Load, Drop, LoadCanceling, Refuse
    <2>4. /\ queued' \in {queued, queued \cup {r}}
          /\ canceled' = canceled \/ (canceled' = canceled \cup {r} /\ queued' = queued \cup {r})
        BY <1>21 DEF Load, Drop, LoadCanceling, Refuse
    <2>5. faults' \in Nat
        BY <1>21 DEF TypeOK, Load, Drop, LoadCanceling, Refuse, Fault
    <2> QED
        BY <2>1, <2>2, <2>3, <2>4, <2>5, <1>21 DEF TypeOK, Load, waiters, scheduler, hosts
<1>22. ASSUME NEW h \in Hosts, LeaseExpires(h) PROVE TypeOK'
    BY <1>22 DEF TypeOK, LeaseExpires, entries, waiters, scheduler, disk
<1>23. ASSUME NEW h \in Hosts, Register(h) PROVE TypeOK'
    BY <1>23 DEF TypeOK, Register, entries, waiters, scheduler, disk, bounds
<1>24. ASSUME NEW h \in Hosts, HeartbeatExpired(h) PROVE TypeOK'
    BY <1>24 DEF TypeOK, HeartbeatExpired, entries, waiters, scheduler, disk, bounds
<1>25. CASE BeginCycle
    <2>1. /\ hstate' \in [Hosts -> {"ready", "reserving", "locked", "quarantined", "offline"}]
          /\ visit' \subseteq Hosts /\ contended' \subseteq Runs
        BY <1>25, ZenonT(40) DEF TypeOK, BeginCycle
    <2>2. sched' \in BOOLEAN /\ cycle' \in BOOLEAN
        BY <1>25 DEF TypeOK, BeginCycle
    <2> QED
        BY <2>1, <2>2, <1>25 DEF TypeOK, BeginCycle, waiters, disk, bounds
<1>26. CASE Visit
    <2>1. Min(visit) \in Hosts
        BY <1>26, MinIn DEF TypeOK, Visit
    <2>2. /\ hstate' \in [Hosts -> {"ready", "reserving", "locked", "quarantined", "offline"}]
          /\ visit' \subseteq Hosts
        BY <2>1, <1>26, ZenonT(40) DEF TypeOK, Visit
    <2>3. /\ dispatching' \subseteq queued /\ dispatching \subseteq dispatching'
          /\ claim' \in (Runs \X Hosts) \cup {None}
        BY <2>1, <1>26 DEF TypeOK, Visit, Candidates
    <2> QED
        BY <2>2, <2>3, <1>26 DEF TypeOK, Visit, waiters, disk, bounds
<1>27. CASE Claimed
    BY <1>27 DEF TypeOK, Claimed, ResetHost, Select, Fault, disk
<1>28. CASE EndCycle
    <2>1. /\ selErr' \subseteq Runs /\ signal' \subseteq Runs /\ dispatching' \subseteq queued
          /\ dispatching \subseteq dispatching' /\ errs' \subseteq Runs
        BY <1>28 DEF TypeOK, EndCycle
    <2>2. cycle' \in BOOLEAN
        BY <1>28 DEF EndCycle
    <2> QED
        BY <2>1, <2>2, <1>28 DEF TypeOK, EndCycle, disk, hosts, bounds
<1>29. CASE Stop
    <2>1. /\ intent' \in [Runs -> {None, "admitting", "queued", "canceling"}]
          /\ ledger' \in [Runs -> {None, "submitted", "queued", "canceling"} \cup Terminal]
        BY <1>29 DEF TypeOK, Stop, Ledger
    <2>2. /\ selected' \in [Runs -> Hosts \cup {None}] /\ at' \in [Runs -> Hosts \cup {None}]
          /\ \A r \in Runs : selected'[r] = None
          /\ cancelStep' \in [Runs -> {None, "prepare", "cleanup", "remove"}]
          /\ live' \in [Hosts -> BOOLEAN]
        BY <1>29 DEF Stop
    <2>3. place' \in [Runs -> {"new", "gone"}]
        BY <1>29 DEF Stop
    <2>4. sched' \in BOOLEAN /\ cycle' \in BOOLEAN
        BY <1>29 DEF Stop
    <2> QED
        BY <2>1, <2>2, <2>3, <2>4, <1>29 DEF TypeOK, Stop
<1>30. CASE Start
    <2> DEFINE active == {r \in Runs : asg[r] \in {"marker", "assigned", "quarantined"}}
    <2>1. \A h \in Hosts : (\E r \in active : home[r] = h) =>
            (CHOOSE r \in active : home[r] = h) \in Runs
        OBVIOUS
    <2>2. lock' \in [Hosts -> Runs \cup {None}]
        BY <2>1, <1>30 DEF Start
    <2>3. /\ asg' \in [Runs -> {None, "marker", "assigned", "quarantined", "completed"}]
          /\ ledger' \in [Runs -> {None, "submitted", "queued", "canceling"} \cup Terminal]
        BY <1>30 DEF Start, TypeOK, Terminal
    <2>4. hstate' \in [Hosts -> {"ready", "reserving", "locked", "quarantined", "offline"}]
        BY <1>30 DEF Start
    <2>5. phase' = "loading" /\ todo' \subseteq Runs
        BY <1>30 DEF Start
    <2> QED
        BY <2>2, <2>3, <2>4, <2>5, <1>30 DEF TypeOK, Start, entries, waiters, scheduler, bounds
<1>31. CASE Resume
    BY <1>31 DEF TypeOK, Resume, entries, scheduler, disk, hosts, bounds
<1> QED
        BY <1>1, <1>2, <1>3, <1>4, <1>5, <1>6, <1>7, <1>8, <1>9, <1>10, <1>11, <1>12, <1>13,
         <1>14, <1>15, <1>16, <1>17, <1>18, <1>19, <1>20, <1>21, <1>22, <1>23, <1>24, <1>25,
         <1>26, <1>27, <1>28, <1>29, <1>30, <1>31 DEF Next, Submission, Cancellation, Dispatch,
         Agent

\* The absent value is none of the states.
LEMMA NoneDiffers ==
    None \notin Terminal \cup {"admitting", "submitted", "queued", "canceling", "marker", "assigned",
        "quarantined", "completed", "prepare", "cleanup", "remove"}
    BY NoneAssumption DEF Terminal

\* What is being claimed is a Run for a Host.
LEMMA ClaimPair ==
    ASSUME TypeOK, claim # None PROVE \E r \in Runs, h \in Hosts : claim = <<r, h>>
<1>1. claim \in Runs \X Hosts
    BY DEF TypeOK
<1> QED
    BY <1>1

\* A goroutine that did not move and lost no lock keeps its route.
LEMMA RouteKept ==
    ASSUME NEW s \in Runs, TypeOK, RouteOf(s),
           \A k \in Hosts : lock[k] = s => lock'[k] = s,
           place'[s] = place[s], at'[s] = at[s], selected'[s] = selected[s],
           s \in canceled' => s \in canceled \/ place[s] \notin Heading \cup Idle,
           place[s] = "marker" => asg'[s] = asg[s] /\ home'[s] = home[s]
    PROVE  RouteOf(s)'
<1>1. at[s] # None => at[s] \in Hosts
    BY DEF TypeOK
<1>2. selected[s] # None => selected[s] \in Hosts
    BY DEF TypeOK
<1> QED
    BY <1>1, <1>2 DEF RouteOf, Heading, Idle

\* Every step keeps the goroutines on their route.
LEMMA RouteStep ==
    ASSUME TypeOK, TypeOK', Route, AtRest, Entrance, Recorded, ClaimFresh, CanceledIsOut, Next
    PROVE  Route'
<1> USE QueueAssumption, NoneAssumption
<1>1. ASSUME NEW r \in Runs, Submit(r) PROVE Route'
    BY <1>1 DEF TypeOK, Route, RouteOf, Heading, Idle, Submit, Goes, entries, hosts
<1>2. ASSUME NEW r \in Runs, Accept(r) PROVE Route'
    BY <1>2 DEF TypeOK, Route, RouteOf, Heading, Idle, Accept, Goes, entries, hosts
<1>3. ASSUME NEW r \in Runs, MarkQueued(r) PROVE Route'
    BY <1>3 DEF TypeOK, Route, RouteOf, Heading, Idle, MarkQueued, Goes, entries, hosts
<1>4. ASSUME NEW r \in Runs, Enqueue(r) PROVE Route'
    BY <1>4 DEF TypeOK, Route, RouteOf, Heading, Idle, Enqueue, Goes, hosts, Entrance, Coming
<1>5. ASSUME NEW r \in Runs, Look(r) PROVE Route'
    BY <1>5 DEF TypeOK, Route, RouteOf, Heading, Idle, Look, Goes, entries, disk, hosts
<1>6. ASSUME NEW r \in Runs, Wake(r) PROVE Route'
    BY <1>6 DEF TypeOK, Route, RouteOf, Heading, Idle, Wake, Goes, entries, disk, hosts
<1>7. ASSUME NEW r \in Runs, FirstLook(r) PROVE Route'
    <2>1. \A s \in Runs \ {r}, k \in Hosts : lock[k] = s => lock'[k] = s
        BY <1>7 DEF FirstLook, Unlock, TypeOK
    <2>2. \A s \in Runs \ {r} : place[s] = "marker" => asg'[s] = asg[s] /\ home'[s] = home[s]
        BY <1>7 DEF FirstLook, WriteMarker, Route, RouteOf, TypeOK
    <2>3. ASSUME NEW s \in Runs \ {r} PROVE RouteOf(s)'
        <3>1. /\ place'[s] = place[s] /\ at'[s] = at[s] /\ selected'[s] = selected[s]
              /\ canceled' = canceled
            BY <1>7 DEF FirstLook, ResetDispatch, Goes, entries, TypeOK
        <3>2. place[s] = "marker" => asg'[s] = asg[s] /\ home'[s] = home[s]
            BY <2>2, <1>7 DEF FirstLook
        <3> QED
            BY <2>1, <3>1, <3>2, RouteKept DEF Route
    <2>4. RouteOf(r)'
        BY <1>7 DEF FirstLook, WriteMarker, ResetDispatch, Goes, entries, Route, RouteOf, Heading, Idle, TypeOK
    <2> QED
        BY <2>3, <2>4 DEF Route
<1>8. ASSUME NEW r \in Runs, Undo(r) PROVE Route'
    <2>1. \A s \in Runs \ {r}, k \in Hosts : lock[k] = s => lock'[k] = s
        BY <1>8 DEF Undo, Unlock, TypeOK
    <2>2. \A k \in Hosts : k # at[r] => lock'[k] = lock[k]
        BY <1>8 DEF Undo, Unlock, TypeOK
    <2>3. ASSUME NEW s \in Runs \ {r} PROVE RouteOf(s)'
        <3>1. /\ place'[s] = place[s] /\ at'[s] = at[s] /\ selected'[s] = selected[s]
              /\ canceled' = canceled
            BY <1>8 DEF Undo, Goes, entries, TypeOK
        <3>2. place[s] = "marker" => asg'[s] = asg[s] /\ home'[s] = home[s]
            BY <2>2, <1>8 DEF Undo, disk
        <3> QED
            BY <2>1, <3>1, <3>2, RouteKept DEF Route
    <2>4. RouteOf(r)'
        <3>1. /\ place'[r] \in {"again", "failing"} /\ place[r] = "undo" /\ at'[r] = at[r]
              /\ selected' = selected /\ canceled' = canceled
            BY <1>8 DEF Undo, Goes, entries, TypeOK
        <3>2. selected[r] # None => selected[r] \in Hosts
            BY DEF TypeOK
        <3> QED
            BY <2>2, <3>1, <3>2 DEF Route, RouteOf, Heading, Idle
    <2> QED
        BY <2>3, <2>4 DEF Route
<1>9. ASSUME NEW r \in Runs, Reenter(r) PROVE Route'
    BY <1>9 DEF TypeOK, Route, RouteOf, Heading, Idle, Reenter, Goes, hosts
<1>10. ASSUME NEW r \in Runs, Readmit(r) PROVE Route'
    BY <1>10 DEF TypeOK, Route, RouteOf, Heading, Idle, Readmit, Goes, entries, hosts
<1>11. ASSUME NEW r \in Runs, SecondLook(r) PROVE Route'
    <2>1. \A s \in Runs \ {r}, k \in Hosts : lock[k] = s => lock'[k] = s
        BY <1>11 DEF SecondLook, Unlock, TypeOK, Route, RouteOf
    <2>2. \A s \in Runs \ {r} : asg'[s] = asg[s]
        BY <1>11 DEF SecondLook, TypeOK
    <2>3. ASSUME NEW s \in Runs \ {r} PROVE RouteOf(s)'
        <3>1. /\ place'[s] = place[s] /\ at'[s] = at[s] /\ selected'[s] = selected[s]
              /\ canceled' = canceled
            BY <1>11 DEF SecondLook, Goes, entries, TypeOK
        <3>2. place[s] = "marker" => asg'[s] = asg[s] /\ home'[s] = home[s]
            BY <2>2, <1>11 DEF SecondLook
        <3> QED
            BY <2>1, <3>1, <3>2, RouteKept DEF Route
    <2>4. RouteOf(r)'
        BY <1>11 DEF SecondLook, Goes, entries, Route, RouteOf, Heading, Idle, TypeOK
    <2> QED
        BY <2>3, <2>4 DEF Route
<1>12. ASSUME NEW r \in Runs, Rollback(r) PROVE Route'
    BY <1>12 DEF TypeOK, Route, RouteOf, Heading, Idle, Rollback, ResetDispatch, Goes, entries,
         disk
<1>13. ASSUME NEW r \in Runs, Assign(r) PROVE Route'
    BY <1>13 DEF TypeOK, Route, RouteOf, Heading, Idle, Assign, Goes, Delete, entries
<1>14. ASSUME NEW r \in Runs, RecordFailure(r) PROVE Route'
    BY <1>14 DEF TypeOK, Route, RouteOf, Heading, Idle, RecordFailure, Goes, entries
<1>15. ASSUME NEW r \in Runs, RemoveFailed(r) PROVE Route'
    BY <1>15 DEF TypeOK, Route, RouteOf, Heading, Idle, RemoveFailed, Goes, Delete, hosts
<1>16. ASSUME NEW r \in Runs, Cancel(r) PROVE Route'
    BY <1>16 DEF TypeOK, Route, RouteOf, Heading, Idle, Cancel, Cancelable, Intent, Fault,
         waiters, scheduler, hosts
<1>17. ASSUME NEW r \in Runs, CancelPrepare(r) PROVE Route'
    BY <1>17 DEF TypeOK, Route, RouteOf, Heading, Idle, CancelPrepare, Ending, entries, hosts
<1>18. ASSUME NEW r \in Runs, CancelCleanup(r) PROVE Route'
    BY <1>18 DEF TypeOK, Route, RouteOf, Heading, Idle, CancelCleanup, entries, hosts
<1>19. ASSUME NEW r \in Runs, CancelRemove(r) PROVE Route'
    BY <1>19 DEF TypeOK, Route, RouteOf, Heading, Idle, CancelRemove, Delete, entries, hosts,
         CanceledIsOut
<1>20. ASSUME NEW r \in Runs, Complete(r) PROVE Route'
    <2>1. \A s \in Runs \ {r}, k \in Hosts : lock[k] = s => lock'[k] = s
        BY <1>20 DEF Complete, Unlock, TypeOK
    <2>2. place[r] = "gone"
        BY <1>20 DEF Complete, Recorded, RecordedOf
    <2>3. ASSUME NEW s \in Runs \ {r} PROVE RouteOf(s)'
        <3>1. /\ place'[s] = place[s] /\ at'[s] = at[s] /\ selected'[s] = selected[s]
              /\ canceled' = canceled
            BY <1>20 DEF Complete, waiters, entries, TypeOK
        <3>2. place[s] = "marker" => asg'[s] = asg[s] /\ home'[s] = home[s]
            BY <2>2, <1>20 DEF Complete
        <3> QED
            BY <2>1, <3>1, <3>2, RouteKept DEF Route
    <2>4. RouteOf(r)'
        BY <2>2, <1>20 DEF Complete, waiters, RouteOf, Heading, Idle
    <2> QED
        BY <2>3, <2>4 DEF Route
<1>21. ASSUME NEW r \in Runs, Load(r) PROVE Route'
    BY <1>21 DEF TypeOK, Route, RouteOf, Heading, Idle, Load, Drop, LoadCanceling, Ending, Refuse,
         waiters, hosts, AtRest
<1>22. ASSUME NEW h \in Hosts, LeaseExpires(h) PROVE Route'
    BY <1>22 DEF TypeOK, Route, RouteOf, Heading, Idle, LeaseExpires, entries, waiters, disk
<1>23. ASSUME NEW h \in Hosts, Register(h) PROVE Route'
    BY <1>23 DEF TypeOK, Route, RouteOf, Heading, Idle, Register, entries, waiters, disk
<1>24. ASSUME NEW h \in Hosts, HeartbeatExpired(h) PROVE Route'
    BY <1>24 DEF TypeOK, Route, RouteOf, Heading, Idle, HeartbeatExpired, entries, waiters, disk
<1>25. CASE BeginCycle
    BY <1>25 DEF TypeOK, Route, RouteOf, Heading, Idle, BeginCycle, waiters, disk
<1>26. CASE Visit
    BY <1>26, MinIn DEF TypeOK, Route, RouteOf, Heading, Idle, Visit, waiters, disk
<1>27. CASE Claimed
    <2>1. PICK r \in Runs, h \in Hosts : claim = <<r, h>>
        BY <1>27, ClaimPair DEF Claimed
    <2>2. \A s \in Runs, k \in Hosts : lock[k] = s => lock'[k] = s
        BY <2>1, <1>27 DEF Claimed, LockFree, TypeOK
    <2>3. \/ UNCHANGED selected
          \/ /\ selected' = [selected EXCEPT ![r] = h] /\ lock' = [lock EXCEPT ![h] = r]
             /\ lock[h] = None /\ selected[r] = None /\ r \notin canceled
        BY <2>1, <1>27 DEF Claimed, Select, LockFree
    <2>4. UNCHANGED <<place, at, canceled, asg, home>>
        BY <1>27 DEF Claimed, disk
    <2>5. CASE UNCHANGED selected
        BY <2>2, <2>4, <2>5, RouteKept DEF Route
    <2>6. CASE selected' # selected
        <3>1. ASSUME NEW s \in Runs \ {r} PROVE RouteOf(s)'
            <4>1. selected'[s] = selected[s]
                BY <2>1, <2>3, <2>6 DEF TypeOK
            <4> QED
                BY <4>1, <2>2, <2>4, RouteKept DEF Route
        <3>2. /\ selected'[r] = h /\ lock'[h] = r /\ lock[h] = None /\ selected[r] = None
              /\ r \notin canceled
            BY <2>1, <2>3, <2>6 DEF TypeOK
        <3>3. RouteOf(r)
            BY <2>1 DEF Route
        <3>4. place[r] \notin Heading
            BY <3>2, <3>3 DEF RouteOf
        <3>5. RouteOf(r)'
            <4>1. at[r] # None => at[r] \in Hosts
                BY DEF TypeOK
            <4>2. place'[r] = place[r] /\ at'[r] = at[r] /\ canceled' = canceled
                BY <2>4
            <4>3. r # None /\ h # None
                BY QueueAssumption
            <4>4. place[r] \in {"chosen", "marker", "undo"} => place[r] = "undo" /\ at[r] # h
                BY <3>2, <3>3, <3>4, <4>3 DEF RouteOf, Heading
            <4>5. place[r] = "undo" => at[r] # None /\ lock'[at[r]] = r
                BY <4>1, <2>2, <3>3 DEF RouteOf
            <4> QED
                BY <4>2, <4>3, <4>4, <4>5, <3>2, <3>4 DEF RouteOf, Heading, Idle
        <3> QED
            BY <3>1, <3>5 DEF Route
    <2> QED
        BY <2>5, <2>6
<1>28. CASE EndCycle
    BY <1>28 DEF TypeOK, Route, RouteOf, Heading, Idle, EndCycle, disk, hosts
<1>29. CASE Stop
    BY <1>29 DEF TypeOK, Route, RouteOf, Heading, Idle, Stop
<1>30. CASE Start
    BY <1>30 DEF TypeOK, Route, RouteOf, Heading, Idle, Start, entries, waiters, AtRest
<1>31. CASE Resume
    BY <1>31 DEF TypeOK, Route, RouteOf, Heading, Idle, Resume, entries, disk, hosts, AtRest
<1> QED
        BY <1>1, <1>2, <1>3, <1>4, <1>5, <1>6, <1>7, <1>8, <1>9, <1>10, <1>11, <1>12, <1>13,
         <1>14, <1>15, <1>16, <1>17, <1>18, <1>19, <1>20, <1>21, <1>22, <1>23, <1>24, <1>25,
         <1>26, <1>27, <1>28, <1>29, <1>30, <1>31 DEF Next, Submission, Cancellation, Dispatch,
         Agent


\* A process that is not serving stays at rest, and takes up only what is on disk.
LEMMA AtRestStep ==
    ASSUME TypeOK, AtRest, Next PROVE AtRest'
<1> USE QueueAssumption, NoneAssumption
<1>1. ASSUME NEW r \in Runs, Submit(r) PROVE AtRest'
    BY <1>1 DEF TypeOK, AtRest, Submit, Goes, Admitting, Intent, entries, scheduler
<1>2. ASSUME NEW r \in Runs, Accept(r) PROVE AtRest'
    BY <1>2 DEF TypeOK, AtRest, Accept, Goes, Intent, entries, scheduler
<1>3. ASSUME NEW r \in Runs, MarkQueued(r) PROVE AtRest'
    BY <1>3 DEF TypeOK, AtRest, MarkQueued, Goes, entries, scheduler
<1>4. ASSUME NEW r \in Runs, Enqueue(r) PROVE AtRest'
    BY <1>4 DEF TypeOK, AtRest, Enqueue, Intent, Goes, scheduler
<1>5. ASSUME NEW r \in Runs, Look(r) PROVE AtRest'
    BY <1>5 DEF TypeOK, AtRest, Look, Goes, entries, disk
<1>6. ASSUME NEW r \in Runs, Wake(r) PROVE AtRest'
    BY <1>6 DEF TypeOK, AtRest, Wake, Goes, entries, scheduler, disk
<1>7. ASSUME NEW r \in Runs, FirstLook(r) PROVE AtRest'
    BY <1>7 DEF TypeOK, AtRest, FirstLook, Goes, entries, ResetDispatch, scheduler
<1>8. ASSUME NEW r \in Runs, Undo(r) PROVE AtRest'
    BY <1>8 DEF TypeOK, AtRest, Undo, Goes, entries, scheduler, disk
<1>9. ASSUME NEW r \in Runs, Reenter(r) PROVE AtRest'
    BY <1>9 DEF TypeOK, AtRest, Reenter, Goes, Admitting, Intent, scheduler
<1>10. ASSUME NEW r \in Runs, Readmit(r) PROVE AtRest'
    BY <1>10 DEF TypeOK, AtRest, Readmit, Intent, Goes, entries, scheduler
<1>11. ASSUME NEW r \in Runs, SecondLook(r) PROVE AtRest'
    BY <1>11 DEF TypeOK, AtRest, SecondLook, Goes, entries, scheduler
<1>12. ASSUME NEW r \in Runs, Rollback(r) PROVE AtRest'
    BY <1>12 DEF TypeOK, AtRest, Rollback, ResetDispatch, Goes, entries, scheduler, disk
<1>13. ASSUME NEW r \in Runs, Assign(r) PROVE AtRest'
    BY <1>13 DEF TypeOK, AtRest, Assign, Goes, Intent, Delete, entries, scheduler
<1>14. ASSUME NEW r \in Runs, RecordFailure(r) PROVE AtRest'
    BY <1>14 DEF TypeOK, AtRest, RecordFailure, Goes, entries, scheduler
<1>15. ASSUME NEW r \in Runs, RemoveFailed(r) PROVE AtRest'
    BY <1>15 DEF TypeOK, AtRest, RemoveFailed, Goes, Intent, Delete, scheduler
<1>16. ASSUME NEW r \in Runs, Cancel(r) PROVE AtRest'
    BY <1>16 DEF TypeOK, AtRest, Cancel, Intent, waiters, scheduler
<1>17. ASSUME NEW r \in Runs, CancelPrepare(r) PROVE AtRest'
    BY <1>17 DEF TypeOK, AtRest, CancelPrepare, Ending, CancelFails, entries, scheduler
<1>18. ASSUME NEW r \in Runs, CancelCleanup(r) PROVE AtRest'
    BY <1>18 DEF TypeOK, AtRest, CancelCleanup, CancelFails, entries, scheduler
<1>19. ASSUME NEW r \in Runs, CancelRemove(r) PROVE AtRest'
    BY <1>19 DEF TypeOK, AtRest, CancelRemove, Intent, Delete, entries, scheduler
<1>20. ASSUME NEW r \in Runs, Complete(r) PROVE AtRest'
    BY <1>20 DEF TypeOK, AtRest, Complete, entries, waiters, scheduler
<1>21. ASSUME NEW r \in Runs, Load(r) PROVE AtRest'
    BY <1>21 DEF TypeOK, AtRest, Load, Drop, Intent, LoadCanceling, Ending, Refuse, waiters,
         scheduler
<1>22. ASSUME NEW h \in Hosts, LeaseExpires(h) PROVE AtRest'
    BY <1>22 DEF TypeOK, AtRest, LeaseExpires, entries, waiters, scheduler, disk
<1>23. ASSUME NEW h \in Hosts, Register(h) PROVE AtRest'
    BY <1>23 DEF TypeOK, AtRest, Register, entries, waiters, scheduler, disk
<1>24. ASSUME NEW h \in Hosts, HeartbeatExpired(h) PROVE AtRest'
    BY <1>24 DEF TypeOK, AtRest, HeartbeatExpired, entries, waiters, scheduler, disk
<1>25. CASE BeginCycle
    BY <1>25 DEF TypeOK, AtRest, BeginCycle, waiters, disk
<1>26. CASE Visit
    BY <1>26, MinIn DEF TypeOK, AtRest, Visit, waiters, disk
<1>27. CASE Claimed
    BY <1>27 DEF TypeOK, AtRest, Claimed, Select, disk
<1>28. CASE EndCycle
    BY <1>28 DEF TypeOK, AtRest, EndCycle, disk
<1>29. CASE Stop
    BY <1>29 DEF TypeOK, AtRest, Stop
<1>30. CASE Start
    BY <1>30 DEF TypeOK, AtRest, Start, entries, waiters, scheduler
<1>31. CASE Resume
    BY <1>31 DEF TypeOK, AtRest, Resume, entries, scheduler, disk
<1> QED
        BY <1>1, <1>2, <1>3, <1>4, <1>5, <1>6, <1>7, <1>8, <1>9, <1>10, <1>11, <1>12, <1>13,
         <1>14, <1>15, <1>16, <1>17, <1>18, <1>19, <1>20, <1>21, <1>22, <1>23, <1>24, <1>25,
         <1>26, <1>27, <1>28, <1>29, <1>30, <1>31 DEF Next, Submission, Cancellation, Dispatch,
         Agent

\* Every step keeps a Run that is being admitted free of what comes later, and the
\* admission mutex with one goroutine.
LEMMA EntranceStep ==
    ASSUME TypeOK, TypeOK', Route, AtRest, Entrance, Recorded, ClaimFresh, CanceledIsOut, Next
    PROVE  Entrance'
<1> USE QueueAssumption, NoneAssumption
<1>1. ASSUME NEW r \in Runs, Submit(r) PROVE Entrance'
    BY <1>1 DEF TypeOK, Entrance, Coming, Inside, Terminal, Ending, Submit, AdmissionFree, Full,
         Waiting, Goes, Admissible, Ledger, Admitting, Intent, Fault, entries, scheduler, hosts
<1>2. ASSUME NEW r \in Runs, Accept(r) PROVE Entrance'
    BY <1>2 DEF TypeOK, Entrance, Coming, Inside, Terminal, Ending, Accept, Goes, Ledger, Intent,
         entries
<1>3. ASSUME NEW r \in Runs, MarkQueued(r) PROVE Entrance'
    BY <1>3 DEF TypeOK, Entrance, Coming, Inside, Terminal, Ending, MarkQueued, Goes, Ledger,
         entries
<1>4. ASSUME NEW r \in Runs, Enqueue(r) PROVE Entrance'
    BY <1>4 DEF TypeOK, Entrance, Coming, Inside, Terminal, Ending, Enqueue, Intent, Goes
<1>5. ASSUME NEW r \in Runs, Look(r) PROVE Entrance'
    BY <1>5 DEF TypeOK, Entrance, Coming, Inside, Terminal, Ending, Look, Goes, entries, disk
<1>6. ASSUME NEW r \in Runs, Wake(r) PROVE Entrance'
    BY <1>6 DEF TypeOK, Entrance, Coming, Inside, Terminal, Ending, Wake, Goes, entries, disk
<1>7. ASSUME NEW r \in Runs, FirstLook(r) PROVE Entrance'
    BY <1>7 DEF TypeOK, Entrance, Coming, Inside, Terminal, Ending, FirstLook, WriteMarker, Goes,
         entries, ResetDispatch
<1>8. ASSUME NEW r \in Runs, Undo(r) PROVE Entrance'
    BY <1>8 DEF TypeOK, Entrance, Coming, Inside, Terminal, Ending, Undo, Goes, entries, disk
<1>9. ASSUME NEW r \in Runs, Reenter(r) PROVE Entrance'
    BY <1>9 DEF TypeOK, Entrance, Coming, Inside, Terminal, Ending, Reenter, Goes, Fault,
         AdmissionFree, Full, Waiting, Admissible, Admitting, Intent, scheduler, hosts
<1>10. ASSUME NEW r \in Runs, Readmit(r) PROVE Entrance'
    BY <1>10 DEF TypeOK, Entrance, Coming, Inside, Terminal, Ending, Readmit, Intent, Goes,
         entries
<1>11. ASSUME NEW r \in Runs, SecondLook(r) PROVE Entrance'
    BY <1>11 DEF TypeOK, Entrance, Coming, Inside, Terminal, Ending, SecondLook, Goes, entries
<1>12. ASSUME NEW r \in Runs, Rollback(r) PROVE Entrance'
    BY <1>12 DEF TypeOK, Entrance, Coming, Inside, Terminal, Ending, Rollback, ResetDispatch,
         Goes, entries, disk
<1>13. ASSUME NEW r \in Runs, Assign(r) PROVE Entrance'
    BY <1>13 DEF TypeOK, Entrance, Coming, Inside, Terminal, Ending, Assign, Goes, Ledger, Intent,
         Delete, entries
<1>14. ASSUME NEW r \in Runs, RecordFailure(r) PROVE Entrance'
    BY <1>14 DEF TypeOK, Entrance, Coming, Inside, Terminal, Ending, RecordFailure, Ledger, Goes,
         entries
<1>15. ASSUME NEW r \in Runs, RemoveFailed(r) PROVE Entrance'
    BY <1>15 DEF TypeOK, Entrance, Coming, Inside, Terminal, Ending, RemoveFailed, Goes, Intent,
         Delete
<1>16. ASSUME NEW r \in Runs, Cancel(r) PROVE Entrance'
    BY <1>16 DEF TypeOK, Entrance, Coming, Inside, Terminal, Ending, Cancel, Cancelable, Intent,
         Fault, waiters, scheduler, hosts
<1>17. ASSUME NEW r \in Runs, CancelPrepare(r) PROVE Entrance'
    BY <1>17 DEF TypeOK, Entrance, Coming, Inside, Terminal, Ending, CancelPrepare, Ledger,
         CancelFails, entries
<1>18. ASSUME NEW r \in Runs, CancelCleanup(r) PROVE Entrance'
    BY <1>18 DEF TypeOK, Entrance, Coming, Inside, Terminal, Ending, CancelCleanup, Ledger,
         CancelFails, entries
<1>19. ASSUME NEW r \in Runs, CancelRemove(r) PROVE Entrance'
    BY <1>19 DEF TypeOK, Entrance, Coming, Inside, Terminal, Ending, CancelRemove, Intent, Delete,
         entries
<1>20. ASSUME NEW r \in Runs, Complete(r) PROVE Entrance'
    BY <1>20 DEF TypeOK, Entrance, Coming, Inside, Terminal, Ending, Complete, Ledger, entries,
         waiters
<1>21. ASSUME NEW r \in Runs, Load(r) PROVE Entrance'
    BY <1>21 DEF TypeOK, Entrance, Coming, Inside, Terminal, Ending, Load, Drop, Intent,
         LoadCanceling, Ledger, Refuse, waiters, AtRest
<1>22. ASSUME NEW h \in Hosts, LeaseExpires(h) PROVE Entrance'
    BY <1>22 DEF TypeOK, Entrance, Coming, Inside, Terminal, Ending, LeaseExpires, entries,
         waiters, disk
<1>23. ASSUME NEW h \in Hosts, Register(h) PROVE Entrance'
    BY <1>23 DEF TypeOK, Entrance, Coming, Inside, Terminal, Ending, Register, entries, waiters,
         disk
<1>24. ASSUME NEW h \in Hosts, HeartbeatExpired(h) PROVE Entrance'
    BY <1>24 DEF TypeOK, Entrance, Coming, Inside, Terminal, Ending, HeartbeatExpired, entries,
         waiters, disk
<1>25. CASE BeginCycle
    BY <1>25 DEF TypeOK, Entrance, Coming, Inside, Terminal, Ending, BeginCycle, waiters, disk
<1>26. CASE Visit
    BY <1>26, MinIn DEF TypeOK, Entrance, Coming, Inside, Terminal, Ending, Visit, waiters, disk
<1>27. CASE Claimed
    BY <1>27 DEF TypeOK, Entrance, Coming, Inside, Terminal, Ending, Claimed, disk
<1>28. CASE EndCycle
    BY <1>28 DEF TypeOK, Entrance, Coming, Inside, Terminal, Ending, EndCycle, disk
<1>29. CASE Stop
    BY <1>29 DEF TypeOK, Entrance, Coming, Inside, Terminal, Ending, Stop, Ledger
<1>30. CASE Start
    BY <1>30 DEF TypeOK, Entrance, Coming, Inside, Terminal, Ending, Start, entries, waiters
<1>31. CASE Resume
    BY <1>31 DEF TypeOK, Entrance, Coming, Inside, Terminal, Ending, Resume, entries, disk, AtRest
<1> QED
        BY <1>1, <1>2, <1>3, <1>4, <1>5, <1>6, <1>7, <1>8, <1>9, <1>10, <1>11, <1>12, <1>13,
         <1>14, <1>15, <1>16, <1>17, <1>18, <1>19, <1>20, <1>21, <1>22, <1>23, <1>24, <1>25,
         <1>26, <1>27, <1>28, <1>29, <1>30, <1>31 DEF Next, Submission, Cancellation, Dispatch,
         Agent

\* A Host that is locked or quarantined stays so.
HostsKept == \A k \in Hosts : hstate[k] \in {"locked", "quarantined"} => hstate'[k] = hstate[k]

\* The records of a Run that nothing happened to still agree.
LEMMA RecordedKept ==
    ASSUME NEW s \in Runs, RecordedOf(s), HostsKept, phase' = phase,
           asg'[s] \in {asg[s], None}, home'[s] = home[s], place'[s] = place[s],
           intent'[s] \in {intent[s], None}, s \in queued' => s \in queued,
           s \in dispatching => s \in dispatching' \/ asg'[s] = None
    PROVE  RecordedOf(s)'
    BY NoneDiffers DEF RecordedOf, HostsKept

\* Every step keeps what markers and assignments say of the other records.
LEMMA RecordedStep ==
    ASSUME TypeOK, TypeOK', Route, AtRest, Entrance, Recorded, ClaimFresh, CanceledIsOut,
           OneRunPerHost, Next
    PROVE  Recorded'
<1> USE QueueAssumption, NoneDiffers
<1>1. ASSUME NEW r \in Runs, Submit(r) PROVE Recorded'
    BY <1>1 DEF TypeOK, Recorded, RecordedOf, Submit, Goes, Admitting, Intent, entries, hosts
<1>2. ASSUME NEW r \in Runs, Accept(r) PROVE Recorded'
    BY <1>2 DEF TypeOK, Recorded, RecordedOf, Accept, Goes, Intent, entries, hosts
<1>3. ASSUME NEW r \in Runs, MarkQueued(r) PROVE Recorded'
    BY <1>3 DEF TypeOK, Recorded, RecordedOf, MarkQueued, Goes, entries, hosts
<1>4. ASSUME NEW r \in Runs, Enqueue(r) PROVE Recorded'
    BY <1>4 DEF TypeOK, Recorded, RecordedOf, Enqueue, Intent, Goes, hosts
<1>5. ASSUME NEW r \in Runs, Look(r) PROVE Recorded'
    BY <1>5 DEF TypeOK, Recorded, RecordedOf, Look, Goes, entries, disk, hosts
<1>6. ASSUME NEW r \in Runs, Wake(r) PROVE Recorded'
    BY <1>6 DEF TypeOK, Recorded, RecordedOf, Wake, Goes, entries, disk, hosts
<1>7. ASSUME NEW r \in Runs, FirstLook(r) PROVE Recorded'
    <2>1. HostsKept
        BY <1>7 DEF FirstLook, ResetHost, TypeOK, HostsKept
    <2>2. place[r] = "chosen" /\ asg[r] = None /\ phase' = phase /\ intent' = intent
        BY <1>7 DEF FirstLook, Recorded, RecordedOf
    <2>3. at[r] \in Hosts /\ r \in dispatching
        BY <1>7 DEF FirstLook, TypeOK, Route, RouteOf, Heading
    <2>4. ASSUME NEW s \in Runs \ {r} PROVE RecordedOf(s)'
        <3>1. asg'[s] \in {asg[s], None} /\ home'[s] = home[s] /\ place'[s] = place[s]
            BY <1>7 DEF FirstLook, WriteMarker, Goes, TypeOK
        <3>2. (s \in queued' => s \in queued) /\ (s \in dispatching => s \in dispatching')
            BY <1>7 DEF FirstLook, ResetDispatch, entries
        <3> QED
            BY <2>1, <2>2, <3>1, <3>2, RecordedKept DEF Recorded
    <2>5. ASSUME asg'[r] = None PROVE RecordedOf(r)'
        BY <2>5, NoneDiffers DEF RecordedOf
    <2>6. ASSUME asg'[r] # None PROVE RecordedOf(r)'
        <3>1. asg'[r] = "marker" /\ home'[r] = at[r] /\ dispatching' = dispatching
            BY <2>2, <2>6, <1>7 DEF FirstLook, WriteMarker, entries, TypeOK
        <3>2. place'[r] \in {"marker", "failing"} /\ phase' = "up"
            BY <2>2, <2>6, <1>7 DEF FirstLook, Goes, TypeOK
        <3> QED
            BY <2>3, <3>1, <3>2 DEF RecordedOf
    <2> QED
        BY <2>4, <2>5, <2>6 DEF Recorded
<1>8. ASSUME NEW r \in Runs, Undo(r) PROVE Recorded'
    BY <1>8 DEF TypeOK, Recorded, RecordedOf, Undo, Goes, entries, disk
<1>9. ASSUME NEW r \in Runs, Reenter(r) PROVE Recorded'
    BY <1>9 DEF TypeOK, Recorded, RecordedOf, Reenter, Goes, Admitting, Intent, hosts
<1>10. ASSUME NEW r \in Runs, Readmit(r) PROVE Recorded'
    BY <1>10 DEF TypeOK, Recorded, RecordedOf, Readmit, Intent, Goes, entries, hosts
<1>11. ASSUME NEW r \in Runs, SecondLook(r) PROVE Recorded'
    <2>1. asg[r] = "marker" /\ place[r] = "marker"
        BY <1>11 DEF SecondLook, Route, RouteOf
    <2>2. HostsKept /\ UNCHANGED <<home, phase, intent, queued, dispatching, hstate>>
        BY <1>11 DEF SecondLook, entries, HostsKept
    <2>3. ASSUME NEW s \in Runs \ {r} PROVE RecordedOf(s)'
        <3>1. asg'[s] = asg[s] /\ place'[s] = place[s]
            BY <1>11 DEF SecondLook, Goes, TypeOK
        <3> QED
            BY <2>2, <3>1, RecordedKept DEF Recorded
    <2>4. asg'[r] \in {"marker", None} /\ (asg'[r] = "marker" => place'[r] = "failing")
        BY <2>1, <1>11, NoneDiffers DEF SecondLook, Goes, TypeOK
    <2>5. RecordedOf(r)'
        BY <2>1, <2>2, <2>4, NoneDiffers DEF Recorded, RecordedOf
    <2> QED
        BY <2>3, <2>5 DEF Recorded
<1>12. ASSUME NEW r \in Runs, Rollback(r) PROVE Recorded'
    <2>1. asg[r] = None
        BY <1>12 DEF Rollback, Recorded, RecordedOf
    <2>2. HostsKept
        BY <1>12 DEF Rollback, ResetHost, TypeOK, HostsKept
    <2>3. UNCHANGED <<home, phase, intent, asg, queued>>
        BY <1>12 DEF Rollback, ResetDispatch, entries, disk
    <2>4. ASSUME NEW s \in Runs \ {r} PROVE RecordedOf(s)'
        <3>1. place'[s] = place[s] /\ (s \in dispatching => s \in dispatching')
            BY <1>12 DEF Rollback, Goes, ResetDispatch, entries, TypeOK
        <3> QED
            BY <2>2, <2>3, <3>1, RecordedKept DEF Recorded
    <2>5. RecordedOf(r)'
        BY <2>1, <2>3, NoneDiffers DEF RecordedOf
    <2> QED
        BY <2>4, <2>5 DEF Recorded
<1>13. ASSUME NEW r \in Runs, Assign(r) PROVE Recorded'
    <2>1. /\ asg[r] = "marker" /\ home[r] = at[r] /\ at[r] \in Hosts /\ hstate[at[r]] = "reserving"
          /\ r \in dispatching
        BY <1>13 DEF Assign, Route, RouteOf, Heading, TypeOK
    <2>2. UNCHANGED <<home, phase>> /\ phase = "up" /\ place'[r] = "gone"
        BY <1>13 DEF Assign, Goes, TypeOK
    <2>3. HostsKept
        BY <2>1, <1>13 DEF Assign, HostsKept, TypeOK
    <2>4. ASSUME NEW s \in Runs \ {r} PROVE RecordedOf(s)'
        <3>1. asg'[s] = asg[s] /\ place'[s] = place[s] /\ intent'[s] = intent[s]
            BY <1>13 DEF Assign, Goes, Intent, TypeOK
        <3>2. (s \in queued' => s \in queued) /\ (s \in dispatching => s \in dispatching')
            BY <1>13 DEF Assign, Delete, entries
        <3> QED
            BY <2>2, <2>3, <3>1, <3>2, RecordedKept DEF Recorded
    <2>5. \/ /\ asg'[r] = "assigned" /\ hstate'[at[r]] = "locked"
             /\ r \notin queued' /\ intent'[r] = None
          \/ asg'[r] = "quarantined" /\ hstate'[at[r]] = "quarantined" /\ r \notin queued'
          \/ asg'[r] = "marker" /\ (r \in queued' => r \in dispatching')
        BY <2>1, <1>13 DEF Assign, Delete, Intent, entries, TypeOK
    <2>6. RecordedOf(r)'
        BY <2>1, <2>2, <2>5, NoneDiffers DEF RecordedOf
    <2> QED
        BY <2>4, <2>6 DEF Recorded
<1>14. ASSUME NEW r \in Runs, RecordFailure(r) PROVE Recorded'
    BY <1>14 DEF TypeOK, Recorded, RecordedOf, RecordFailure, Goes, entries
<1>15. ASSUME NEW r \in Runs, RemoveFailed(r) PROVE Recorded'
    BY <1>15 DEF TypeOK, Recorded, RecordedOf, RemoveFailed, Goes, Intent, Delete, hosts
<1>16. ASSUME NEW r \in Runs, Cancel(r) PROVE Recorded'
    BY <1>16 DEF TypeOK, Recorded, RecordedOf, Cancel, Cancelable, Intent, Fault, waiters,
         scheduler, hosts
<1>17. ASSUME NEW r \in Runs, CancelPrepare(r) PROVE Recorded'
    BY <1>17 DEF TypeOK, Recorded, RecordedOf, CancelPrepare, Ending, entries, hosts
<1>18. ASSUME NEW r \in Runs, CancelCleanup(r) PROVE Recorded'
    BY <1>18 DEF TypeOK, Recorded, RecordedOf, CancelCleanup, entries, hosts
<1>19. ASSUME NEW r \in Runs, CancelRemove(r) PROVE Recorded'
    BY <1>19 DEF TypeOK, Recorded, RecordedOf, CancelRemove, Intent, Delete, entries, hosts
<1>20. ASSUME NEW r \in Runs, Complete(r) PROVE Recorded'
    <2>1. /\ asg[r] = "assigned" /\ home[r] \in Hosts /\ hstate[home[r]] = "locked"
          /\ place[r] = "gone" /\ r \notin queued /\ intent[r] = None
        BY <1>20 DEF Complete, Recorded, RecordedOf
    <2>2. UNCHANGED <<home, phase, place, intent, queued, dispatching>> /\ asg'[r] = "completed"
        BY <1>20 DEF Complete, entries, waiters, TypeOK
    <2>3. \A k \in Hosts \ {home[r]} : hstate'[k] = hstate[k]
        BY <1>20 DEF Complete, TypeOK
    <2>4. ASSUME NEW s \in Runs \ {r} PROVE RecordedOf(s)'
        <3>1. asg'[s] = asg[s]
            BY <1>20 DEF Complete, TypeOK
        <3>2. asg[s] \in {"assigned", "quarantined"} => home[s] # home[r]
            BY <2>1 DEF OneRunPerHost, Recorded, RecordedOf
        <3> QED
            BY <2>2, <2>3, <3>1, <3>2 DEF Recorded, RecordedOf
    <2>5. RecordedOf(r)'
        BY <2>1, <2>2 DEF RecordedOf
    <2> QED
        BY <2>4, <2>5 DEF Recorded
<1>21. ASSUME NEW r \in Runs, Load(r) PROVE Recorded'
    <2>1. /\ asg[r] \in {None, "quarantined", "assigned"}
          /\ UNCHANGED <<asg, home, place, hstate, dispatching>>
        BY <1>21 DEF Load, TypeOK, AtRest, Recorded, RecordedOf, waiters, hosts
    <2>2. phase = "loading" /\ phase' \in {"loading", "refused"}
        BY <1>21 DEF Load, Drop, LoadCanceling, Refuse
    <2>3. ASSUME NEW s \in Runs \ {r} PROVE RecordedOf(s)'
        <3>1. intent'[s] = intent[s]
            BY <1>21 DEF Load, Drop, LoadCanceling, Refuse, Intent, TypeOK
        <3>2. s \in queued' => s \in queued
            BY <1>21 DEF Load, Drop, LoadCanceling, Refuse
        <3> QED
            BY <2>1, <2>2, <3>1, <3>2 DEF Recorded, RecordedOf
    <2>4. ASSUME asg[r] = None PROVE RecordedOf(r)'
        BY <2>1, <2>4, NoneDiffers DEF RecordedOf
    <2>5. ASSUME asg[r] # None PROVE RecordedOf(r)'
        <3>1. queued' = queued /\ intent'[r] = None
            BY <2>1, <2>5, <1>21 DEF Load, Drop, Intent, TypeOK
        <3> QED
            BY <2>1, <2>2, <3>1 DEF Recorded, RecordedOf
    <2> QED
        BY <2>3, <2>4, <2>5 DEF Recorded
<1>22. ASSUME NEW h \in Hosts, LeaseExpires(h) PROVE Recorded'
    BY <1>22 DEF TypeOK, Recorded, RecordedOf, LeaseExpires, entries, waiters, disk
<1>23. ASSUME NEW h \in Hosts, Register(h) PROVE Recorded'
    BY <1>23 DEF TypeOK, Recorded, RecordedOf, Register, entries, waiters, disk
<1>24. ASSUME NEW h \in Hosts, HeartbeatExpired(h) PROVE Recorded'
    BY <1>24 DEF TypeOK, Recorded, RecordedOf, HeartbeatExpired, entries, waiters, disk
<1>25. CASE BeginCycle
    <2>1. HostsKept
        BY <1>25, ZenonT(40) DEF BeginCycle, HostsKept, TypeOK
    <2>2. UNCHANGED <<home, phase, intent, asg, place, queued, dispatching>>
        BY <1>25 DEF BeginCycle, waiters, disk
    <2> QED
        BY <2>1, <2>2, RecordedKept DEF Recorded
<1>26. CASE Visit
    <2>1. Min(visit) \in Hosts
        BY <1>26, MinIn DEF Visit, TypeOK
    <2>2. HostsKept
        BY <2>1, <1>26 DEF Visit, HostsKept, TypeOK
    <2>3. UNCHANGED <<home, phase, intent, asg, place, queued>> /\ dispatching \subseteq dispatching'
        BY <1>26 DEF Visit, waiters, disk
    <2> QED
        BY <2>2, <2>3, RecordedKept DEF Recorded
<1>27. CASE Claimed
    <2>1. PICK r \in Runs, h \in Hosts : claim = <<r, h>>
        BY <1>27, ClaimPair DEF Claimed
    <2>2. HostsKept
        BY <2>1, <1>27, ZenonT(40) DEF Claimed, ResetHost, HostsKept, TypeOK
    <2>3. UNCHANGED <<home, phase, intent, asg, place, queued>>
        BY <1>27 DEF Claimed, disk
    <2>4. asg[r] = None /\ dispatching \ {r} \subseteq dispatching'
        BY <2>1, <1>27 DEF Claimed, ClaimFresh
    <2> QED
        BY <2>2, <2>3, <2>4, RecordedKept DEF Recorded
<1>28. CASE EndCycle
    BY <1>28 DEF TypeOK, Recorded, RecordedOf, EndCycle, disk, hosts
<1>29. CASE Stop
    BY <1>29 DEF TypeOK, Recorded, RecordedOf, Stop
<1>30. CASE Start
    <2>1. /\ UNCHANGED <<home, intent, place, queued, dispatching>>
          /\ phase = "down" /\ phase' = "loading"
        BY <1>30 DEF Start, waiters, entries
    <2>2. \A s \in Runs : asg'[s] = IF asg[s] = "marker" THEN "quarantined" ELSE asg[s]
        BY <1>30 DEF Start
    <2>3. \A s \in Runs : asg[s] \in {"marker", "quarantined"} => hstate'[home[s]] = "quarantined"
        BY <1>30 DEF Start, Recorded, RecordedOf
    <2>4. \A s \in Runs : asg[s] = "assigned" => hstate'[home[s]] = "locked"
        BY <1>30 DEF Start, Recorded, RecordedOf, OneRunPerHost
    <2>5. queued = {} /\ \A s \in Runs : place[s] \in {"new", "gone"}
        BY <2>1 DEF AtRest
    <2>6. ASSUME NEW s \in Runs PROVE RecordedOf(s)'
        <3>1. RecordedOf(s)
            BY DEF Recorded
        <3>2. CASE asg[s] = None
            BY <2>2, <3>2, NoneDiffers DEF RecordedOf
        <3>3. CASE asg[s] # None
            <4>1. place'[s] = "gone" /\ s \notin queued'
                BY <2>1, <2>5, <3>1, <3>3 DEF RecordedOf
            <4>2. asg'[s] = IF asg[s] = "marker" THEN "quarantined" ELSE asg[s]
                BY <2>2
            <4> QED
                BY <2>1, <2>3, <2>4, <3>1, <4>1, <4>2 DEF RecordedOf
        <3> QED
            BY <3>2, <3>3
    <2> QED
        BY <2>6 DEF Recorded
<1>31. CASE Resume
    BY <1>31 DEF TypeOK, Recorded, RecordedOf, Resume, Waiting, entries, scheduler, disk, hosts,
         bounds
<1> QED
        BY <1>1, <1>2, <1>3, <1>4, <1>5, <1>6, <1>7, <1>8, <1>9, <1>10, <1>11, <1>12, <1>13,
         <1>14, <1>15, <1>16, <1>17, <1>18, <1>19, <1>20, <1>21, <1>22, <1>23, <1>24, <1>25,
         <1>26, <1>27, <1>28, <1>29, <1>30, <1>31 DEF Next, Submission, Cancellation, Dispatch,
         Agent

\* The Run being claimed stays without a Host and without an assignment.
LEMMA ClaimFreshStep ==
    ASSUME TypeOK, TypeOK', Route, AtRest, Entrance, Recorded, ClaimFresh, CanceledIsOut, Next
    PROVE  ClaimFresh'
<1> USE QueueAssumption, NoneAssumption
<1>1. ASSUME NEW r \in Runs, Submit(r) PROVE ClaimFresh'
    BY <1>1 DEF TypeOK, ClaimFresh, Submit, entries, scheduler
<1>2. ASSUME NEW r \in Runs, Accept(r) PROVE ClaimFresh'
    BY <1>2 DEF TypeOK, ClaimFresh, Accept, entries, scheduler
<1>3. ASSUME NEW r \in Runs, MarkQueued(r) PROVE ClaimFresh'
    BY <1>3 DEF TypeOK, ClaimFresh, MarkQueued, entries, scheduler
<1>4. ASSUME NEW r \in Runs, Enqueue(r) PROVE ClaimFresh'
    BY <1>4 DEF TypeOK, ClaimFresh, Enqueue, scheduler
<1>5. ASSUME NEW r \in Runs, Look(r) PROVE ClaimFresh'
    BY <1>5 DEF TypeOK, ClaimFresh, Look, entries, disk
<1>6. ASSUME NEW r \in Runs, Wake(r) PROVE ClaimFresh'
    BY <1>6 DEF TypeOK, ClaimFresh, Wake, entries, scheduler, disk
<1>7. ASSUME NEW r \in Runs, FirstLook(r) PROVE ClaimFresh'
    BY <1>7 DEF TypeOK, ClaimFresh, FirstLook, WriteMarker, entries, ResetDispatch, scheduler,
         Route, RouteOf, Heading
<1>8. ASSUME NEW r \in Runs, Undo(r) PROVE ClaimFresh'
    BY <1>8 DEF TypeOK, ClaimFresh, Undo, entries, scheduler, disk
<1>9. ASSUME NEW r \in Runs, Reenter(r) PROVE ClaimFresh'
    BY <1>9 DEF TypeOK, ClaimFresh, Reenter, scheduler
<1>10. ASSUME NEW r \in Runs, Readmit(r) PROVE ClaimFresh'
    BY <1>10 DEF TypeOK, ClaimFresh, Readmit, entries, scheduler
<1>11. ASSUME NEW r \in Runs, SecondLook(r) PROVE ClaimFresh'
    BY <1>11 DEF TypeOK, ClaimFresh, SecondLook, entries, scheduler, Route, RouteOf, Heading
<1>12. ASSUME NEW r \in Runs, Rollback(r) PROVE ClaimFresh'
    BY <1>12 DEF TypeOK, ClaimFresh, Rollback, ResetDispatch, entries, scheduler, disk, Route,
         RouteOf, Heading
<1>13. ASSUME NEW r \in Runs, Assign(r) PROVE ClaimFresh'
    BY <1>13 DEF TypeOK, ClaimFresh, Assign, Delete, entries, scheduler, Route, RouteOf, Heading
<1>14. ASSUME NEW r \in Runs, RecordFailure(r) PROVE ClaimFresh'
    BY <1>14 DEF TypeOK, ClaimFresh, RecordFailure, entries, scheduler
<1>15. ASSUME NEW r \in Runs, RemoveFailed(r) PROVE ClaimFresh'
    BY <1>15 DEF TypeOK, ClaimFresh, RemoveFailed, Delete, scheduler
<1>16. ASSUME NEW r \in Runs, Cancel(r) PROVE ClaimFresh'
    BY <1>16 DEF TypeOK, ClaimFresh, Cancel, scheduler
<1>17. ASSUME NEW r \in Runs, CancelPrepare(r) PROVE ClaimFresh'
    BY <1>17 DEF TypeOK, ClaimFresh, CancelPrepare, Ending, entries, scheduler
<1>18. ASSUME NEW r \in Runs, CancelCleanup(r) PROVE ClaimFresh'
    BY <1>18 DEF TypeOK, ClaimFresh, CancelCleanup, entries, scheduler
<1>19. ASSUME NEW r \in Runs, CancelRemove(r) PROVE ClaimFresh'
    BY <1>19 DEF TypeOK, ClaimFresh, CancelRemove, Delete, entries, scheduler
<1>20. ASSUME NEW r \in Runs, Complete(r) PROVE ClaimFresh'
    BY <1>20 DEF TypeOK, ClaimFresh, Complete, entries, scheduler
<1>21. ASSUME NEW r \in Runs, Load(r) PROVE ClaimFresh'
    BY <1>21 DEF TypeOK, ClaimFresh, Load, Ending, scheduler
<1>22. ASSUME NEW h \in Hosts, LeaseExpires(h) PROVE ClaimFresh'
    BY <1>22 DEF TypeOK, ClaimFresh, LeaseExpires, entries, scheduler, disk
<1>23. ASSUME NEW h \in Hosts, Register(h) PROVE ClaimFresh'
    BY <1>23 DEF TypeOK, ClaimFresh, Register, entries, scheduler, disk
<1>24. ASSUME NEW h \in Hosts, HeartbeatExpired(h) PROVE ClaimFresh'
    BY <1>24 DEF TypeOK, ClaimFresh, HeartbeatExpired, entries, scheduler, disk
<1>25. CASE BeginCycle
    BY <1>25 DEF TypeOK, ClaimFresh, BeginCycle, disk
<1>26. CASE Visit
    BY <1>26, MinIn DEF TypeOK, ClaimFresh, Visit, Candidates, Earlier, waiters, disk, bounds,
         Recorded, RecordedOf
<1>27. CASE Claimed
    BY <1>27 DEF TypeOK, ClaimFresh, Claimed, Select, disk
<1>28. CASE EndCycle
    BY <1>28 DEF TypeOK, ClaimFresh, EndCycle, disk
<1>29. CASE Stop
    BY <1>29 DEF TypeOK, ClaimFresh, Stop
<1>30. CASE Start
    BY <1>30 DEF TypeOK, ClaimFresh, Start, entries, scheduler
<1>31. CASE Resume
    BY <1>31 DEF TypeOK, ClaimFresh, Resume, entries, scheduler, disk
<1> QED
        BY <1>1, <1>2, <1>3, <1>4, <1>5, <1>6, <1>7, <1>8, <1>9, <1>10, <1>11, <1>12, <1>13,
         <1>14, <1>15, <1>16, <1>17, <1>18, <1>19, <1>20, <1>21, <1>22, <1>23, <1>24, <1>25,
         <1>26, <1>27, <1>28, <1>29, <1>30, <1>31 DEF Next, Submission, Cancellation, Dispatch,
         Agent

\* Every step keeps a Run whose cancellation has begun out of dispatch.
LEMMA CanceledIsOutStep ==
    ASSUME TypeOK, TypeOK', Route, AtRest, Entrance, Recorded, ClaimFresh, CanceledIsOut, Next
    PROVE  CanceledIsOut'
<1> USE QueueAssumption, NoneAssumption
<1>1. ASSUME NEW r \in Runs, Submit(r) PROVE CanceledIsOut'
    BY <1>1 DEF TypeOK, CanceledIsOut, Heading, Coming, Ending, Submit, Goes, Ledger, entries
<1>2. ASSUME NEW r \in Runs, Accept(r) PROVE CanceledIsOut'
    BY <1>2 DEF TypeOK, CanceledIsOut, Heading, Coming, Ending, Accept, Goes, Ledger, entries
<1>3. ASSUME NEW r \in Runs, MarkQueued(r) PROVE CanceledIsOut'
    BY <1>3 DEF TypeOK, CanceledIsOut, Heading, Coming, Ending, MarkQueued, Goes, Ledger, entries
<1>4. ASSUME NEW r \in Runs, Enqueue(r) PROVE CanceledIsOut'
    BY <1>4 DEF TypeOK, CanceledIsOut, Heading, Coming, Ending, Enqueue, Goes
<1>5. ASSUME NEW r \in Runs, Look(r) PROVE CanceledIsOut'
    BY <1>5 DEF TypeOK, CanceledIsOut, Heading, Coming, Ending, Look, Goes, entries, disk
<1>6. ASSUME NEW r \in Runs, Wake(r) PROVE CanceledIsOut'
    BY <1>6 DEF TypeOK, CanceledIsOut, Heading, Coming, Ending, Wake, Goes, entries, disk
<1>7. ASSUME NEW r \in Runs, FirstLook(r) PROVE CanceledIsOut'
    BY <1>7 DEF TypeOK, CanceledIsOut, Heading, Coming, Ending, FirstLook, WriteMarker, Goes,
         entries, ResetDispatch
<1>8. ASSUME NEW r \in Runs, Undo(r) PROVE CanceledIsOut'
    BY <1>8 DEF TypeOK, CanceledIsOut, Heading, Coming, Ending, Undo, Goes, entries, disk
<1>9. ASSUME NEW r \in Runs, Reenter(r) PROVE CanceledIsOut'
    BY <1>9 DEF TypeOK, CanceledIsOut, Heading, Coming, Ending, Reenter, Goes
<1>10. ASSUME NEW r \in Runs, Readmit(r) PROVE CanceledIsOut'
    BY <1>10 DEF TypeOK, CanceledIsOut, Heading, Coming, Ending, Readmit, Goes, entries
<1>11. ASSUME NEW r \in Runs, SecondLook(r) PROVE CanceledIsOut'
    BY <1>11 DEF TypeOK, CanceledIsOut, Heading, Coming, Ending, SecondLook, Goes, entries
<1>12. ASSUME NEW r \in Runs, Rollback(r) PROVE CanceledIsOut'
    BY <1>12 DEF TypeOK, CanceledIsOut, Heading, Coming, Ending, Rollback, ResetDispatch, Goes,
         entries, disk
<1>13. ASSUME NEW r \in Runs, Assign(r) PROVE CanceledIsOut'
    BY <1>13 DEF TypeOK, CanceledIsOut, Heading, Coming, Ending, Assign, Goes, Ledger, Delete,
         entries
<1>14. ASSUME NEW r \in Runs, RecordFailure(r) PROVE CanceledIsOut'
    BY <1>14 DEF TypeOK, CanceledIsOut, Heading, Coming, Ending, RecordFailure, Ledger, Goes,
         entries
<1>15. ASSUME NEW r \in Runs, RemoveFailed(r) PROVE CanceledIsOut'
    BY <1>15 DEF TypeOK, CanceledIsOut, Heading, Coming, Ending, RemoveFailed, Goes, Delete
<1>16. ASSUME NEW r \in Runs, Cancel(r) PROVE CanceledIsOut'
    BY <1>16 DEF TypeOK, CanceledIsOut, Heading, Coming, Ending, Cancel, Cancelable, Intent,
         Fault, waiters, scheduler, hosts, Entrance, Recorded, RecordedOf, Route, RouteOf
<1>17. ASSUME NEW r \in Runs, CancelPrepare(r) PROVE CanceledIsOut'
    BY <1>17 DEF TypeOK, CanceledIsOut, Heading, Coming, Ending, CancelPrepare, Ledger,
         CancelFails, entries
<1>18. ASSUME NEW r \in Runs, CancelCleanup(r) PROVE CanceledIsOut'
    BY <1>18 DEF TypeOK, CanceledIsOut, Heading, Coming, Ending, CancelCleanup, Ledger,
         CancelFails, entries
<1>19. ASSUME NEW r \in Runs, CancelRemove(r) PROVE CanceledIsOut'
    BY <1>19 DEF TypeOK, CanceledIsOut, Heading, Coming, Ending, CancelRemove, Delete, entries
<1>20. ASSUME NEW r \in Runs, Complete(r) PROVE CanceledIsOut'
    BY <1>20 DEF TypeOK, CanceledIsOut, Heading, Coming, Ending, Complete, Ledger, entries,
         waiters
<1>21. ASSUME NEW r \in Runs, Load(r) PROVE CanceledIsOut'
    <2>1. /\ asg[r] \in {None, "quarantined", "assigned"} /\ selected[r] = None
          /\ place[r] \in {"new", "gone"} /\ place[r] # "new"
        BY <1>21 DEF Load, TypeOK, AtRest, Recorded, RecordedOf, Entrance
    <2>2. UNCHANGED <<asg, place, selected, cancelStep>>
        BY <1>21 DEF Load, waiters
    <2>3. ASSUME NEW s \in Runs \ {r}
          PROVE  ledger'[s] = ledger[s] /\ (s \in queued' => s \in queued) /\ (s \in canceled => s \in canceled')
        BY <1>21 DEF Load, Drop, LoadCanceling, Refuse, Ledger, TypeOK
    <2>4. ledger'[r] \in Ending /\ r \in queued' => r \in canceled'
        BY <1>21 DEF Load, Drop, LoadCanceling, Refuse, Ledger, Ending, Terminal, TypeOK, AtRest
    <2>5. ledger'[r] \in Ending => asg[r] = None
        BY <2>1, <1>21 DEF Load, Drop, LoadCanceling, Refuse, Ledger, Ending, CanceledIsOut
    <2>6. cancelStep[r] = None
        BY <1>21 DEF Load, AtRest
    <2> QED
        BY <2>1, <2>2, <2>3, <2>4, <2>5, <2>6 DEF CanceledIsOut, Heading, Coming
<1>22. ASSUME NEW h \in Hosts, LeaseExpires(h) PROVE CanceledIsOut'
    BY <1>22 DEF TypeOK, CanceledIsOut, Heading, Coming, Ending, LeaseExpires, entries, waiters,
         disk
<1>23. ASSUME NEW h \in Hosts, Register(h) PROVE CanceledIsOut'
    BY <1>23 DEF TypeOK, CanceledIsOut, Heading, Coming, Ending, Register, entries, waiters, disk
<1>24. ASSUME NEW h \in Hosts, HeartbeatExpired(h) PROVE CanceledIsOut'
    BY <1>24 DEF TypeOK, CanceledIsOut, Heading, Coming, Ending, HeartbeatExpired, entries,
         waiters, disk
<1>25. CASE BeginCycle
    BY <1>25 DEF TypeOK, CanceledIsOut, Heading, Coming, Ending, BeginCycle, waiters, disk
<1>26. CASE Visit
    BY <1>26, MinIn DEF TypeOK, CanceledIsOut, Heading, Coming, Ending, Visit, waiters, disk
<1>27. CASE Claimed
    BY <1>27 DEF TypeOK, CanceledIsOut, Heading, Coming, Ending, Claimed, Select, disk
<1>28. CASE EndCycle
    BY <1>28 DEF TypeOK, CanceledIsOut, Heading, Coming, Ending, EndCycle, disk
<1>29. CASE Stop
    BY <1>29 DEF TypeOK, CanceledIsOut, Heading, Coming, Ending, Stop, Ledger
<1>30. CASE Start
    BY <1>30 DEF TypeOK, CanceledIsOut, Heading, Coming, Ending, Start, entries, waiters
<1>31. CASE Resume
    BY <1>31 DEF TypeOK, CanceledIsOut, Heading, Coming, Ending, Resume, entries, disk
<1> QED
        BY <1>1, <1>2, <1>3, <1>4, <1>5, <1>6, <1>7, <1>8, <1>9, <1>10, <1>11, <1>12, <1>13,
         <1>14, <1>15, <1>16, <1>17, <1>18, <1>19, <1>20, <1>21, <1>22, <1>23, <1>24, <1>25,
         <1>26, <1>27, <1>28, <1>29, <1>30, <1>31 DEF Next, Submission, Cancellation, Dispatch,
         Agent

\* Every step keeps the Hosts of markers and assignments apart.
LEMMA OneRunPerHostStep ==
    ASSUME TypeOK, TypeOK', Route, AtRest, Entrance, Recorded, ClaimFresh, CanceledIsOut,
           OneRunPerHost, Next
    PROVE  OneRunPerHost'
<1> USE QueueAssumption, NoneAssumption
<1>1. ASSUME NEW r \in Runs, Submit(r) PROVE OneRunPerHost'
    BY <1>1 DEF OneRunPerHost, Submit
<1>2. ASSUME NEW r \in Runs, Accept(r) PROVE OneRunPerHost'
    BY <1>2 DEF OneRunPerHost, Accept
<1>3. ASSUME NEW r \in Runs, MarkQueued(r) PROVE OneRunPerHost'
    BY <1>3 DEF OneRunPerHost, MarkQueued
<1>4. ASSUME NEW r \in Runs, Enqueue(r) PROVE OneRunPerHost'
    BY <1>4 DEF OneRunPerHost, Enqueue
<1>5. ASSUME NEW r \in Runs, Look(r) PROVE OneRunPerHost'
    BY <1>5 DEF OneRunPerHost, Look, disk
<1>6. ASSUME NEW r \in Runs, Wake(r) PROVE OneRunPerHost'
    BY <1>6 DEF OneRunPerHost, Wake, disk
<1>7. ASSUME NEW r \in Runs, FirstLook(r) PROVE OneRunPerHost'
    BY <1>7 DEF TypeOK, OneRunPerHost, FirstLook, WriteMarker, Recorded, RecordedOf
<1>8. ASSUME NEW r \in Runs, Undo(r) PROVE OneRunPerHost'
    BY <1>8 DEF OneRunPerHost, Undo, disk
<1>9. ASSUME NEW r \in Runs, Reenter(r) PROVE OneRunPerHost'
    BY <1>9 DEF OneRunPerHost, Reenter
<1>10. ASSUME NEW r \in Runs, Readmit(r) PROVE OneRunPerHost'
    BY <1>10 DEF OneRunPerHost, Readmit
<1>11. ASSUME NEW r \in Runs, SecondLook(r) PROVE OneRunPerHost'
    BY <1>11 DEF TypeOK, OneRunPerHost, SecondLook
<1>12. ASSUME NEW r \in Runs, Rollback(r) PROVE OneRunPerHost'
    BY <1>12 DEF OneRunPerHost, Rollback, disk
<1>13. ASSUME NEW r \in Runs, Assign(r) PROVE OneRunPerHost'
    BY <1>13 DEF TypeOK, OneRunPerHost, Assign, Route, RouteOf
<1>14. ASSUME NEW r \in Runs, RecordFailure(r) PROVE OneRunPerHost'
    BY <1>14 DEF OneRunPerHost, RecordFailure
<1>15. ASSUME NEW r \in Runs, RemoveFailed(r) PROVE OneRunPerHost'
    BY <1>15 DEF OneRunPerHost, RemoveFailed
<1>16. ASSUME NEW r \in Runs, Cancel(r) PROVE OneRunPerHost'
    BY <1>16 DEF OneRunPerHost, Cancel
<1>17. ASSUME NEW r \in Runs, CancelPrepare(r) PROVE OneRunPerHost'
    BY <1>17 DEF OneRunPerHost, CancelPrepare, Ending
<1>18. ASSUME NEW r \in Runs, CancelCleanup(r) PROVE OneRunPerHost'
    BY <1>18 DEF OneRunPerHost, CancelCleanup
<1>19. ASSUME NEW r \in Runs, CancelRemove(r) PROVE OneRunPerHost'
    BY <1>19 DEF OneRunPerHost, CancelRemove
<1>20. ASSUME NEW r \in Runs, Complete(r) PROVE OneRunPerHost'
    BY <1>20 DEF TypeOK, OneRunPerHost, Complete
<1>21. ASSUME NEW r \in Runs, Load(r) PROVE OneRunPerHost'
    BY <1>21 DEF OneRunPerHost, Load, Ending
<1>22. ASSUME NEW h \in Hosts, LeaseExpires(h) PROVE OneRunPerHost'
    BY <1>22 DEF OneRunPerHost, LeaseExpires, disk
<1>23. ASSUME NEW h \in Hosts, Register(h) PROVE OneRunPerHost'
    BY <1>23 DEF OneRunPerHost, Register, disk
<1>24. ASSUME NEW h \in Hosts, HeartbeatExpired(h) PROVE OneRunPerHost'
    BY <1>24 DEF OneRunPerHost, HeartbeatExpired, disk
<1>25. CASE BeginCycle
    BY <1>25 DEF OneRunPerHost, BeginCycle, disk
<1>26. CASE Visit
    BY <1>26 DEF OneRunPerHost, Visit, disk
<1>27. CASE Claimed
    BY <1>27 DEF OneRunPerHost, Claimed, disk
<1>28. CASE EndCycle
    BY <1>28 DEF OneRunPerHost, EndCycle, disk
<1>29. CASE Stop
    BY <1>29 DEF OneRunPerHost, Stop
<1>30. CASE Start
    BY <1>30 DEF TypeOK, OneRunPerHost, Start
<1>31. CASE Resume
    BY <1>31 DEF OneRunPerHost, Resume, disk
<1> QED
        BY <1>1, <1>2, <1>3, <1>4, <1>5, <1>6, <1>7, <1>8, <1>9, <1>10, <1>11, <1>12, <1>13,
         <1>14, <1>15, <1>16, <1>17, <1>18, <1>19, <1>20, <1>21, <1>22, <1>23, <1>24, <1>25,
         <1>26, <1>27, <1>28, <1>29, <1>30, <1>31 DEF Next, Submission, Cancellation, Dispatch,
         Agent

\* Every step keeps the order of acceptance.
LEMMA TimeStep ==
    ASSUME TypeOK, TypeOK', Entrance, Time, Next PROVE Time'
<1> USE QueueAssumption, NoneAssumption
<1>1. ASSUME NEW r \in Runs, Submit(r) PROVE Time'
    BY <1>1 DEF TypeOK, Time, Submit, Goes
<1>2. ASSUME NEW r \in Runs, Accept(r) PROVE Time'
    BY <1>2 DEF TypeOK, Time, Accept, Goes, Entrance, Inside
<1>3. ASSUME NEW r \in Runs, MarkQueued(r) PROVE Time'
    BY <1>3 DEF TypeOK, Time, MarkQueued, Goes
<1>4. ASSUME NEW r \in Runs, Enqueue(r) PROVE Time'
    BY <1>4 DEF TypeOK, Time, Enqueue, Goes
<1>5. ASSUME NEW r \in Runs, Look(r) PROVE Time'
    BY <1>5 DEF TypeOK, Time, Look, Goes, disk, bounds
<1>6. ASSUME NEW r \in Runs, Wake(r) PROVE Time'
    BY <1>6 DEF TypeOK, Time, Wake, Goes, disk, bounds
<1>7. ASSUME NEW r \in Runs, FirstLook(r) PROVE Time'
    BY <1>7 DEF TypeOK, Time, FirstLook, Goes
<1>8. ASSUME NEW r \in Runs, Undo(r) PROVE Time'
    BY <1>8 DEF TypeOK, Time, Undo, Goes, disk
<1>9. ASSUME NEW r \in Runs, Reenter(r) PROVE Time'
    BY <1>9 DEF TypeOK, Time, Reenter, Goes
<1>10. ASSUME NEW r \in Runs, Readmit(r) PROVE Time'
    BY <1>10 DEF TypeOK, Time, Readmit, Goes, bounds
<1>11. ASSUME NEW r \in Runs, SecondLook(r) PROVE Time'
    BY <1>11 DEF TypeOK, Time, SecondLook, Goes
<1>12. ASSUME NEW r \in Runs, Rollback(r) PROVE Time'
    BY <1>12 DEF TypeOK, Time, Rollback, Goes, disk, bounds
<1>13. ASSUME NEW r \in Runs, Assign(r) PROVE Time'
    BY <1>13 DEF TypeOK, Time, Assign, Goes
<1>14. ASSUME NEW r \in Runs, RecordFailure(r) PROVE Time'
    BY <1>14 DEF TypeOK, Time, RecordFailure, Goes
<1>15. ASSUME NEW r \in Runs, RemoveFailed(r) PROVE Time'
    BY <1>15 DEF TypeOK, Time, RemoveFailed, Goes
<1>16. ASSUME NEW r \in Runs, Cancel(r) PROVE Time'
    BY <1>16 DEF TypeOK, Time, Cancel, waiters
<1>17. ASSUME NEW r \in Runs, CancelPrepare(r) PROVE Time'
    BY <1>17 DEF TypeOK, Time, CancelPrepare, Ending
<1>18. ASSUME NEW r \in Runs, CancelCleanup(r) PROVE Time'
    BY <1>18 DEF TypeOK, Time, CancelCleanup
<1>19. ASSUME NEW r \in Runs, CancelRemove(r) PROVE Time'
    BY <1>19 DEF TypeOK, Time, CancelRemove
<1>20. ASSUME NEW r \in Runs, Complete(r) PROVE Time'
    BY <1>20 DEF TypeOK, Time, Complete, waiters, bounds
<1>21. ASSUME NEW r \in Runs, Load(r) PROVE Time'
    BY <1>21 DEF TypeOK, Time, Load, Ending, waiters
<1>22. ASSUME NEW h \in Hosts, LeaseExpires(h) PROVE Time'
    BY <1>22 DEF TypeOK, Time, LeaseExpires, waiters, disk
<1>23. ASSUME NEW h \in Hosts, Register(h) PROVE Time'
    BY <1>23 DEF TypeOK, Time, Register, waiters, disk, bounds
<1>24. ASSUME NEW h \in Hosts, HeartbeatExpired(h) PROVE Time'
    BY <1>24 DEF TypeOK, Time, HeartbeatExpired, waiters, disk, bounds
<1>25. CASE BeginCycle
    BY <1>25 DEF TypeOK, Time, BeginCycle, waiters, disk, bounds
<1>26. CASE Visit
    BY <1>26, MinIn DEF TypeOK, Time, Visit, waiters, disk, bounds
<1>27. CASE Claimed
    BY <1>27 DEF TypeOK, Time, Claimed, disk
<1>28. CASE EndCycle
    BY <1>28 DEF TypeOK, Time, EndCycle, disk, bounds
<1>29. CASE Stop
    BY <1>29 DEF TypeOK, Time, Stop
<1>30. CASE Start
    BY <1>30 DEF TypeOK, Time, Start, waiters, bounds
<1>31. CASE Resume
    BY <1>31 DEF TypeOK, Time, Resume, disk, bounds
<1> QED
        BY <1>1, <1>2, <1>3, <1>4, <1>5, <1>6, <1>7, <1>8, <1>9, <1>10, <1>11, <1>12, <1>13,
         <1>14, <1>15, <1>16, <1>17, <1>18, <1>19, <1>20, <1>21, <1>22, <1>23, <1>24, <1>25,
         <1>26, <1>27, <1>28, <1>29, <1>30, <1>31 DEF Next, Submission, Cancellation, Dispatch,
         Agent


\* A queue that does not grow stays within its capacity.
LEMMA CapacityKept ==
    ASSUME Capacity, Waiting' \subseteq Waiting, admitter' \in {None, admitter}
    PROVE  Capacity'
<1>1. IsFiniteSet(Waiting') /\ Cardinality(Waiting') <= Cardinality(Waiting)
    BY FS_Subset DEF Capacity
<1>2. Cardinality(Waiting) \in Nat /\ Cardinality(Waiting') \in Nat
    BY <1>1, FS_CardinalityType DEF Capacity
<1> QED
    BY <1>1, <1>2, QueueAssumption DEF Capacity, WithinCapacity

\* A Run enters a queue that has a place for it: the one admission kept, or one
\* that is free.
LEMMA CapacityAdded ==
    ASSUME NEW r \in Runs, Capacity, Waiting' \subseteq Waiting \cup {r}, admitter' = None,
           admitter = r \/ (admitter = None /\ ~Full)
    PROVE  Capacity'
<1>1. /\ IsFiniteSet(Waiting \cup {r})
      /\ Cardinality(Waiting \cup {r}) <= Cardinality(Waiting) + 1
    <2>1. IsFiniteSet(Waiting) /\ Cardinality(Waiting) \in Nat
        BY FS_CardinalityType DEF Capacity
    <2>2. /\ IsFiniteSet(Waiting \cup {r})
          /\ Cardinality(Waiting \cup {r}) =
                IF r \in Waiting THEN Cardinality(Waiting) ELSE Cardinality(Waiting) + 1
        BY <2>1, FS_AddElement
    <2> QED
        BY <2>1, <2>2
<1>2. IsFiniteSet(Waiting') /\ Cardinality(Waiting') <= Cardinality(Waiting \cup {r})
    BY <1>1, FS_Subset
<1>3. /\ Cardinality(Waiting) \in Nat /\ Cardinality(Waiting') \in Nat
      /\ Cardinality(Waiting \cup {r}) \in Nat
    BY <1>1, <1>2, FS_CardinalityType DEF Capacity
<1>4. r # None
    BY QueueAssumption
<1>5. Cardinality(Waiting) + 1 <= MaxQueue
    BY <1>3, <1>4, QueueAssumption DEF Capacity, WithinCapacity, Full
<1>6. Cardinality(Waiting') <= MaxQueue
    BY <1>1, <1>2, <1>3, <1>5, QueueAssumption
<1> QED
    BY <1>2, <1>3, <1>6 DEF Capacity, WithinCapacity

\* A Run is admitted to a queue that is not full.
LEMMA CapacityAdmits ==
    ASSUME Capacity, Waiting' = Waiting, admitter = None, ~Full PROVE Capacity'
<1>1. Cardinality(Waiting) \in Nat
    BY FS_CardinalityType DEF Capacity
<1> QED
    BY <1>1, QueueAssumption DEF Capacity, WithinCapacity, Full

\* Every step keeps the queue within its capacity.
LEMMA CapacityStep ==
    ASSUME TypeOK, AtRest, Entrance, Capacity, Next PROVE Capacity'
<1>1. ASSUME NEW r \in Runs, Submit(r) PROVE Capacity'
    <2>1. Waiting' = Waiting
        BY <1>1 DEF Submit, entries, Waiting
    <2>2. admitter' = admitter \/ (admitter = None /\ ~Full)
        BY <1>1 DEF Submit, AdmissionFree
    <2> QED
        BY <2>1, <2>2, CapacityKept, CapacityAdmits
<1>2. ASSUME NEW r \in Runs, Accept(r) PROVE Capacity'
    <2>1. Waiting' \subseteq Waiting /\ admitter' \in {None, admitter}
        BY <1>2 DEF Accept, entries, Waiting
    <2> QED
        BY <2>1, CapacityKept
<1>3. ASSUME NEW r \in Runs, MarkQueued(r) PROVE Capacity'
    <2>1. Waiting' \subseteq Waiting /\ admitter' \in {None, admitter}
        BY <1>3 DEF MarkQueued, entries, Waiting
    <2> QED
        BY <2>1, CapacityKept
<1>4. ASSUME NEW r \in Runs, Enqueue(r) PROVE Capacity'
    <2>1. admitter = r /\ admitter' = None
        BY <1>4 DEF Enqueue, Entrance, Inside
    <2>2. Waiting' \subseteq Waiting \cup {r}
        BY <1>4 DEF Enqueue, Waiting
    <2> QED
        BY <2>1, <2>2, CapacityAdded
<1>5. ASSUME NEW r \in Runs, Look(r) PROVE Capacity'
    <2>1. Waiting' \subseteq Waiting /\ admitter' \in {None, admitter}
        BY <1>5 DEF Look, entries, Waiting
    <2> QED
        BY <2>1, CapacityKept
<1>6. ASSUME NEW r \in Runs, Wake(r) PROVE Capacity'
    <2>1. Waiting' \subseteq Waiting /\ admitter' \in {None, admitter}
        BY <1>6 DEF Wake, entries, Waiting
    <2> QED
        BY <2>1, CapacityKept
<1>7. ASSUME NEW r \in Runs, FirstLook(r) PROVE Capacity'
    <2>1. Waiting' \subseteq Waiting /\ admitter' \in {None, admitter}
        BY <1>7 DEF FirstLook, entries, ResetDispatch, Waiting
    <2> QED
        BY <2>1, CapacityKept
<1>8. ASSUME NEW r \in Runs, Undo(r) PROVE Capacity'
    <2>1. Waiting' \subseteq Waiting /\ admitter' \in {None, admitter}
        BY <1>8 DEF Undo, entries, Waiting
    <2> QED
        BY <2>1, CapacityKept
<1>9. ASSUME NEW r \in Runs, Reenter(r) PROVE Capacity'
    <2>1. Waiting' = Waiting
        BY <1>9 DEF Reenter, Waiting
    <2>2. admitter' = admitter \/ (admitter = None /\ ~Full)
        BY <1>9 DEF Reenter, AdmissionFree
    <2> QED
        BY <2>1, <2>2, CapacityKept, CapacityAdmits
<1>10. ASSUME NEW r \in Runs, Readmit(r) PROVE Capacity'
    <2>1. Waiting' \subseteq Waiting /\ admitter' \in {None, admitter}
        BY <1>10 DEF Readmit, entries, Waiting
    <2> QED
        BY <2>1, CapacityKept
<1>11. ASSUME NEW r \in Runs, SecondLook(r) PROVE Capacity'
    <2>1. Waiting' \subseteq Waiting /\ admitter' \in {None, admitter}
        BY <1>11 DEF SecondLook, entries, Waiting
    <2> QED
        BY <2>1, CapacityKept
<1>12. ASSUME NEW r \in Runs, Rollback(r) PROVE Capacity'
    <2>1. Waiting' \subseteq Waiting /\ admitter' \in {None, admitter}
        BY <1>12 DEF Rollback, ResetDispatch, entries, Waiting
    <2> QED
        BY <2>1, CapacityKept
<1>13. ASSUME NEW r \in Runs, Assign(r) PROVE Capacity'
    <2>1. Waiting' \subseteq Waiting /\ admitter' \in {None, admitter}
        BY <1>13 DEF Assign, Delete, entries, Waiting
    <2> QED
        BY <2>1, CapacityKept
<1>14. ASSUME NEW r \in Runs, RecordFailure(r) PROVE Capacity'
    <2>1. Waiting' \subseteq Waiting /\ admitter' \in {None, admitter}
        BY <1>14 DEF RecordFailure, entries, Waiting
    <2> QED
        BY <2>1, CapacityKept
<1>15. ASSUME NEW r \in Runs, RemoveFailed(r) PROVE Capacity'
    <2>1. Waiting' \subseteq Waiting /\ admitter' \in {None, admitter}
        BY <1>15 DEF RemoveFailed, Delete, Waiting
    <2> QED
        BY <2>1, CapacityKept
<1>16. ASSUME NEW r \in Runs, Cancel(r) PROVE Capacity'
    <2>1. Waiting' \subseteq Waiting /\ admitter' \in {None, admitter}
        BY <1>16 DEF Cancel, waiters, Waiting
    <2> QED
        BY <2>1, CapacityKept
<1>17. ASSUME NEW r \in Runs, CancelPrepare(r) PROVE Capacity'
    <2>1. Waiting' \subseteq Waiting /\ admitter' \in {None, admitter}
        BY <1>17 DEF CancelPrepare, entries, Waiting
    <2> QED
        BY <2>1, CapacityKept
<1>18. ASSUME NEW r \in Runs, CancelCleanup(r) PROVE Capacity'
    <2>1. Waiting' \subseteq Waiting /\ admitter' \in {None, admitter}
        BY <1>18 DEF CancelCleanup, entries, Waiting
    <2> QED
        BY <2>1, CapacityKept
<1>19. ASSUME NEW r \in Runs, CancelRemove(r) PROVE Capacity'
    <2>1. Waiting' \subseteq Waiting /\ admitter' \in {None, admitter}
        BY <1>19 DEF CancelRemove, Delete, entries, Waiting
    <2> QED
        BY <2>1, CapacityKept
<1>20. ASSUME NEW r \in Runs, Complete(r) PROVE Capacity'
    <2>1. Waiting' \subseteq Waiting /\ admitter' \in {None, admitter}
        BY <1>20 DEF Complete, entries, waiters, Waiting
    <2> QED
        BY <2>1, CapacityKept
<1>21. ASSUME NEW r \in Runs, Load(r) PROVE Capacity'
    <2>1. admitter = None /\ admitter' = None
        BY <1>21 DEF Load, AtRest, waiters
    <2>2. Waiting' \subseteq Waiting \/ (Waiting' \subseteq Waiting \cup {r} /\ ~Full)
        BY <1>21 DEF Load, LoadCanceling, Drop, Refuse, Waiting
    <2> QED
        BY <2>1, <2>2, CapacityKept, CapacityAdded
<1>22. ASSUME NEW h \in Hosts, LeaseExpires(h) PROVE Capacity'
    <2>1. Waiting' \subseteq Waiting /\ admitter' \in {None, admitter}
        BY <1>22 DEF LeaseExpires, entries, waiters, Waiting
    <2> QED
        BY <2>1, CapacityKept
<1>23. ASSUME NEW h \in Hosts, Register(h) PROVE Capacity'
    <2>1. Waiting' \subseteq Waiting /\ admitter' \in {None, admitter}
        BY <1>23 DEF Register, entries, waiters, Waiting
    <2> QED
        BY <2>1, CapacityKept
<1>24. ASSUME NEW h \in Hosts, HeartbeatExpired(h) PROVE Capacity'
    <2>1. Waiting' \subseteq Waiting /\ admitter' \in {None, admitter}
        BY <1>24 DEF HeartbeatExpired, entries, waiters, Waiting
    <2> QED
        BY <2>1, CapacityKept
<1>25. CASE BeginCycle
    <2>1. Waiting' \subseteq Waiting /\ admitter' \in {None, admitter}
        BY <1>25 DEF BeginCycle, waiters, Waiting
    <2> QED
        BY <2>1, CapacityKept
<1>26. CASE Visit
    <2>1. Waiting' \subseteq Waiting /\ admitter' \in {None, admitter}
        BY <1>26 DEF Visit, waiters, Waiting
    <2> QED
        BY <2>1, CapacityKept
<1>27. CASE Claimed
    <2>1. Waiting' \subseteq Waiting /\ admitter' \in {None, admitter}
        BY <1>27 DEF Claimed, Waiting
    <2> QED
        BY <2>1, CapacityKept
<1>28. CASE EndCycle
    <2>1. Waiting' \subseteq Waiting /\ admitter' \in {None, admitter}
        BY <1>28 DEF EndCycle, Waiting
    <2> QED
        BY <2>1, CapacityKept
<1>29. CASE Stop
    <2>1. Waiting' \subseteq Waiting /\ admitter' \in {None, admitter}
        BY <1>29 DEF Stop, Waiting
    <2> QED
        BY <2>1, CapacityKept
<1>30. CASE Start
    <2>1. Waiting' \subseteq Waiting /\ admitter' \in {None, admitter}
        BY <1>30 DEF Start, entries, waiters, Waiting
    <2> QED
        BY <2>1, CapacityKept
<1>31. CASE Resume
    <2>1. Waiting' \subseteq Waiting /\ admitter' \in {None, admitter}
        BY <1>31 DEF Resume, entries, Waiting
    <2> QED
        BY <2>1, CapacityKept
<1> QED
        BY <1>1, <1>2, <1>3, <1>4, <1>5, <1>6, <1>7, <1>8, <1>9, <1>10, <1>11, <1>12, <1>13,
         <1>14, <1>15, <1>16, <1>17, <1>18, <1>19, <1>20, <1>21, <1>22, <1>23, <1>24, <1>25,
         <1>26, <1>27, <1>28, <1>29, <1>30, <1>31 DEF Next, Submission, Cancellation, Dispatch,
         Agent

-----------------------------------------------------------------------------
(* The invariant and what follows from it.                                 *)

\* A Control Plane that has never run satisfies the invariant.
LEMMA InitInv == Init => IInv
<1> SUFFICES ASSUME Init PROVE IInv
    OBVIOUS
<1>1. TypeOK
    <2>1. /\ selected \in [Runs -> Hosts \cup {None}] /\ at \in [Runs -> Hosts \cup {None}]
          /\ home \in [Runs -> Hosts \cup {None}] /\ lock \in [Hosts -> Runs \cup {None}]
          /\ cancelStep \in [Runs -> {None, "prepare", "cleanup", "remove"}]
          /\ \A r \in Runs : selected[r] = None
        BY DEF Init
    <2>2. /\ intent \in [Runs -> {None, "admitting", "queued", "canceling"}]
          /\ ledger \in [Runs -> {None, "submitted", "queued", "canceling"} \cup Terminal]
          /\ asg \in [Runs -> {None, "marker", "assigned", "quarantined", "completed"}]
          /\ accepted \in [Runs -> Nat] /\ {clock, faults, stops, changes} \subseteq Nat
        BY DEF Init
    <2>3. live \in [Hosts -> BOOLEAN] /\ {sched, cycle} \subseteq BOOLEAN
        BY DEF Init
    <2>4. place \in [Runs -> {"new"}] /\ hstate \in [Hosts -> {"ready"}]
        BY DEF Init
    <2> QED
        BY <2>1, <2>2, <2>3, <2>4 DEF Init, TypeOK
<1>2. Route /\ AtRest /\ ClaimFresh
    BY QueueAssumption DEF Init, Route, RouteOf, Heading, Idle, AtRest, ClaimFresh
<1>3. Entrance
    BY QueueAssumption, NoneDiffers DEF Init, Entrance, Coming, Inside, Ending, Terminal
<1>4. Recorded /\ CanceledIsOut /\ OneRunPerHost
    BY NoneDiffers DEF Init, Recorded, RecordedOf, CanceledIsOut, OneRunPerHost, Ending, Terminal
<1>5. Waiting = {} /\ admitter = None
    BY DEF Init, Waiting
<1>6. Capacity
    BY <1>5, FS_EmptySet, QueueAssumption DEF Capacity, WithinCapacity
<1>7. Time
    BY DEF Init, Time
<1> QED
    BY <1>1, <1>2, <1>3, <1>4, <1>6, <1>7 DEF IInv

\* Every step keeps it.
LEMMA NextInv == ASSUME IInv, [Next]_vars PROVE IInv'
<1>1. CASE Next
    <2>1. TypeOK'
        BY <1>1, TypeStep DEF IInv
    <2>2. Route'
        BY <1>1, <2>1, RouteStep DEF IInv
    <2>3. AtRest'
        BY <1>1, AtRestStep DEF IInv
    <2>4. Entrance'
        BY <1>1, <2>1, EntranceStep DEF IInv
    <2>5. Recorded'
        BY <1>1, <2>1, RecordedStep DEF IInv
    <2>6. ClaimFresh'
        BY <1>1, <2>1, ClaimFreshStep DEF IInv
    <2>7. CanceledIsOut'
        BY <1>1, <2>1, CanceledIsOutStep DEF IInv
    <2>8. OneRunPerHost'
        BY <1>1, <2>1, OneRunPerHostStep DEF IInv
    <2>9. Time'
        BY <1>1, <2>1, TimeStep DEF IInv
    <2>10. Capacity'
        BY <1>1, CapacityStep DEF IInv
    <2> QED
        BY <2>1, <2>2, <2>3, <2>4, <2>5, <2>6, <2>7, <2>8, <2>9, <2>10 DEF IInv
<1>2. CASE UNCHANGED vars
    <2>1. TypeOK'
        BY <1>2 DEF IInv, TypeOK, vars, entries, waiters, scheduler, disk, hosts, bounds
    <2>2. Route' /\ AtRest' /\ ClaimFresh'
        BY <1>2 DEF IInv, Route, RouteOf, AtRest, ClaimFresh, vars, entries, waiters, scheduler,
             disk, hosts
    <2>3. Entrance' /\ Recorded'
        BY <1>2 DEF IInv, Entrance, Recorded, RecordedOf, vars, entries, waiters, disk, hosts
    <2>4. CanceledIsOut' /\ OneRunPerHost'
        BY <1>2 DEF IInv, CanceledIsOut, OneRunPerHost, vars, entries, waiters, disk
    <2>5. Waiting' = Waiting /\ admitter' = admitter
        BY <1>2 DEF Waiting, vars, entries, waiters
    <2>6. Capacity'
        BY <2>5 DEF IInv, Capacity, WithinCapacity
    <2>7. Time'
        BY <1>2 DEF IInv, Time, vars, waiters, disk, bounds
    <2> QED
        BY <2>1, <2>2, <2>3, <2>4, <2>6, <2>7 DEF IInv
<1> QED
    BY <1>1, <1>2

\* The inductive invariant holds whatever fails, and however often the Control
\* Plane stops and restarts.
THEOREM Invariance == Spec => []IInv
    BY InitInv, NextInv, PTL DEF Spec

\* Every variable keeps its type.
THEOREM TypeCorrect == Spec => []TypeOK
<1>1. IInv => TypeOK
    BY DEF IInv
<1> QED
    BY <1>1, Invariance, PTL

\* Two Runs never have a marker or an assignment on the same Host: whoever writes
\* a marker has the Host's lock and found it reserved, and an assigned Host is not.
THEOREM HostsApart == Spec => []OneRunPerHost
<1>1. IInv => OneRunPerHost
    BY DEF IInv
<1> QED
    BY <1>1, Invariance, PTL

\* A Run whose cancellation reached its ledger is out of dispatch for good, although
\* writes of the cancellation, of dispatch and of recovery fail.
THEOREM CanceledStaysOut == Spec => []NeverCanceledAndAssigned
<1>1. IInv => NeverCanceledAndAssigned
    BY DEF IInv, CanceledIsOut, NeverCanceledAndAssigned, Heading
<1> QED
    BY <1>1, Invariance, PTL

\* The queue never holds more waiting Runs than its capacity, the one being
\* admitted included.
THEOREM QueueBounded == Spec => []WithinCapacity
<1>1. IInv => WithinCapacity
    BY DEF IInv, Capacity
<1> QED
    BY <1>1, Invariance, PTL

\* A Host claims no Run accepted later than another it could have taken: the
\* scheduler takes the earliest in the queue, and a Run on its way into the queue
\* was accepted last, since admission is exclusive.
THEOREM FirstComeFirstServed == Spec => Fifo
<1> DEFINE Fair == \A r \in Runs, h \in Hosts : claim # claim' /\ claim' = <<r, h>> =>
                      \A s \in {s \in Runs : h \in Fits[s]} :
                         s \in Waiting \ dispatching \/ place[s] \in {"accepted", "marked"} =>
                            accepted[r] <= accepted[s]
<1>1. ASSUME IInv, [Next]_vars PROVE [Fair]_vars
    <2> SUFFICES ASSUME NEW r \in Runs, NEW h \in Hosts, claim # claim', claim' = <<r, h>>,
                        NEW s \in Runs, h \in Fits[s],
                        s \in Waiting \ dispatching \/ place[s] \in {"accepted", "marked"}
                 PROVE  accepted[r] <= accepted[s]
        OBVIOUS
    <2>1. claim' # None
        BY NoneAssumption
    <2>2. Visit
        <3>1. Next
            BY <1>1 DEF vars, scheduler
        <3>2. ASSUME NEW u \in Runs, Submission(u) \/ Cancellation(u) \/ Complete(u) \/ Load(u) PROVE FALSE
            BY <3>2 DEF Submission, Submit, Accept, MarkQueued, Enqueue, Look, Wake, FirstLook, Undo,
                 Reenter, Readmit, SecondLook, Rollback, Assign, RecordFailure, RemoveFailed,
                 Cancellation, Cancel, CancelPrepare, CancelCleanup, CancelRemove, Complete, Load, scheduler
        <3>3. ASSUME NEW k \in Hosts, Agent(k) PROVE FALSE
            BY <3>3 DEF Agent, LeaseExpires, Register, HeartbeatExpired, scheduler
        <3>4. ~BeginCycle /\ ~Claimed /\ ~EndCycle
            BY <2>1 DEF BeginCycle, Claimed, EndCycle
        <3>5. ~Stop /\ ~Start /\ ~Resume
            BY <2>1 DEF Stop, Start, Resume, scheduler
        <3> QED
            BY <3>1, <3>2, <3>3, <3>4, <3>5 DEF Next, Dispatch
    <2>3. r \in Candidates(h) /\ \A u \in Candidates(h) \ {r} : Earlier(r, u)
        BY <2>2 DEF Visit
    <2>4. accepted[r] \in Nat /\ accepted[s] \in Nat /\ clock \in Nat
        BY <1>1 DEF IInv, TypeOK
    <2>5. CASE s \in Waiting \ dispatching
        <3>1. s \in Candidates(h)
            BY <2>5 DEF Candidates, Waiting
        <3> QED
            BY <2>3, <2>4, <3>1 DEF Earlier
    <2>6. CASE place[s] \in {"accepted", "marked"}
        BY <1>1, <2>4, <2>6 DEF IInv, Time
    <2> QED
        BY <2>5, <2>6
<1> QED
    BY <1>1, Invariance, PTL DEF Spec, Fifo

-----------------------------------------------------------------------------
(* As long as no write failed.                                             *)

\* The queue record and the ledger of a Run that waits for a Host.
Entered(r) == r \in Waiting /\ intent[r] = "queued" /\ ledger[r] = "queued"

\* Where a goroutine is says what is on disk and in the queue.
PlaceOf(r) ==
    /\ place[r] = "admitting" => intent[r] = "admitting" /\ ledger[r] = None
    /\ place[r] = "accepted" => intent[r] = "admitting" /\ ledger[r] = "submitted"
    /\ place[r] = "marked" => intent[r] = "admitting" /\ ledger[r] = "queued"
    /\ place[r] \in Heading \cup {"failing"} => Entered(r) /\ selected[r] # None
    /\ place[r] = "failed" =>
          r \in Waiting /\ intent[r] = "queued" /\ ledger[r] = "failed" /\ selected[r] # None
    /\ place[r] \in Idle =>
          Entered(r) \/ r \in canceled \/ (r \notin queued /\ intent[r] = None /\ ledger[r] = "canceled")
    /\ place[r] = "readmitting" =>
          r \notin queued /\ intent[r] = "admitting" /\ ledger[r] = "canceled"
    /\ place[r] = "gone" => r \notin queued /\ intent[r] = None
    /\ asg[r] = "marker" => place[r] = "marker"

Places == phase = "up" => \A r \in Runs : PlaceOf(r)

\* A canceled entry is one whose cancellation is under way, and the step it is at
\* says what is on disk.
CancelingOf(r) ==
    /\ r \in canceled <=> cancelStep[r] # None
    /\ cancelStep[r] # None => place[r] \in Idle /\ intent[r] = "canceling"
    /\ cancelStep[r] = "prepare" => ledger[r] = "queued"
    /\ cancelStep[r] = "cleanup" => ledger[r] = "canceling"
    /\ cancelStep[r] = "remove" => ledger[r] = "canceled"
    /\ r \in released => r \notin queued /\ place[r] \notin Coming

Cancelings == phase = "up" => \A r \in Runs : CancelingOf(r)

\* While the queue is loaded: what was loaded waits, what is neither loaded nor
\* still to be loaded has no queue record.
LoadedOf(r) ==
    /\ r \in queued => Entered(r) /\ asg[r] = None
    /\ r \notin queued \cup todo => intent[r] = None

Loaded == phase = "loading" => \A r \in Runs : LoadedOf(r)

\* What the records of a Run say together, wherever the process stops.
DiskOf(r) ==
    /\ asg[r] = None /\ intent[r] = None => ledger[r] \in Terminal \cup {None}
    /\ intent[r] = "admitting" =>
          asg[r] = None /\ ledger[r] \in {None, "submitted", "queued", "canceled"}
    /\ asg[r] = None /\ intent[r] = "queued" => ledger[r] \in {"queued", "failed"}
    /\ intent[r] = "canceling" => asg[r] = None /\ ledger[r] \in {"queued", "canceling", "canceled"}
    /\ asg[r] = "marker" =>
          \/ intent[r] = "queued" /\ ledger[r] = "queued"
          \/ intent[r] \in {None, "queued"} /\ ledger[r] = "submitted" /\ phase = "down"
    /\ asg[r] = "assigned" => ledger[r] = "submitted"
    /\ asg[r] = "completed" => ledger[r] = "completed"
    /\ asg[r] = "quarantined" => ledger[r] = "failed"

OnDisk == \A r \in Runs : DiskOf(r)

\* No error is pending, and startup was never refused.
NoError ==
    /\ errs = {} /\ selErr = {} /\ phase # "refused"
    /\ phase # "up" => canceled = {} /\ released = {}

\* The Runs startup puts back in the queue: an accepted Run with a queue record and
\* no marker or assignment.
Owed == {r \in Runs : /\ intent[r] \in {"admitting", "queued"}
                      /\ ledger[r] \in {"submitted", "queued"} /\ asg[r] = None}

\* The queue has room for them all.
Room == phase \in {"down", "loading"} => IsFiniteSet(Owed) /\ Cardinality(Owed) <= MaxQueue

\* A Host is not reserved while the queue is loaded.
Unreserved == phase \in {"loading", "refused"} => \A h \in Hosts : hstate[h] # "reserving"

\* The second inductive invariant: what holds besides as long as no write failed.
FaultFree == faults = 0 =>
    /\ NoError /\ Places /\ Cancelings /\ Loaded /\ OnDisk /\ Room /\ Unreserved
    /\ NoStrandedHost

\* There is a place for a Run that startup puts back: those already loaded are
\* among the Runs there is room for, and it is not one of them.
LEMMA RoomForOwed ==
    ASSUME TypeOK, Capacity, Loaded, Room, phase = "loading", NEW r \in Owed, r \notin queued
    PROVE  ~Full
<1>1. Waiting \cup {r} \subseteq Owed
    BY NoneDiffers DEF Loaded, LoadedOf, Entered, Owed, Waiting, TypeOK
<1>2. IsFiniteSet(Owed) /\ Cardinality(Owed) <= MaxQueue
    BY DEF Room
<1>3. IsFiniteSet(Waiting) /\ r \notin Waiting
    BY DEF Capacity, Waiting
<1>4. Cardinality(Waiting \cup {r}) = Cardinality(Waiting) + 1
    BY <1>3, FS_AddElement
<1>5. Cardinality(Waiting \cup {r}) <= Cardinality(Owed)
    BY <1>1, <1>2, FS_Subset
<1>6. Cardinality(Waiting) \in Nat /\ Cardinality(Owed) \in Nat
    BY <1>2, <1>3, FS_CardinalityType
<1> QED
    BY <1>2, <1>4, <1>5, <1>6, QueueAssumption DEF Full

\* Without a failing write no selection fails and startup is not refused.
LEMMA NoErrorStep ==
    ASSUME TypeOK, AtRest, Recorded, Capacity, NoError, Loaded, OnDisk, Room, faults = 0, ~Fault, Next
    PROVE  NoError'
<1> USE QueueAssumption, NoneDiffers
<1>1. ASSUME NEW r \in Runs, Submit(r) PROVE NoError'
    BY <1>1 DEF TypeOK, NoError, Submit, entries, scheduler
<1>2. ASSUME NEW r \in Runs, Accept(r) PROVE NoError'
    BY <1>2 DEF TypeOK, NoError, Accept, entries, scheduler
<1>3. ASSUME NEW r \in Runs, MarkQueued(r) PROVE NoError'
    BY <1>3 DEF TypeOK, NoError, MarkQueued, entries, scheduler
<1>4. ASSUME NEW r \in Runs, Enqueue(r) PROVE NoError'
    BY <1>4 DEF TypeOK, NoError, Enqueue, scheduler
<1>5. ASSUME NEW r \in Runs, Look(r) PROVE NoError'
    BY <1>5 DEF TypeOK, NoError, Look, entries
<1>6. ASSUME NEW r \in Runs, Wake(r) PROVE NoError'
    BY <1>6 DEF TypeOK, NoError, Wake, entries, scheduler
<1>7. ASSUME NEW r \in Runs, FirstLook(r) PROVE NoError'
    BY <1>7 DEF TypeOK, NoError, FirstLook, entries, ResetDispatch, scheduler
<1>8. ASSUME NEW r \in Runs, Undo(r) PROVE NoError'
    BY <1>8 DEF TypeOK, NoError, Undo, entries, scheduler
<1>9. ASSUME NEW r \in Runs, Reenter(r) PROVE NoError'
    BY <1>9 DEF TypeOK, NoError, Reenter, scheduler
<1>10. ASSUME NEW r \in Runs, Readmit(r) PROVE NoError'
    BY <1>10 DEF TypeOK, NoError, Readmit, entries, scheduler
<1>11. ASSUME NEW r \in Runs, SecondLook(r) PROVE NoError'
    BY <1>11 DEF TypeOK, NoError, SecondLook, entries, scheduler
<1>12. ASSUME NEW r \in Runs, Rollback(r) PROVE NoError'
    BY <1>12 DEF TypeOK, NoError, Rollback, ResetDispatch, entries, scheduler
<1>13. ASSUME NEW r \in Runs, Assign(r) PROVE NoError'
    BY <1>13 DEF TypeOK, NoError, Assign, Delete, entries, scheduler
<1>14. ASSUME NEW r \in Runs, RecordFailure(r) PROVE NoError'
    BY <1>14 DEF TypeOK, NoError, RecordFailure, entries, scheduler
<1>15. ASSUME NEW r \in Runs, RemoveFailed(r) PROVE NoError'
    BY <1>15 DEF TypeOK, NoError, RemoveFailed, Delete, scheduler
<1>16. ASSUME NEW r \in Runs, Cancel(r) PROVE NoError'
    BY <1>16 DEF TypeOK, NoError, Cancel, waiters, scheduler
<1>17. ASSUME NEW r \in Runs, CancelPrepare(r) PROVE NoError'
    BY <1>17 DEF TypeOK, NoError, CancelPrepare, Ending, CancelFails, entries, scheduler
<1>18. ASSUME NEW r \in Runs, CancelCleanup(r) PROVE NoError'
    BY <1>18 DEF TypeOK, NoError, CancelCleanup, CancelFails, entries, scheduler
<1>19. ASSUME NEW r \in Runs, CancelRemove(r) PROVE NoError'
    BY <1>19 DEF TypeOK, NoError, CancelRemove, Delete, entries, scheduler
<1>20. ASSUME NEW r \in Runs, Complete(r) PROVE NoError'
    BY <1>20 DEF TypeOK, NoError, Complete, entries, waiters, scheduler
<1>21. ASSUME NEW r \in Runs, Load(r) PROVE NoError'
    <2>1. phase = "loading" /\ r \in todo /\ r \notin queued /\ intent[r] # None
        BY <1>21 DEF Load, AtRest
    <2>2. asg[r] \notin {"assigned", "quarantined"} => asg[r] = None
        BY <2>1 DEF TypeOK, Recorded, RecordedOf
    <2>3. asg[r] = None /\ intent[r] # "canceling" =>
            \/ ledger[r] \in Terminal \/ (ledger[r] = None /\ intent[r] = "admitting")
            \/ ledger[r] \in {"submitted", "queued"} /\ r \in Owed
        BY <2>1 DEF TypeOK, OnDisk, DiskOf, Owed, Terminal
    <2>4. r \in Owed => ~Full
        BY <2>1, RoomForOwed
    <2>5. intent[r] = "canceling" => ledger[r] \in {"submitted", "queued"} \cup Ending
        BY DEF OnDisk, DiskOf, Ending
    <2>6. CASE asg[r] \in {"assigned", "quarantined"}
        BY <2>6, <1>21 DEF Load, Drop, NoError, waiters, scheduler
    <2>7. CASE asg[r] = None /\ intent[r] = "canceling"
        BY <2>5, <2>7, <1>21 DEF Load, LoadCanceling, Drop, NoError, waiters, scheduler
    <2>8. CASE asg[r] = None /\ intent[r] # "canceling"
        BY <2>3, <2>4, <2>8, <1>21 DEF Load, Drop, NoError, waiters, scheduler, Terminal
    <2> QED
        BY <2>2, <2>6, <2>7, <2>8
<1>22. ASSUME NEW h \in Hosts, LeaseExpires(h) PROVE NoError'
    BY <1>22 DEF TypeOK, NoError, LeaseExpires, entries, waiters, scheduler
<1>23. ASSUME NEW h \in Hosts, Register(h) PROVE NoError'
    BY <1>23 DEF TypeOK, NoError, Register, entries, waiters, scheduler
<1>24. ASSUME NEW h \in Hosts, HeartbeatExpired(h) PROVE NoError'
    BY <1>24 DEF TypeOK, NoError, HeartbeatExpired, entries, waiters, scheduler
<1>25. CASE BeginCycle
    BY <1>25 DEF TypeOK, NoError, BeginCycle, waiters
<1>26. CASE Visit
    BY <1>26, MinIn DEF TypeOK, NoError, Visit, waiters
<1>27. CASE Claimed
    BY <1>27 DEF TypeOK, NoError, Claimed
<1>28. CASE EndCycle
    BY <1>28 DEF TypeOK, NoError, EndCycle
<1>29. CASE Stop
    BY <1>29 DEF TypeOK, NoError, Stop
<1>30. CASE Start
    BY <1>30 DEF TypeOK, NoError, Start, entries, waiters, scheduler
<1>31. CASE Resume
    BY <1>31 DEF TypeOK, NoError, Resume, entries, scheduler
<1> QED
        BY <1>1, <1>2, <1>3, <1>4, <1>5, <1>6, <1>7, <1>8, <1>9, <1>10, <1>11, <1>12, <1>13,
         <1>14, <1>15, <1>16, <1>17, <1>18, <1>19, <1>20, <1>21, <1>22, <1>23, <1>24, <1>25,
         <1>26, <1>27, <1>28, <1>29, <1>30, <1>31 DEF Next, Submission, Cancellation, Dispatch,
         Agent

\* Fewer Runs to put back need less room.
LEMMA RoomKept ==
    ASSUME Room, phase \in {"down", "loading"}, Owed' \subseteq Owed PROVE Room'
<1>1. IsFiniteSet(Owed) /\ Cardinality(Owed) <= MaxQueue
    BY DEF Room
<1>2. IsFiniteSet(Owed') /\ Cardinality(Owed') <= Cardinality(Owed)
    BY <1>1, FS_Subset
<1>3. Cardinality(Owed') \in Nat /\ Cardinality(Owed) \in Nat
    BY <1>1, <1>2, FS_CardinalityType
<1> QED
    BY <1>1, <1>2, <1>3, QueueAssumption DEF Room

\* A stopped process leaves behind what was waiting and what was being admitted.
LEMMA RoomAfterStop ==
    ASSUME TypeOK, Capacity, Owed' \subseteq Waiting \cup {r \in Runs : admitter = r} PROVE Room'
<1>1. IsFiniteSet(Waiting) /\ Cardinality(Waiting) \in Nat
    BY FS_CardinalityType DEF Capacity
<1>2. CASE admitter = None
    <2>1. Owed' \subseteq Waiting
        BY <1>2, QueueAssumption
    <2>2. IsFiniteSet(Owed') /\ Cardinality(Owed') <= Cardinality(Waiting)
        BY <2>1, <1>1, FS_Subset
    <2>3. Cardinality(Owed') \in Nat
        BY <2>2, FS_CardinalityType
    <2> QED
        BY <1>1, <1>2, <2>2, <2>3, QueueAssumption DEF Room, Capacity, WithinCapacity
<1>3. CASE admitter # None
    <2>1. Owed' \subseteq Waiting \cup {admitter}
        OBVIOUS
    <2>2. /\ IsFiniteSet(Waiting \cup {admitter})
          /\ Cardinality(Waiting \cup {admitter}) =
                IF admitter \in Waiting THEN Cardinality(Waiting) ELSE Cardinality(Waiting) + 1
        BY <1>1, FS_AddElement
    <2>3. /\ IsFiniteSet(Owed')
          /\ Cardinality(Owed') <= Cardinality(Waiting \cup {admitter})
        BY <2>1, <2>2, FS_Subset
    <2>4. Cardinality(Owed') \in Nat
        BY <2>3, FS_CardinalityType
    <2>5. Cardinality(Waiting) + 1 <= MaxQueue
        BY <1>3 DEF Capacity, WithinCapacity
    <2>6. Cardinality(Owed') <= MaxQueue
        BY <1>1, <2>2, <2>3, <2>4, <2>5, QueueAssumption
    <2> QED
        BY <2>3, <2>6 DEF Room
<1> QED
    BY <1>2, <1>3

\* Every step keeps room for the Runs that startup puts back.
LEMMA RoomStep ==
    ASSUME TypeOK, TypeOK', Route, AtRest, Entrance, Recorded, Capacity, NoError, Places, Cancelings,
           Loaded, OnDisk, Room, faults = 0, ~Fault, Next
    PROVE  Room'
<1> USE QueueAssumption, NoneDiffers
<1>1. ASSUME NEW r \in Runs, Submit(r) PROVE Room'
    BY <1>1 DEF Submit, Room
<1>2. ASSUME NEW r \in Runs, Accept(r) PROVE Room'
    BY <1>2 DEF Accept, Room
<1>3. ASSUME NEW r \in Runs, MarkQueued(r) PROVE Room'
    BY <1>3 DEF MarkQueued, Room
<1>4. ASSUME NEW r \in Runs, Enqueue(r) PROVE Room'
    BY <1>4 DEF Enqueue, Room
<1>5. ASSUME NEW r \in Runs, Look(r) PROVE Room'
    BY <1>5 DEF Look, Room
<1>6. ASSUME NEW r \in Runs, Wake(r) PROVE Room'
    BY <1>6 DEF Wake, Room
<1>7. ASSUME NEW r \in Runs, FirstLook(r) PROVE Room'
    BY <1>7 DEF FirstLook, Room
<1>8. ASSUME NEW r \in Runs, Undo(r) PROVE Room'
    BY <1>8 DEF Undo, Room
<1>9. ASSUME NEW r \in Runs, Reenter(r) PROVE Room'
    BY <1>9 DEF Reenter, Room
<1>10. ASSUME NEW r \in Runs, Readmit(r) PROVE Room'
    BY <1>10 DEF Readmit, Room
<1>11. ASSUME NEW r \in Runs, SecondLook(r) PROVE Room'
    BY <1>11 DEF SecondLook, Room
<1>12. ASSUME NEW r \in Runs, Rollback(r) PROVE Room'
    BY <1>12 DEF Rollback, Room
<1>13. ASSUME NEW r \in Runs, Assign(r) PROVE Room'
    BY <1>13 DEF Assign, Room
<1>14. ASSUME NEW r \in Runs, RecordFailure(r) PROVE Room'
    BY <1>14 DEF RecordFailure, Room
<1>15. ASSUME NEW r \in Runs, RemoveFailed(r) PROVE Room'
    BY <1>15 DEF RemoveFailed, Room
<1>16. ASSUME NEW r \in Runs, Cancel(r) PROVE Room'
    BY <1>16 DEF Cancel, Room
<1>17. ASSUME NEW r \in Runs, CancelPrepare(r) PROVE Room'
    BY <1>17 DEF CancelPrepare, Room
<1>18. ASSUME NEW r \in Runs, CancelCleanup(r) PROVE Room'
    BY <1>18 DEF CancelCleanup, Room
<1>19. ASSUME NEW r \in Runs, CancelRemove(r) PROVE Room'
    BY <1>19 DEF CancelRemove, Room
<1>20. ASSUME NEW r \in Runs, Complete(r) PROVE Room'
    BY <1>20 DEF Complete, Room
<1>21. ASSUME NEW r \in Runs, Load(r) PROVE Room'
    <2>1. Owed' \subseteq Owed
        <3>1. asg' = asg /\ (asg[r] \in {"assigned", "quarantined"} \/ asg[r] = None)
            BY <1>21 DEF Load, AtRest, TypeOK, Recorded, RecordedOf
        <3>2. ASSUME NEW s \in Runs \ {r} PROVE intent'[s] = intent[s] /\ ledger'[s] = ledger[s]
            BY <1>21 DEF Load, Drop, Intent, Ledger, LoadCanceling, Refuse, TypeOK
        <3>3. r \in Owed' => r \in Owed
            BY <3>1, <1>21 DEF Load, Drop, Intent, Ledger, LoadCanceling, Refuse, Owed, TypeOK, AtRest
        <3> QED
            BY <3>1, <3>2, <3>3 DEF Owed
    <2> QED
        BY <2>1, <1>21, RoomKept DEF Load
<1>22. ASSUME NEW h \in Hosts, LeaseExpires(h) PROVE Room'
    BY <1>22 DEF LeaseExpires, Room
<1>23. ASSUME NEW h \in Hosts, Register(h) PROVE Room'
    BY <1>23 DEF Register, Room
<1>24. ASSUME NEW h \in Hosts, HeartbeatExpired(h) PROVE Room'
    BY <1>24 DEF HeartbeatExpired, Room
<1>25. CASE BeginCycle
    BY <1>25 DEF BeginCycle, Room
<1>26. CASE Visit
    BY <1>26 DEF Visit, Room
<1>27. CASE Claimed
    BY <1>27 DEF Claimed, Room
<1>28. CASE EndCycle
    BY <1>28 DEF EndCycle, Room
<1>29. CASE Stop
    <2>1. CASE phase = "loading"
        <3>1. Owed' \subseteq Owed
            BY <2>1, <1>29 DEF Stop, Owed
        <3> QED
            BY <2>1, <3>1, RoomKept
    <2>2. CASE phase = "up"
        <3>1. ASSUME NEW s \in Owed' PROVE s \in Waiting \/ admitter = s
            <4>1. s \in Owed
                BY <1>29 DEF Stop, Ledger, Owed, TypeOK, Route, RouteOf
            <4> QED
                BY <4>1, <2>2 DEF Owed, TypeOK, Places, PlaceOf, Entered, Heading, Idle, Cancelings,
                     CancelingOf, Entrance, Inside
        <3>2. Owed' \subseteq Runs
            BY DEF Owed
        <3> QED
            BY <3>1, <3>2, RoomAfterStop
    <2> QED
        BY <2>1, <2>2, <1>29 DEF Stop
<1>30. CASE Start
    <2>1. Owed' \subseteq Owed
        BY <1>30 DEF Start, Owed
    <2> QED
        BY <2>1, <1>30, RoomKept DEF Start
<1>31. CASE Resume
    BY <1>31 DEF Resume, Room
<1> QED
        BY <1>1, <1>2, <1>3, <1>4, <1>5, <1>6, <1>7, <1>8, <1>9, <1>10, <1>11, <1>12, <1>13,
         <1>14, <1>15, <1>16, <1>17, <1>18, <1>19, <1>20, <1>21, <1>22, <1>23, <1>24, <1>25,
         <1>26, <1>27, <1>28, <1>29, <1>30, <1>31 DEF Next, Submission, Cancellation, Dispatch,
         Agent

\* Startup leaves no Host reserved.
LEMMA UnreservedStep ==
    ASSUME TypeOK, Unreserved, faults = 0, ~Fault, Next
    PROVE  Unreserved'
<1> USE QueueAssumption, NoneDiffers
<1>1. ASSUME NEW r \in Runs, Submit(r) PROVE Unreserved'
    BY <1>1 DEF TypeOK, Unreserved, Submit, hosts
<1>2. ASSUME NEW r \in Runs, Accept(r) PROVE Unreserved'
    BY <1>2 DEF TypeOK, Unreserved, Accept, hosts
<1>3. ASSUME NEW r \in Runs, MarkQueued(r) PROVE Unreserved'
    BY <1>3 DEF TypeOK, Unreserved, MarkQueued, hosts
<1>4. ASSUME NEW r \in Runs, Enqueue(r) PROVE Unreserved'
    BY <1>4 DEF TypeOK, Unreserved, Enqueue, hosts
<1>5. ASSUME NEW r \in Runs, Look(r) PROVE Unreserved'
    BY <1>5 DEF TypeOK, Unreserved, Look, hosts
<1>6. ASSUME NEW r \in Runs, Wake(r) PROVE Unreserved'
    BY <1>6 DEF TypeOK, Unreserved, Wake, hosts
<1>7. ASSUME NEW r \in Runs, FirstLook(r) PROVE Unreserved'
    BY <1>7 DEF TypeOK, Unreserved, FirstLook, ResetHost
<1>8. ASSUME NEW r \in Runs, Undo(r) PROVE Unreserved'
    BY <1>8 DEF TypeOK, Unreserved, Undo
<1>9. ASSUME NEW r \in Runs, Reenter(r) PROVE Unreserved'
    BY <1>9 DEF TypeOK, Unreserved, Reenter, hosts
<1>10. ASSUME NEW r \in Runs, Readmit(r) PROVE Unreserved'
    BY <1>10 DEF TypeOK, Unreserved, Readmit, hosts
<1>11. ASSUME NEW r \in Runs, SecondLook(r) PROVE Unreserved'
    BY <1>11 DEF TypeOK, Unreserved, SecondLook
<1>12. ASSUME NEW r \in Runs, Rollback(r) PROVE Unreserved'
    BY <1>12 DEF TypeOK, Unreserved, Rollback, ResetHost
<1>13. ASSUME NEW r \in Runs, Assign(r) PROVE Unreserved'
    BY <1>13 DEF TypeOK, Unreserved, Assign
<1>14. ASSUME NEW r \in Runs, RecordFailure(r) PROVE Unreserved'
    BY <1>14 DEF TypeOK, Unreserved, RecordFailure
<1>15. ASSUME NEW r \in Runs, RemoveFailed(r) PROVE Unreserved'
    BY <1>15 DEF TypeOK, Unreserved, RemoveFailed, hosts
<1>16. ASSUME NEW r \in Runs, Cancel(r) PROVE Unreserved'
    BY <1>16 DEF TypeOK, Unreserved, Cancel, hosts
<1>17. ASSUME NEW r \in Runs, CancelPrepare(r) PROVE Unreserved'
    BY <1>17 DEF TypeOK, Unreserved, CancelPrepare, Ending, hosts
<1>18. ASSUME NEW r \in Runs, CancelCleanup(r) PROVE Unreserved'
    BY <1>18 DEF TypeOK, Unreserved, CancelCleanup, hosts
<1>19. ASSUME NEW r \in Runs, CancelRemove(r) PROVE Unreserved'
    BY <1>19 DEF TypeOK, Unreserved, CancelRemove, hosts
<1>20. ASSUME NEW r \in Runs, Complete(r) PROVE Unreserved'
    BY <1>20 DEF TypeOK, Unreserved, Complete
<1>21. ASSUME NEW r \in Runs, Load(r) PROVE Unreserved'
    BY <1>21 DEF TypeOK, Unreserved, Load, Drop, LoadCanceling, Ending, Refuse, hosts
<1>22. ASSUME NEW h \in Hosts, LeaseExpires(h) PROVE Unreserved'
    BY <1>22 DEF TypeOK, Unreserved, LeaseExpires
<1>23. ASSUME NEW h \in Hosts, Register(h) PROVE Unreserved'
    BY <1>23 DEF TypeOK, Unreserved, Register
<1>24. ASSUME NEW h \in Hosts, HeartbeatExpired(h) PROVE Unreserved'
    BY <1>24 DEF TypeOK, Unreserved, HeartbeatExpired
<1>25. CASE BeginCycle
    BY <1>25 DEF TypeOK, Unreserved, BeginCycle
<1>26. CASE Visit
    BY <1>26, MinIn DEF TypeOK, Unreserved, Visit
<1>27. CASE Claimed
    BY <1>27 DEF TypeOK, Unreserved, Claimed, ResetHost
<1>28. CASE EndCycle
    BY <1>28 DEF TypeOK, Unreserved, EndCycle, hosts
<1>29. CASE Stop
    BY <1>29 DEF TypeOK, Unreserved, Stop
<1>30. CASE Start
    BY <1>30 DEF TypeOK, Unreserved, Start
<1>31. CASE Resume
    BY <1>31 DEF TypeOK, Unreserved, Resume, hosts
<1> QED
        BY <1>1, <1>2, <1>3, <1>4, <1>5, <1>6, <1>7, <1>8, <1>9, <1>10, <1>11, <1>12, <1>13,
         <1>14, <1>15, <1>16, <1>17, <1>18, <1>19, <1>20, <1>21, <1>22, <1>23, <1>24, <1>25,
         <1>26, <1>27, <1>28, <1>29, <1>30, <1>31 DEF Next, Submission, Cancellation, Dispatch,
         Agent

\* Every step keeps the records of a Run in agreement with its goroutine.
LEMMA PlacesStep ==
    ASSUME TypeOK, TypeOK', Route, AtRest, Entrance, Recorded, CanceledIsOut, NoError, Places,
           Cancelings, Loaded, OnDisk, faults = 0, ~Fault, Next
    PROVE  Places'
<1> USE QueueAssumption, NoneDiffers
<1>1. ASSUME NEW r \in Runs, Submit(r) PROVE Places'
    BY <1>1 DEF TypeOK, Places, PlaceOf, Entered, Waiting, Heading, Idle, Submit, AdmissionFree,
         Goes, Ledger, Admitting, Intent, entries, scheduler, hosts, Entrance, Coming
<1>2. ASSUME NEW r \in Runs, Accept(r) PROVE Places'
    BY <1>2 DEF TypeOK, Places, PlaceOf, Entered, Waiting, Heading, Idle, Accept, Goes, Ledger,
         Intent, entries
<1>3. ASSUME NEW r \in Runs, MarkQueued(r) PROVE Places'
    BY <1>3 DEF TypeOK, Places, PlaceOf, Entered, Waiting, Heading, Idle, MarkQueued, Goes,
         Ledger, entries
<1>4. ASSUME NEW r \in Runs, Enqueue(r) PROVE Places'
    BY <1>4 DEF TypeOK, Places, PlaceOf, Entered, Waiting, Heading, Idle, Enqueue, Intent, Goes
<1>5. ASSUME NEW r \in Runs, Look(r) PROVE Places'
    BY <1>5 DEF TypeOK, Places, PlaceOf, Entered, Waiting, Heading, Idle, Look, StartScheduler,
         Goes, entries, disk, hosts, bounds, NoError, Route, RouteOf
<1>6. ASSUME NEW r \in Runs, Wake(r) PROVE Places'
    BY <1>6 DEF TypeOK, Places, PlaceOf, Entered, Waiting, Heading, Idle, Wake, Goes, entries,
         scheduler, disk, hosts, bounds, Cancelings, CancelingOf
<1>7. ASSUME NEW r \in Runs, FirstLook(r) PROVE Places'
    BY <1>7 DEF TypeOK, Places, PlaceOf, Entered, Waiting, Heading, Idle, FirstLook, WriteMarker,
         Goes, entries, ResetDispatch
<1>8. ASSUME NEW r \in Runs, Undo(r) PROVE Places'
    BY <1>8 DEF TypeOK, Places, PlaceOf, Entered, Waiting, Heading, Idle, Undo, Goes, entries,
         disk
<1>9. ASSUME NEW r \in Runs, Reenter(r) PROVE Places'
    BY <1>9 DEF TypeOK, Places, PlaceOf, Entered, Waiting, Heading, Idle, Reenter, Goes,
         AdmissionFree, Admitting, Intent, scheduler, hosts
<1>10. ASSUME NEW r \in Runs, Readmit(r) PROVE Places'
    BY <1>10 DEF TypeOK, Places, PlaceOf, Entered, Waiting, Heading, Idle, Readmit, Intent, Goes,
         entries
<1>11. ASSUME NEW r \in Runs, SecondLook(r) PROVE Places'
    BY <1>11 DEF TypeOK, Places, PlaceOf, Entered, Waiting, Heading, Idle, SecondLook, Goes,
         entries
<1>12. ASSUME NEW r \in Runs, Rollback(r) PROVE Places'
    BY <1>12 DEF TypeOK, Places, PlaceOf, Entered, Waiting, Heading, Idle, Rollback,
         ResetDispatch, Goes, entries, disk
<1>13. ASSUME NEW r \in Runs, Assign(r) PROVE Places'
    BY <1>13 DEF TypeOK, Places, PlaceOf, Entered, Waiting, Heading, Idle, Assign, Goes, Ledger,
         Intent, Delete, entries
<1>14. ASSUME NEW r \in Runs, RecordFailure(r) PROVE Places'
    BY <1>14 DEF TypeOK, Places, PlaceOf, Entered, Waiting, Heading, Idle, RecordFailure, Ledger,
         Goes, entries
<1>15. ASSUME NEW r \in Runs, RemoveFailed(r) PROVE Places'
    BY <1>15 DEF TypeOK, Places, PlaceOf, Entered, Waiting, Heading, Idle, RemoveFailed, Goes,
         Intent, Delete
<1>16. ASSUME NEW r \in Runs, Cancel(r) PROVE Places'
    BY <1>16 DEF TypeOK, Places, PlaceOf, Entered, Waiting, Heading, Idle, Cancel, Cancelable,
         Intent, waiters, scheduler, hosts, Entrance, Coming
<1>17. ASSUME NEW r \in Runs, CancelPrepare(r) PROVE Places'
    BY <1>17 DEF TypeOK, Places, PlaceOf, Entered, Waiting, Heading, Idle, CancelPrepare, Ledger,
         Ending, CancelFails, entries, Cancelings, CancelingOf
<1>18. ASSUME NEW r \in Runs, CancelCleanup(r) PROVE Places'
    BY <1>18 DEF TypeOK, Places, PlaceOf, Entered, Waiting, Heading, Idle, CancelCleanup, Ledger,
         CancelFails, entries, Cancelings, CancelingOf
<1>19. ASSUME NEW r \in Runs, CancelRemove(r) PROVE Places'
    BY <1>19 DEF TypeOK, Places, PlaceOf, Entered, Waiting, Heading, Idle, CancelRemove, Intent,
         Delete, entries, Cancelings, CancelingOf
<1>20. ASSUME NEW r \in Runs, Complete(r) PROVE Places'
    BY <1>20 DEF TypeOK, Places, PlaceOf, Entered, Waiting, Heading, Idle, Complete, Ledger,
         entries, waiters, Recorded, RecordedOf
<1>21. ASSUME NEW r \in Runs, Load(r) PROVE Places'
    BY <1>21 DEF TypeOK, Places, PlaceOf, Entered, Heading, Idle, Load, Drop, Intent,
         LoadCanceling, Ending, Ledger, Refuse, waiters
<1>22. ASSUME NEW h \in Hosts, LeaseExpires(h) PROVE Places'
    BY <1>22 DEF TypeOK, Places, PlaceOf, Entered, Waiting, Heading, Idle, LeaseExpires, entries,
         waiters, disk
<1>23. ASSUME NEW h \in Hosts, Register(h) PROVE Places'
    BY <1>23 DEF TypeOK, Places, PlaceOf, Entered, Waiting, Heading, Idle, Register, entries,
         waiters, disk
<1>24. ASSUME NEW h \in Hosts, HeartbeatExpired(h) PROVE Places'
    BY <1>24 DEF TypeOK, Places, PlaceOf, Entered, Waiting, Heading, Idle, HeartbeatExpired,
         entries, waiters, disk
<1>25. CASE BeginCycle
    BY <1>25 DEF TypeOK, Places, PlaceOf, Entered, Waiting, Heading, Idle, BeginCycle, waiters,
         disk, bounds
<1>26. CASE Visit
    BY <1>26, MinIn DEF TypeOK, Places, PlaceOf, Entered, Waiting, Heading, Idle, Visit, waiters,
         disk
<1>27. CASE Claimed
    BY <1>27 DEF TypeOK, Places, PlaceOf, Entered, Waiting, Heading, Idle, Claimed, Select, disk
<1>28. CASE EndCycle
    BY <1>28 DEF TypeOK, Places, PlaceOf, Entered, Waiting, Heading, Idle, EndCycle, disk
<1>29. CASE Stop
    BY <1>29 DEF TypeOK, Places, PlaceOf, Entered, Waiting, Heading, Idle, Stop, Ledger
<1>30. CASE Start
    BY <1>30 DEF TypeOK, Places, PlaceOf, Entered, Waiting, Heading, Idle, Start, entries, waiters
<1>31. CASE Resume
    BY <1>31 DEF TypeOK, Places, PlaceOf, Entered, Waiting, Heading, Idle, Resume, entries,
         scheduler, disk, hosts, bounds, Loaded, LoadedOf, AtRest, NoError, Recorded, RecordedOf
<1> QED
        BY <1>1, <1>2, <1>3, <1>4, <1>5, <1>6, <1>7, <1>8, <1>9, <1>10, <1>11, <1>12, <1>13,
         <1>14, <1>15, <1>16, <1>17, <1>18, <1>19, <1>20, <1>21, <1>22, <1>23, <1>24, <1>25,
         <1>26, <1>27, <1>28, <1>29, <1>30, <1>31 DEF Next, Submission, Cancellation, Dispatch,
         Agent

\* Every step of a cancellation, and every other step meanwhile, keeps its records in agreement.
LEMMA CancelingsStep ==
    ASSUME TypeOK, TypeOK', Route, AtRest, Entrance, Recorded, CanceledIsOut, NoError, Places,
           Cancelings, Loaded, OnDisk, faults = 0, ~Fault, Next
    PROVE  Cancelings'
<1> USE QueueAssumption, NoneDiffers
<1>1. ASSUME NEW r \in Runs, Submit(r) PROVE Cancelings'
    BY <1>1 DEF TypeOK, Cancelings, CancelingOf, Idle, Coming, Submit, Goes, Ledger, Admitting,
         Intent, entries
<1>2. ASSUME NEW r \in Runs, Accept(r) PROVE Cancelings'
    BY <1>2 DEF TypeOK, Cancelings, CancelingOf, Idle, Coming, Accept, Goes, Ledger, Intent,
         entries
<1>3. ASSUME NEW r \in Runs, MarkQueued(r) PROVE Cancelings'
    BY <1>3 DEF TypeOK, Cancelings, CancelingOf, Idle, Coming, MarkQueued, Goes, Ledger, entries
<1>4. ASSUME NEW r \in Runs, Enqueue(r) PROVE Cancelings'
    BY <1>4 DEF TypeOK, Cancelings, CancelingOf, Idle, Coming, Enqueue, Intent, Goes
<1>5. ASSUME NEW r \in Runs, Look(r) PROVE Cancelings'
    BY <1>5 DEF TypeOK, Cancelings, CancelingOf, Idle, Coming, Look, Goes, entries, disk,
         CanceledIsOut, NoError
<1>6. ASSUME NEW r \in Runs, Wake(r) PROVE Cancelings'
    BY <1>6 DEF TypeOK, Cancelings, CancelingOf, Idle, Coming, Wake, Goes, entries, disk
<1>7. ASSUME NEW r \in Runs, FirstLook(r) PROVE Cancelings'
    BY <1>7 DEF TypeOK, Cancelings, CancelingOf, Idle, Coming, FirstLook, Goes, entries,
         ResetDispatch
<1>8. ASSUME NEW r \in Runs, Undo(r) PROVE Cancelings'
    BY <1>8 DEF TypeOK, Cancelings, CancelingOf, Idle, Coming, Undo, Goes, entries, disk
<1>9. ASSUME NEW r \in Runs, Reenter(r) PROVE Cancelings'
    BY <1>9 DEF TypeOK, Cancelings, CancelingOf, Idle, Coming, Reenter, Goes, Admitting, Intent
<1>10. ASSUME NEW r \in Runs, Readmit(r) PROVE Cancelings'
    BY <1>10 DEF TypeOK, Cancelings, CancelingOf, Idle, Coming, Readmit, Intent, Goes, entries
<1>11. ASSUME NEW r \in Runs, SecondLook(r) PROVE Cancelings'
    BY <1>11 DEF TypeOK, Cancelings, CancelingOf, Idle, Coming, SecondLook, Goes, entries
<1>12. ASSUME NEW r \in Runs, Rollback(r) PROVE Cancelings'
    BY <1>12 DEF TypeOK, Cancelings, CancelingOf, Idle, Coming, Rollback, ResetDispatch, Goes,
         entries, disk
<1>13. ASSUME NEW r \in Runs, Assign(r) PROVE Cancelings'
    BY <1>13 DEF TypeOK, Cancelings, CancelingOf, Idle, Coming, Assign, Goes, Ledger, Intent,
         Delete, entries
<1>14. ASSUME NEW r \in Runs, RecordFailure(r) PROVE Cancelings'
    BY <1>14 DEF TypeOK, Cancelings, CancelingOf, Idle, Coming, RecordFailure, Ledger, Goes,
         entries
<1>15. ASSUME NEW r \in Runs, RemoveFailed(r) PROVE Cancelings'
    BY <1>15 DEF TypeOK, Cancelings, CancelingOf, Idle, Coming, RemoveFailed, Goes, Intent, Delete
<1>16. ASSUME NEW r \in Runs, Cancel(r) PROVE Cancelings'
    BY <1>16 DEF TypeOK, Cancelings, CancelingOf, Idle, Coming, Cancel, Cancelable, Intent,
         waiters, scheduler, hosts, Entrance, Places, PlaceOf, Entered, Heading
<1>17. ASSUME NEW r \in Runs, CancelPrepare(r) PROVE Cancelings'
    BY <1>17 DEF TypeOK, Cancelings, CancelingOf, Idle, Coming, CancelPrepare, Ledger, Ending,
         CancelFails, entries
<1>18. ASSUME NEW r \in Runs, CancelCleanup(r) PROVE Cancelings'
    BY <1>18 DEF TypeOK, Cancelings, CancelingOf, Idle, Coming, CancelCleanup, Ledger,
         CancelFails, entries
<1>19. ASSUME NEW r \in Runs, CancelRemove(r) PROVE Cancelings'
    BY <1>19 DEF TypeOK, Cancelings, CancelingOf, Idle, Coming, CancelRemove, Intent, Delete,
         entries
<1>20. ASSUME NEW r \in Runs, Complete(r) PROVE Cancelings'
    BY <1>20 DEF TypeOK, Cancelings, CancelingOf, Idle, Coming, Complete, Ledger, entries,
         waiters, CanceledIsOut
<1>21. ASSUME NEW r \in Runs, Load(r) PROVE Cancelings'
    BY <1>21 DEF TypeOK, Cancelings, CancelingOf, Idle, Coming, Load, Drop, Intent, LoadCanceling,
         Ending, Ledger, Refuse, waiters
<1>22. ASSUME NEW h \in Hosts, LeaseExpires(h) PROVE Cancelings'
    BY <1>22 DEF TypeOK, Cancelings, CancelingOf, Idle, Coming, LeaseExpires, entries, waiters,
         disk
<1>23. ASSUME NEW h \in Hosts, Register(h) PROVE Cancelings'
    BY <1>23 DEF TypeOK, Cancelings, CancelingOf, Idle, Coming, Register, entries, waiters, disk
<1>24. ASSUME NEW h \in Hosts, HeartbeatExpired(h) PROVE Cancelings'
    BY <1>24 DEF TypeOK, Cancelings, CancelingOf, Idle, Coming, HeartbeatExpired, entries,
         waiters, disk
<1>25. CASE BeginCycle
    BY <1>25 DEF TypeOK, Cancelings, CancelingOf, Idle, Coming, BeginCycle, waiters, disk
<1>26. CASE Visit
    BY <1>26, MinIn DEF TypeOK, Cancelings, CancelingOf, Idle, Coming, Visit, waiters, disk
<1>27. CASE Claimed
    BY <1>27 DEF TypeOK, Cancelings, CancelingOf, Idle, Coming, Claimed, disk
<1>28. CASE EndCycle
    BY <1>28 DEF TypeOK, Cancelings, CancelingOf, Idle, Coming, EndCycle, disk
<1>29. CASE Stop
    BY <1>29 DEF TypeOK, Cancelings, CancelingOf, Idle, Coming, Stop, Ledger
<1>30. CASE Start
    BY <1>30 DEF TypeOK, Cancelings, CancelingOf, Idle, Coming, Start, entries, waiters
<1>31. CASE Resume
    BY <1>31 DEF TypeOK, Cancelings, CancelingOf, Idle, Coming, Resume, entries, disk, AtRest,
         NoError
<1> QED
        BY <1>1, <1>2, <1>3, <1>4, <1>5, <1>6, <1>7, <1>8, <1>9, <1>10, <1>11, <1>12, <1>13,
         <1>14, <1>15, <1>16, <1>17, <1>18, <1>19, <1>20, <1>21, <1>22, <1>23, <1>24, <1>25,
         <1>26, <1>27, <1>28, <1>29, <1>30, <1>31 DEF Next, Submission, Cancellation, Dispatch,
         Agent

\* Every step of startup keeps the loaded entries and their records in agreement.
LEMMA LoadedStep ==
    ASSUME TypeOK, TypeOK', Route, AtRest, Entrance, Recorded, CanceledIsOut, NoError, Places,
           Cancelings, Loaded, OnDisk, faults = 0, ~Fault, Next
    PROVE  Loaded'
<1> USE QueueAssumption, NoneDiffers
<1>1. ASSUME NEW r \in Runs, Submit(r) PROVE Loaded'
    BY <1>1 DEF TypeOK, Loaded, LoadedOf, Entered, Submit, Ledger, Admitting, Intent, entries
<1>2. ASSUME NEW r \in Runs, Accept(r) PROVE Loaded'
    BY <1>2 DEF TypeOK, Loaded, LoadedOf, Entered, Waiting, Accept, Ledger, Intent, entries
<1>3. ASSUME NEW r \in Runs, MarkQueued(r) PROVE Loaded'
    BY <1>3 DEF TypeOK, Loaded, LoadedOf, Entered, Waiting, MarkQueued, Ledger, entries
<1>4. ASSUME NEW r \in Runs, Enqueue(r) PROVE Loaded'
    BY <1>4 DEF TypeOK, Loaded, LoadedOf, Entered, Waiting, Enqueue, Intent
<1>5. ASSUME NEW r \in Runs, Look(r) PROVE Loaded'
    BY <1>5 DEF TypeOK, Loaded, LoadedOf, Entered, Look, entries, disk
<1>6. ASSUME NEW r \in Runs, Wake(r) PROVE Loaded'
    BY <1>6 DEF TypeOK, Loaded, LoadedOf, Entered, Waiting, Wake, entries, disk
<1>7. ASSUME NEW r \in Runs, FirstLook(r) PROVE Loaded'
    BY <1>7 DEF TypeOK, Loaded, LoadedOf, Entered, Waiting, FirstLook, WriteMarker, entries,
         ResetDispatch
<1>8. ASSUME NEW r \in Runs, Undo(r) PROVE Loaded'
    BY <1>8 DEF TypeOK, Loaded, LoadedOf, Entered, Waiting, Undo, entries, disk
<1>9. ASSUME NEW r \in Runs, Reenter(r) PROVE Loaded'
    BY <1>9 DEF TypeOK, Loaded, LoadedOf, Entered, Reenter, Admitting, Intent
<1>10. ASSUME NEW r \in Runs, Readmit(r) PROVE Loaded'
    BY <1>10 DEF TypeOK, Loaded, LoadedOf, Entered, Waiting, Readmit, Intent, entries
<1>11. ASSUME NEW r \in Runs, SecondLook(r) PROVE Loaded'
    BY <1>11 DEF TypeOK, Loaded, LoadedOf, Entered, Waiting, SecondLook, entries
<1>12. ASSUME NEW r \in Runs, Rollback(r) PROVE Loaded'
    BY <1>12 DEF TypeOK, Loaded, LoadedOf, Entered, Waiting, Rollback, ResetDispatch, entries,
         disk
<1>13. ASSUME NEW r \in Runs, Assign(r) PROVE Loaded'
    BY <1>13 DEF TypeOK, Loaded, LoadedOf, Entered, Waiting, Assign, Ledger, Intent, Delete,
         entries
<1>14. ASSUME NEW r \in Runs, RecordFailure(r) PROVE Loaded'
    BY <1>14 DEF TypeOK, Loaded, LoadedOf, Entered, Waiting, RecordFailure, Ledger, entries
<1>15. ASSUME NEW r \in Runs, RemoveFailed(r) PROVE Loaded'
    BY <1>15 DEF TypeOK, Loaded, LoadedOf, Entered, Waiting, RemoveFailed, Intent, Delete
<1>16. ASSUME NEW r \in Runs, Cancel(r) PROVE Loaded'
    BY <1>16 DEF TypeOK, Loaded, LoadedOf, Entered, Waiting, Cancel, Intent
<1>17. ASSUME NEW r \in Runs, CancelPrepare(r) PROVE Loaded'
    BY <1>17 DEF TypeOK, Loaded, LoadedOf, Entered, Waiting, CancelPrepare, Ledger, Ending,
         CancelFails, entries
<1>18. ASSUME NEW r \in Runs, CancelCleanup(r) PROVE Loaded'
    BY <1>18 DEF TypeOK, Loaded, LoadedOf, Entered, Waiting, CancelCleanup, Ledger, CancelFails,
         entries
<1>19. ASSUME NEW r \in Runs, CancelRemove(r) PROVE Loaded'
    BY <1>19 DEF TypeOK, Loaded, LoadedOf, Entered, Waiting, CancelRemove, Intent, Delete, entries
<1>20. ASSUME NEW r \in Runs, Complete(r) PROVE Loaded'
    BY <1>20 DEF TypeOK, Loaded, LoadedOf, Entered, Waiting, Complete, Ledger, entries
<1>21. ASSUME NEW r \in Runs, Load(r) PROVE Loaded'
    BY <1>21 DEF TypeOK, Loaded, LoadedOf, Entered, Waiting, Load, Drop, Intent, LoadCanceling,
         Ending, Ledger, Refuse, waiters, scheduler, hosts, AtRest, Recorded, RecordedOf
<1>22. ASSUME NEW h \in Hosts, LeaseExpires(h) PROVE Loaded'
    BY <1>22 DEF TypeOK, Loaded, LoadedOf, Entered, Waiting, LeaseExpires, entries, disk
<1>23. ASSUME NEW h \in Hosts, Register(h) PROVE Loaded'
    BY <1>23 DEF TypeOK, Loaded, LoadedOf, Entered, Waiting, Register, entries, disk
<1>24. ASSUME NEW h \in Hosts, HeartbeatExpired(h) PROVE Loaded'
    BY <1>24 DEF TypeOK, Loaded, LoadedOf, Entered, Waiting, HeartbeatExpired, entries, disk
<1>25. CASE BeginCycle
    BY <1>25 DEF TypeOK, Loaded, LoadedOf, Entered, BeginCycle, disk
<1>26. CASE Visit
    BY <1>26, MinIn DEF TypeOK, Loaded, LoadedOf, Entered, Waiting, Visit, disk
<1>27. CASE Claimed
    BY <1>27 DEF TypeOK, Loaded, LoadedOf, Entered, Waiting, Claimed, disk
<1>28. CASE EndCycle
    BY <1>28 DEF TypeOK, Loaded, LoadedOf, Entered, Waiting, EndCycle, disk
<1>29. CASE Stop
    BY <1>29 DEF TypeOK, Loaded, LoadedOf, Entered, Waiting, Stop, Ledger
<1>30. CASE Start
    BY <1>30 DEF TypeOK, Loaded, LoadedOf, Entered, Waiting, Start, entries, AtRest
<1>31. CASE Resume
    BY <1>31 DEF TypeOK, Loaded, LoadedOf, Entered, Resume, entries, disk
<1> QED
        BY <1>1, <1>2, <1>3, <1>4, <1>5, <1>6, <1>7, <1>8, <1>9, <1>10, <1>11, <1>12, <1>13,
         <1>14, <1>15, <1>16, <1>17, <1>18, <1>19, <1>20, <1>21, <1>22, <1>23, <1>24, <1>25,
         <1>26, <1>27, <1>28, <1>29, <1>30, <1>31 DEF Next, Submission, Cancellation, Dispatch,
         Agent

\* Every step keeps the records of a Run in agreement.
LEMMA OnDiskStep ==
    ASSUME TypeOK, TypeOK', Route, AtRest, Entrance, Recorded, CanceledIsOut, NoError, Places,
           Cancelings, Loaded, OnDisk, faults = 0, ~Fault, Next
    PROVE  OnDisk'
<1> USE QueueAssumption, NoneDiffers
<1>1. ASSUME NEW r \in Runs, Submit(r) PROVE OnDisk'
    BY <1>1 DEF TypeOK, OnDisk, DiskOf, Terminal, Submit, Ledger, Admitting, Intent, Entrance,
         Coming
<1>2. ASSUME NEW r \in Runs, Accept(r) PROVE OnDisk'
    BY <1>2 DEF TypeOK, OnDisk, DiskOf, Terminal, Accept, Ledger, Intent, Places, PlaceOf,
         Entrance, Coming
<1>3. ASSUME NEW r \in Runs, MarkQueued(r) PROVE OnDisk'
    BY <1>3 DEF TypeOK, OnDisk, DiskOf, Terminal, MarkQueued, Ledger, Places, PlaceOf, Entrance,
         Coming
<1>4. ASSUME NEW r \in Runs, Enqueue(r) PROVE OnDisk'
    BY <1>4 DEF TypeOK, OnDisk, DiskOf, Terminal, Enqueue, Intent, Places, PlaceOf, Entrance,
         Coming
<1>5. ASSUME NEW r \in Runs, Look(r) PROVE OnDisk'
    BY <1>5 DEF TypeOK, OnDisk, DiskOf, Terminal, Look, disk
<1>6. ASSUME NEW r \in Runs, Wake(r) PROVE OnDisk'
    BY <1>6 DEF TypeOK, OnDisk, DiskOf, Terminal, Wake, disk
<1>7. ASSUME NEW r \in Runs, FirstLook(r) PROVE OnDisk'
    BY <1>7 DEF TypeOK, OnDisk, DiskOf, Terminal, FirstLook, WriteMarker, Places, PlaceOf,
         Entered, Heading, Route, RouteOf, Recorded, RecordedOf
<1>8. ASSUME NEW r \in Runs, Undo(r) PROVE OnDisk'
    BY <1>8 DEF TypeOK, OnDisk, DiskOf, Terminal, Undo, disk
<1>9. ASSUME NEW r \in Runs, Reenter(r) PROVE OnDisk'
    BY <1>9 DEF TypeOK, OnDisk, DiskOf, Terminal, Reenter, Goes, AdmissionFree, Waiting,
         Admitting, Intent, scheduler, hosts, Places, PlaceOf, Entered, Idle, Recorded, RecordedOf
<1>10. ASSUME NEW r \in Runs, Readmit(r) PROVE OnDisk'
    BY <1>10 DEF TypeOK, OnDisk, DiskOf, Terminal, Readmit, Intent, Places, PlaceOf, Entered,
         Idle, Recorded, RecordedOf
<1>11. ASSUME NEW r \in Runs, SecondLook(r) PROVE OnDisk'
    BY <1>11 DEF TypeOK, OnDisk, DiskOf, Terminal, SecondLook, Places, PlaceOf, Entered, Heading,
         Route, RouteOf, Recorded, RecordedOf
<1>12. ASSUME NEW r \in Runs, Rollback(r) PROVE OnDisk'
    BY <1>12 DEF TypeOK, OnDisk, DiskOf, Terminal, Rollback, disk
<1>13. ASSUME NEW r \in Runs, Assign(r) PROVE OnDisk'
    BY <1>13 DEF TypeOK, OnDisk, DiskOf, Terminal, Assign, Ledger, Intent
<1>14. ASSUME NEW r \in Runs, RecordFailure(r) PROVE OnDisk'
    BY <1>14 DEF TypeOK, OnDisk, DiskOf, Terminal, RecordFailure, Ledger, Places, PlaceOf,
         Entered, Heading, Route, RouteOf, Recorded, RecordedOf
<1>15. ASSUME NEW r \in Runs, RemoveFailed(r) PROVE OnDisk'
    BY <1>15 DEF TypeOK, OnDisk, DiskOf, Terminal, RemoveFailed, Intent, Places, PlaceOf, Entered,
         Heading, Route, RouteOf, Recorded, RecordedOf
<1>16. ASSUME NEW r \in Runs, Cancel(r) PROVE OnDisk'
    BY <1>16 DEF TypeOK, OnDisk, DiskOf, Terminal, Cancel, Cancelable, Intent, waiters, scheduler,
         hosts, Places, PlaceOf, Entered, Heading, Idle, Entrance, Coming, Recorded, RecordedOf
<1>17. ASSUME NEW r \in Runs, CancelPrepare(r) PROVE OnDisk'
    BY <1>17 DEF TypeOK, OnDisk, DiskOf, Terminal, CancelPrepare, Ledger, Ending, CancelFails,
         Cancelings, CancelingOf, CanceledIsOut
<1>18. ASSUME NEW r \in Runs, CancelCleanup(r) PROVE OnDisk'
    BY <1>18 DEF TypeOK, OnDisk, DiskOf, Terminal, CancelCleanup, Ledger, CancelFails, Cancelings,
         CancelingOf, CanceledIsOut
<1>19. ASSUME NEW r \in Runs, CancelRemove(r) PROVE OnDisk'
    BY <1>19 DEF TypeOK, OnDisk, DiskOf, Terminal, CancelRemove, Intent, Cancelings, CancelingOf,
         CanceledIsOut
<1>20. ASSUME NEW r \in Runs, Complete(r) PROVE OnDisk'
    BY <1>20 DEF TypeOK, OnDisk, DiskOf, Terminal, Complete, Ledger
<1>21. ASSUME NEW r \in Runs, Load(r) PROVE OnDisk'
    BY <1>21 DEF TypeOK, OnDisk, DiskOf, Terminal, Load, Drop, Intent, LoadCanceling, Ending,
         Ledger, Refuse
<1>22. ASSUME NEW h \in Hosts, LeaseExpires(h) PROVE OnDisk'
    BY <1>22 DEF TypeOK, OnDisk, DiskOf, Terminal, LeaseExpires, disk
<1>23. ASSUME NEW h \in Hosts, Register(h) PROVE OnDisk'
    BY <1>23 DEF TypeOK, OnDisk, DiskOf, Terminal, Register, disk
<1>24. ASSUME NEW h \in Hosts, HeartbeatExpired(h) PROVE OnDisk'
    BY <1>24 DEF TypeOK, OnDisk, DiskOf, Terminal, HeartbeatExpired, disk
<1>25. CASE BeginCycle
    BY <1>25 DEF TypeOK, OnDisk, DiskOf, Terminal, BeginCycle, disk
<1>26. CASE Visit
    BY <1>26, MinIn DEF TypeOK, OnDisk, DiskOf, Terminal, Visit, disk
<1>27. CASE Claimed
    BY <1>27 DEF TypeOK, OnDisk, DiskOf, Terminal, Claimed, disk
<1>28. CASE EndCycle
    BY <1>28 DEF TypeOK, OnDisk, DiskOf, Terminal, EndCycle, disk
<1>29. CASE Stop
    BY <1>29 DEF TypeOK, OnDisk, DiskOf, Terminal, Stop, Ledger, Route, RouteOf
<1>30. CASE Start
    BY <1>30 DEF TypeOK, OnDisk, DiskOf, Terminal, Start
<1>31. CASE Resume
    BY <1>31 DEF TypeOK, OnDisk, DiskOf, Terminal, Resume, disk
<1> QED
        BY <1>1, <1>2, <1>3, <1>4, <1>5, <1>6, <1>7, <1>8, <1>9, <1>10, <1>11, <1>12, <1>13,
         <1>14, <1>15, <1>16, <1>17, <1>18, <1>19, <1>20, <1>21, <1>22, <1>23, <1>24, <1>25,
         <1>26, <1>27, <1>28, <1>29, <1>30, <1>31 DEF Next, Submission, Cancellation, Dispatch,
         Agent

\* Every step keeps a reserved Host with someone who gives it back or assigns it.
LEMMA StrandedStep ==
    ASSUME TypeOK, TypeOK', Route, AtRest, Entrance, Recorded, CanceledIsOut, NoError, Places,
           Cancelings, Loaded, OnDisk, Unreserved, NoStrandedHost, faults = 0, ~Fault, Next
    PROVE  NoStrandedHost'
<1> USE QueueAssumption, NoneDiffers
<1>1. ASSUME NEW r \in Runs, Submit(r) PROVE NoStrandedHost'
    BY <1>1 DEF TypeOK, NoStrandedHost, Submit, Goes, entries, scheduler, hosts
<1>2. ASSUME NEW r \in Runs, Accept(r) PROVE NoStrandedHost'
    BY <1>2 DEF TypeOK, NoStrandedHost, Accept, Goes, entries, scheduler, hosts
<1>3. ASSUME NEW r \in Runs, MarkQueued(r) PROVE NoStrandedHost'
    BY <1>3 DEF TypeOK, NoStrandedHost, MarkQueued, Goes, entries, scheduler, hosts
<1>4. ASSUME NEW r \in Runs, Enqueue(r) PROVE NoStrandedHost'
    BY <1>4 DEF TypeOK, NoStrandedHost, Enqueue, Goes, scheduler, hosts
<1>5. ASSUME NEW r \in Runs, Look(r) PROVE NoStrandedHost'
    BY <1>5 DEF TypeOK, NoStrandedHost, Look, Goes, entries, hosts, bounds
<1>6. ASSUME NEW r \in Runs, Wake(r) PROVE NoStrandedHost'
    BY <1>6 DEF TypeOK, NoStrandedHost, Wake, Goes, entries, scheduler, hosts, bounds, Cancelings,
         CancelingOf
<1>7. ASSUME NEW r \in Runs, FirstLook(r) PROVE NoStrandedHost'
    BY <1>7 DEF TypeOK, NoStrandedHost, FirstLook, Goes, entries, ResetHost, ResetDispatch,
         scheduler
<1>8. ASSUME NEW r \in Runs, Undo(r) PROVE NoStrandedHost'
    BY <1>8 DEF TypeOK, NoStrandedHost, Undo, Goes, entries, scheduler
<1>9. ASSUME NEW r \in Runs, Reenter(r) PROVE NoStrandedHost'
    BY <1>9 DEF TypeOK, NoStrandedHost, Reenter, Goes, scheduler, hosts
<1>10. ASSUME NEW r \in Runs, Readmit(r) PROVE NoStrandedHost'
    BY <1>10 DEF TypeOK, NoStrandedHost, Readmit, Goes, entries, scheduler, hosts, bounds
<1>11. ASSUME NEW r \in Runs, SecondLook(r) PROVE NoStrandedHost'
    BY <1>11 DEF TypeOK, NoStrandedHost, SecondLook, Goes, entries, scheduler
<1>12. ASSUME NEW r \in Runs, Rollback(r) PROVE NoStrandedHost'
    BY <1>12 DEF TypeOK, NoStrandedHost, Rollback, ResetHost, ResetDispatch, Goes, entries,
         scheduler, bounds
<1>13. ASSUME NEW r \in Runs, Assign(r) PROVE NoStrandedHost'
    BY <1>13 DEF TypeOK, NoStrandedHost, Assign, Goes, Delete, entries, scheduler
<1>14. ASSUME NEW r \in Runs, RecordFailure(r) PROVE NoStrandedHost'
    BY <1>14 DEF TypeOK, NoStrandedHost, RecordFailure, Goes, entries, scheduler
<1>15. ASSUME NEW r \in Runs, RemoveFailed(r) PROVE NoStrandedHost'
    BY <1>15 DEF TypeOK, NoStrandedHost, RemoveFailed, Goes, Delete, scheduler, hosts
<1>16. ASSUME NEW r \in Runs, Cancel(r) PROVE NoStrandedHost'
    BY <1>16 DEF TypeOK, NoStrandedHost, Cancel, waiters, scheduler, hosts
<1>17. ASSUME NEW r \in Runs, CancelPrepare(r) PROVE NoStrandedHost'
    BY <1>17 DEF TypeOK, NoStrandedHost, CancelPrepare, Ending, CancelFails, entries, scheduler,
         hosts
<1>18. ASSUME NEW r \in Runs, CancelCleanup(r) PROVE NoStrandedHost'
    BY <1>18 DEF TypeOK, NoStrandedHost, CancelCleanup, CancelFails, entries, scheduler, hosts
<1>19. ASSUME NEW r \in Runs, CancelRemove(r) PROVE NoStrandedHost'
    BY <1>19 DEF TypeOK, NoStrandedHost, CancelRemove, Delete, entries, scheduler, hosts,
         CanceledIsOut
<1>20. ASSUME NEW r \in Runs, Complete(r) PROVE NoStrandedHost'
    BY <1>20 DEF TypeOK, NoStrandedHost, Complete, entries, waiters, scheduler, bounds
<1>21. ASSUME NEW r \in Runs, Load(r) PROVE NoStrandedHost'
    BY <1>21 DEF TypeOK, NoStrandedHost, Load, Drop, LoadCanceling, Ending, Refuse, waiters,
         scheduler, hosts
<1>22. ASSUME NEW h \in Hosts, LeaseExpires(h) PROVE NoStrandedHost'
    BY <1>22 DEF TypeOK, NoStrandedHost, LeaseExpires, entries, waiters, scheduler
<1>23. ASSUME NEW h \in Hosts, Register(h) PROVE NoStrandedHost'
    BY <1>23 DEF TypeOK, NoStrandedHost, Register, entries, waiters, scheduler, bounds
<1>24. ASSUME NEW h \in Hosts, HeartbeatExpired(h) PROVE NoStrandedHost'
    BY <1>24 DEF TypeOK, NoStrandedHost, HeartbeatExpired, entries, waiters, scheduler, bounds
<1>25. CASE BeginCycle
    <2>1. ASSUME NEW k \in Hosts, hstate'[k] = "reserving" PROVE hstate[k] = "reserving"
        <3>1. hstate' = hstate \/ hstate'[k] \in {"offline", hstate[k]}
            BY <1>25 DEF BeginCycle
        <3> QED
            BY <2>1, <3>1
    <2>2. UNCHANGED <<phase, claim, selected, place, at, faults>>
        BY <1>25 DEF BeginCycle, waiters, bounds
    <2> QED
        BY <2>1, <2>2 DEF NoStrandedHost
<1>26. CASE Visit
    <2>1. Min(visit) \in Hosts
        BY <1>26, MinIn DEF Visit, TypeOK
    <2>2. UNCHANGED <<phase, selected, place, at, faults>> /\ claim = None
        BY <1>26 DEF Visit, waiters, bounds
    <2>3. ASSUME NEW k \in Hosts, hstate'[k] = "reserving", hstate[k] # "reserving"
          PROVE  claim' # None /\ claim'[2] = k
        BY <2>1, <2>3, <1>26, NoneAssumption DEF Visit, Candidates, TypeOK
    <2> QED
        BY <2>2, <2>3 DEF NoStrandedHost
<1>27. CASE Claimed
    <2>1. PICK r \in Runs, h \in Hosts : claim = <<r, h>>
        BY <1>27, ClaimPair DEF Claimed
    <2>2. UNCHANGED <<phase, place, at, faults>> /\ phase = "up" /\ claim' = None
        BY <1>27 DEF Claimed, Fault
    <2>3. \A k \in Hosts \ {h} : hstate'[k] = hstate[k]
        BY <2>1, <1>27 DEF Claimed, ResetHost, TypeOK
    <2>4. \A s \in Runs : selected[s] # None => selected'[s] = selected[s]
        BY <2>1, <1>27 DEF Claimed, Select, TypeOK
    <2>5. hstate'[h] = "reserving" =>
            r \in dispatching \ canceled /\ selected[r] = None /\ selected'[r] = h
        BY <2>1, <1>27 DEF Claimed, ResetHost, Select, TypeOK
    <2>6. r \in dispatching \ canceled /\ selected[r] = None => place[r] \in Idle
        BY <2>2 DEF TypeOK, Places, PlaceOf, Heading, Idle, Entrance, Coming
    <2>7. h # None /\ \A k \in Hosts : k # None
        BY QueueAssumption
    <2>8. ASSUME NEW k \in Hosts \ {h}, hstate'[k] = "reserving"
          PROVE  \/ \E s \in Runs : selected'[s] = k /\ place'[s] \in {"undo", "again", "loop", "blocked"}
                 \/ \E s \in Runs : at'[s] = k /\ place'[s] \in {"chosen", "marker", "rollback", "failing"}
        <3>1. hstate[k] = "reserving" /\ claim[2] # k
            BY <2>1, <2>3, <2>8
        <3>2. \/ \E s \in Runs : selected[s] = k /\ place[s] \in {"undo", "again", "loop", "blocked"}
              \/ \E s \in Runs : at[s] = k /\ place[s] \in {"chosen", "marker", "rollback", "failing"}
            BY <2>2, <3>1 DEF NoStrandedHost
        <3> QED
            BY <2>2, <2>4, <2>7, <3>2
    <2> QED
        BY <2>2, <2>5, <2>6, <2>8 DEF NoStrandedHost, Idle
<1>28. CASE EndCycle
    BY <1>28 DEF TypeOK, NoStrandedHost, EndCycle, hosts, bounds
<1>29. CASE Stop
    BY <1>29 DEF TypeOK, NoStrandedHost, Stop
<1>30. CASE Start
    BY <1>30 DEF TypeOK, NoStrandedHost, Start, entries, waiters, scheduler, bounds
<1>31. CASE Resume
    BY <1>31 DEF TypeOK, NoStrandedHost, Resume, entries, scheduler, hosts, bounds, Unreserved
<1> QED
        BY <1>1, <1>2, <1>3, <1>4, <1>5, <1>6, <1>7, <1>8, <1>9, <1>10, <1>11, <1>12, <1>13,
         <1>14, <1>15, <1>16, <1>17, <1>18, <1>19, <1>20, <1>21, <1>22, <1>23, <1>24, <1>25,
         <1>26, <1>27, <1>28, <1>29, <1>30, <1>31 DEF Next, Submission, Cancellation, Dispatch,
         Agent


\* A step after which no write has failed is one in which none does.
LEMMA NoFault == ASSUME TypeOK, Next, faults' = 0 PROVE faults = 0 /\ ~Fault
<1>1. faults \in Nat
    BY DEF TypeOK
<1>2. ~Fault
    BY <1>1 DEF Fault
<1>3. ASSUME NEW r \in Runs, Submission(r) PROVE faults' = faults
    BY <1>2, <1>3 DEF Submission, Submit, Accept, MarkQueued, Enqueue, Look, Wake, FirstLook, Undo, Reenter,
         Readmit, SecondLook, Rollback, Assign, RecordFailure, RemoveFailed, bounds
<1>4. ASSUME NEW r \in Runs, Cancellation(r) PROVE faults' = faults
    BY <1>2, <1>4 DEF Cancellation, Cancel, CancelPrepare, CancelCleanup, CancelRemove, CancelFails
<1>5. ASSUME NEW r \in Runs, Load(r) PROVE faults' = faults
    BY <1>2, <1>5 DEF Load, Drop, LoadCanceling, Refuse
<1>6. ASSUME NEW r \in Runs, Complete(r) PROVE faults' = faults
    BY <1>6 DEF Complete, bounds
<1>7. ASSUME Dispatch PROVE faults' = faults
    BY <1>2, <1>7 DEF Dispatch, BeginCycle, Visit, Claimed, EndCycle, bounds
<1>8. ASSUME NEW h \in Hosts, Agent(h) PROVE faults' = faults
    BY <1>8 DEF Agent, LeaseExpires, Register, HeartbeatExpired, bounds
<1>9. ASSUME Stop \/ Start \/ Resume PROVE faults' = faults
    BY <1>9 DEF Stop, Start, Resume, bounds
<1> QED
    BY <1>2, <1>3, <1>4, <1>5, <1>6, <1>7, <1>8, <1>9 DEF Next

\* A Control Plane that has never run satisfies the second invariant.
LEMMA InitFaultFree == Init => FaultFree
<1> SUFFICES ASSUME Init PROVE FaultFree
    OBVIOUS
<1>1. NoError /\ Loaded /\ Room /\ Unreserved /\ NoStrandedHost
    BY DEF Init, NoError, Loaded, Room, Unreserved, NoStrandedHost
<1>2. Places /\ Cancelings
    BY NoneDiffers DEF Init, Places, PlaceOf, Cancelings, CancelingOf, Heading, Idle
<1>3. OnDisk
    BY NoneDiffers DEF Init, OnDisk, DiskOf
<1> QED
    BY <1>1, <1>2, <1>3 DEF FaultFree

\* Every step without a failing write keeps it.
LEMMA NextFaultFree == ASSUME IInv, IInv', FaultFree, [Next]_vars PROVE FaultFree'
<1>1. CASE Next
    <2> SUFFICES ASSUME faults' = 0
                 PROVE  /\ NoError' /\ Places' /\ Cancelings' /\ Loaded' /\ OnDisk' /\ Room'
                        /\ Unreserved' /\ NoStrandedHost'
        BY DEF FaultFree
    <2>1. faults = 0 /\ ~Fault
        BY <1>1, NoFault DEF IInv
    <2>2. NoError /\ Places /\ Cancelings /\ Loaded /\ OnDisk /\ Room /\ Unreserved /\ NoStrandedHost
        BY <2>1 DEF FaultFree
    <2>3. NoError'
        BY <1>1, <2>1, <2>2, NoErrorStep DEF IInv
    <2>4. Places'
        BY <1>1, <2>1, <2>2, PlacesStep DEF IInv
    <2>5. Cancelings'
        BY <1>1, <2>1, <2>2, CancelingsStep DEF IInv
    <2>6. Loaded'
        BY <1>1, <2>1, <2>2, LoadedStep DEF IInv
    <2>7. OnDisk'
        BY <1>1, <2>1, <2>2, OnDiskStep DEF IInv
    <2>8. Room'
        BY <1>1, <2>1, <2>2, RoomStep DEF IInv
    <2>9. Unreserved'
        BY <1>1, <2>1, <2>2, UnreservedStep DEF IInv
    <2>10. NoStrandedHost'
        BY <1>1, <2>1, <2>2, StrandedStep DEF IInv
    <2> QED
        BY <2>3, <2>4, <2>5, <2>6, <2>7, <2>8, <2>9, <2>10
<1>2. CASE UNCHANGED vars
    <2>1. NoError' <=> NoError
        BY <1>2 DEF NoError, vars, entries, waiters, scheduler
    <2>2. Waiting' = Waiting
        BY <1>2 DEF Waiting, vars, entries
    <2>3. (Places' <=> Places) /\ (Loaded' <=> Loaded)
        BY <1>2, <2>2 DEF Places, PlaceOf, Loaded, LoadedOf, Entered, vars, entries, waiters, disk
    <2>4. (Cancelings' <=> Cancelings) /\ (OnDisk' <=> OnDisk)
        BY <1>2 DEF Cancelings, CancelingOf, OnDisk, DiskOf, vars, entries, waiters, disk
    <2>5. Owed' = Owed
        BY <1>2 DEF Owed, vars, disk
    <2>6. (Room' <=> Room) /\ (Unreserved' <=> Unreserved)
        BY <1>2, <2>5 DEF Room, Unreserved, vars, hosts
    <2>7. NoStrandedHost' <=> NoStrandedHost
        BY <1>2 DEF NoStrandedHost, vars, entries, waiters, scheduler, hosts, bounds
    <2>8. faults' = faults
        BY <1>2 DEF vars, bounds
    <2> QED
        BY <2>1, <2>3, <2>4, <2>6, <2>7, <2>8 DEF FaultFree
<1> QED
    BY <1>1, <1>2

\* As long as no write failed, memory, disk and Hosts agree: the second inductive
\* invariant.
THEOREM FaultFreeInvariance == Spec => []FaultFree
    BY Invariance, InitFaultFree, NextFaultFree, PTL DEF Spec

\* An accepted Run that is not over is owned on disk, at every step and through
\* every stop, as long as no write failed.
THEOREM AcceptedOwned == Spec => []AcceptedIsOwned
<1>1. IInv /\ FaultFree => AcceptedIsOwned
    BY NoneDiffers DEF IInv, TypeOK, FaultFree, OnDisk, DiskOf, AcceptedIsOwned, Terminal
<1> QED
    BY <1>1, Invariance, FaultFreeInvariance, PTL

\* A cancellation on disk cannot return to dispatch as long as no write failed.
THEOREM CancelWins == Spec => []CancelCannotReturn
<1>1. IInv /\ FaultFree => CancelCannotReturn
    <2> SUFFICES ASSUME IInv, FaultFree, faults = 0, NEW r \in Runs, intent[r] = "canceling"
                 PROVE  selected[r] = None /\ asg[r] = None
        BY DEF CancelCannotReturn, CancelIntentWins
    <2>1. asg[r] = None
        BY DEF FaultFree, OnDisk, DiskOf
    <2>2. CASE phase # "up"
        BY <2>1, <2>2 DEF IInv, AtRest
    <2>3. CASE phase = "up"
        <3>1. r \in canceled
            BY <2>3, NoneDiffers DEF FaultFree, Places, PlaceOf, Entered, Heading, Idle, IInv, TypeOK, Entrance
        <3> QED
            BY <2>1, <2>3, <3>1 DEF FaultFree, Cancelings, CancelingOf, IInv, CanceledIsOut
    <2> QED
        BY <2>2, <2>3
<1> QED
    BY <1>1, Invariance, FaultFreeInvariance, PTL

\* Startup goes on from every state the process can stop in as long as no write
\* failed: the records fit the ledger, and the queue has room for all of them.
THEOREM StartupGoesOn == Spec => []StartupAccepts
<1>1. FaultFree => StartupAccepts
    BY DEF FaultFree, NoError, StartupAccepts
<1> QED
    BY <1>1, FaultFreeInvariance, PTL

\* A reserved Host is always someone's, as long as no write failed.
THEOREM NoHostStranded == Spec => []NoStrandedHost
<1>1. FaultFree => NoStrandedHost
    BY DEF FaultFree, NoStrandedHost
<1> QED
    BY <1>1, FaultFreeInvariance, PTL

\* The outcome of a Run is written once, as long as no write failed.
THEOREM OutcomeFinal == Spec => OutcomeIsFinal
<1> DEFINE Final == \A r \in Runs : faults' = 0 /\ ledger[r] \in Terminal => ledger'[r] = ledger[r]
<1>1. ASSUME IInv, FaultFree, [Next]_vars PROVE [Final]_vars
    <2> SUFFICES ASSUME Next, NEW s \in Runs, faults' = 0, ledger[s] \in Terminal
                 PROVE  ledger'[s] = ledger[s]
        BY <1>1 DEF vars, disk
    <2>1. faults = 0 /\ ~Fault
        BY <1>1, NoFault DEF IInv
    <2>2. TypeOK /\ Route /\ Entrance
        BY <1>1 DEF IInv
    <2>3. Places /\ Cancelings /\ OnDisk
        BY <1>1, <2>1 DEF FaultFree
    <2>4. ASSUME NEW r \in Runs, Submission(r) PROVE ledger'[s] = ledger[s]
        <3>1. CASE Submit(r)
            BY <3>1, <2>2, NoneDiffers DEF Submit, Ledger, Entrance, TypeOK
        <3>2. CASE Accept(r) \/ MarkQueued(r)
            BY <3>2, <2>1, <2>2, <2>3, NoneDiffers DEF Accept, MarkQueued, Ledger, Places, PlaceOf, TypeOK, Terminal
        <3>3. CASE Assign(r) \/ RecordFailure(r)
            BY <3>3, <2>1, <2>2, <2>3 DEF Assign, RecordFailure, Ledger, Places, PlaceOf, Entered,
                 Heading, TypeOK, Terminal
        <3>4. CASE Enqueue(r) \/ Look(r) \/ Wake(r) \/ FirstLook(r) \/ Undo(r) \/ Reenter(r) \/ Readmit(r)
            BY <3>4 DEF Enqueue, Look, Wake, FirstLook, Undo, Reenter, Readmit, disk
        <3>5. CASE SecondLook(r) \/ Rollback(r) \/ RemoveFailed(r)
            BY <3>5 DEF SecondLook, Rollback, RemoveFailed, disk
        <3> QED
            BY <2>4, <3>1, <3>2, <3>3, <3>4, <3>5 DEF Submission
    <2>5. ASSUME NEW r \in Runs, Cancellation(r) PROVE ledger'[s] = ledger[s]
        BY <2>5, <2>1, <2>2, <2>3 DEF Cancellation, Cancel, CancelPrepare, CancelCleanup, CancelRemove,
             CancelFails, Ledger, Cancelings, CancelingOf, TypeOK, Terminal, Ending
    <2>6. ASSUME NEW r \in Runs, Complete(r) PROVE ledger'[s] = ledger[s]
        BY <2>6, <2>2, <2>3 DEF Complete, Ledger, OnDisk, DiskOf, TypeOK, Terminal
    <2>7. ASSUME NEW r \in Runs, Load(r) PROVE ledger'[s] = ledger[s]
        BY <2>7, <2>1, <2>2, <2>3 DEF Load, LoadCanceling, Drop, Refuse, Ledger, OnDisk, DiskOf, TypeOK,
             Terminal, Ending
    <2>8. CASE Dispatch
        BY <2>8 DEF Dispatch, BeginCycle, Visit, Claimed, EndCycle, disk
    <2>9. ASSUME NEW h \in Hosts, Agent(h) PROVE ledger'[s] = ledger[s]
        BY <2>9 DEF Agent, LeaseExpires, Register, HeartbeatExpired, disk
    <2>10. CASE Stop
        BY <2>10, <2>2, <2>3 DEF Stop, Ledger, Places, PlaceOf, Entered, Heading, TypeOK, Terminal
    <2>11. CASE Start
        BY <2>11, <2>2, <2>3 DEF Start, OnDisk, DiskOf, TypeOK, Terminal
    <2>12. CASE Resume
        BY <2>12 DEF Resume, disk
    <2> QED
        BY <2>4, <2>5, <2>6, <2>7, <2>8, <2>9, <2>10, <2>11, <2>12 DEF Next
<1> QED
    BY <1>1, Invariance, FaultFreeInvariance, PTL DEF Spec, OutcomeIsFinal

=============================================================================
