------------------------------ MODULE RunQueue ------------------------------
(***************************************************************************)
(* The Control Plane's durable Run queue (internal/cli/run_queue.go, with  *)
(* the part of runScenarioThroughHostAgent that turns a queued Run into an *)
(* assignment): admission, dispatch, cancellation, recovery.               *)
(*                                                                         *)
(* Four kinds of actors interleave: a submission goroutine per Run, the    *)
(* scheduler goroutine, the cancellation handlers and the Agents (lease    *)
(* expiry, registration, completion).  handler.mu is held for the length   *)
(* of one action; what the code does after an unlock is another action.    *)
(* Every durable write is a place where the process may stop, and may fail *)
(* with or without having taken effect.                                    *)
(***************************************************************************)
EXTENDS Naturals, FiniteSets, FiniteSetsExt

CONSTANTS Runs,        \* Run IDs, numbered: IDs are compared
          Hosts,       \* Host IDs, numbered, one Agent each
          Fits,        \* the Hosts each Run is compatible with
          Unwanted,    \* the Runs an operator may cancel
          MaxQueue,    \* maximumControlPlaneQueuedRuns
          MaxFaults,   \* bound on failing writes
          MaxStops,    \* bound on Control Plane stops
          MaxChanges,  \* bound on lease expiries and capability changes
          None

Terminal == {"completed", "failed", "canceled", "cleanup-failed"}

ASSUME QueueAssumption ==
    /\ Runs \subseteq Nat /\ Hosts \subseteq Nat /\ None \notin Nat
    /\ Fits \in [Runs -> SUBSET Hosts] /\ Unwanted \subseteq Runs
    /\ MaxQueue \in Nat /\ MaxFaults \in Nat /\ MaxStops \in Nat /\ MaxChanges \in Nat
ASSUME NoneAssumption ==
    None \notin (Runs \X Hosts) \cup Terminal \cup
        {"admitting", "submitted", "queued", "canceling", "marker", "assigned", "quarantined",
         "prepare", "cleanup", "remove"}

VARIABLES
    phase,       \* "up", "down", "loading" or "refused" (startup failed)
    todo,        \* Runs whose queue intent is still to be loaded
    \* handler.queuedRuns: its keys and the fields of its entries.
    queued, dispatching, canceled, selected, selErr, contended,
    cancelStep,  \* where cancelQueuedRun is while cancellationActive
    \* The submission goroutines.
    place,       \* where the goroutine of a Run is
    at,          \* the Agent it was handed
    signal,      \* Runs with a token in their ready channel
    released,    \* Runs whose done channel is closed
    admitter,    \* the Run that holds queueAdmissionMu
    \* The scheduler.
    sched,       \* queueSchedulerRunning
    cycle,       \* whether a dispatch cycle runs (queueDispatchMu)
    visit,       \* ready Hosts the cycle has still to visit
    claim,       \* <<Run, Host>> while the Host Lock is being acquired
    errs,        \* selectionErrors
    \* Disk.
    intent,      \* state of the queue record
    ledger,      \* state of the Run Ledger record
    accepted,    \* its AcceptedAt
    asg,         \* assignment record, or its write-ahead marker
    home,        \* the Host that record or marker names
    \* Hosts.
    hstate, live, lock,
    \* Bounds.
    clock, faults, stops, changes

entries   == <<queued, dispatching, canceled, selected, selErr, contended>>
waiters   == <<place, at, signal, released, admitter>>
scheduler == <<sched, cycle, visit, claim, errs>>
disk      == <<intent, ledger, accepted, asg, home>>
hosts     == <<hstate, live, lock>>
bounds    == <<clock, faults, stops, changes>>
vars == <<phase, todo, entries, cancelStep, waiters, scheduler, disk, hosts, bounds>>


\* waitingQueueCountLocked counts these.
Waiting == queued \ canceled

\* orderedQueuedRunsLocked: by acceptance time, then by Run ID.
Earlier(r, s) == accepted[r] < accepted[s] \/ (accepted[r] = accepted[s] /\ r < s)

Init ==
    /\ phase = "up" /\ todo = {}
    /\ queued = {} /\ dispatching = {} /\ canceled = {}
    /\ selected = [r \in Runs |-> None]
    /\ selErr = {} /\ contended = {}
    /\ cancelStep = [r \in Runs |-> None]
    /\ place = [r \in Runs |-> "new"]
    /\ at = [r \in Runs |-> None]
    /\ signal = {} /\ released = {} /\ admitter = None
    /\ sched = FALSE /\ cycle = FALSE /\ visit = {} /\ claim = None /\ errs = {}
    /\ intent = [r \in Runs |-> None]
    /\ ledger = [r \in Runs |-> None]
    /\ accepted = [r \in Runs |-> 0]
    /\ asg = [r \in Runs |-> None]
    /\ home = [r \in Runs |-> None]
    /\ hstate = [h \in Hosts |-> "ready"]
    /\ live = [h \in Hosts |-> TRUE]
    /\ lock = [h \in Hosts |-> None]
    /\ clock = 0 /\ faults = 0 /\ stops = 0 /\ changes = 0

-----------------------------------------------------------------------------
(* Helpers.                                                                *)

\* A write or removal fails; what the handler then writes to repair it may fail too.
Fault == faults < MaxFaults /\ faults' = faults + 1

Goes(r, to) == place' = [place EXCEPT ![r] = to]
Intent(r, s) == intent' = [intent EXCEPT ![r] = s]
Ledger(r, s) == ledger' = [ledger EXCEPT ![r] = s]

\* Faulty variant: part of the entry stays.
DeleteInPart(r) ==
    /\ queued' = queued \ {r}
    /\ UNCHANGED <<dispatching, canceled, selected, selErr, contended>>

\* delete(handler.queuedRuns, runID)
Delete(r) ==
    /\ queued' = queued \ {r}
    /\ dispatching' = dispatching \ {r}
    /\ canceled' = canceled \ {r}
    /\ selected' = [selected EXCEPT ![r] = None]
    /\ selErr' = selErr \ {r}
    /\ contended' = contended \ {r}

\* resetQueuedDispatchLocked
ResetDispatch(r) ==
    /\ dispatching' = dispatching \ {r}
    /\ selected' = [selected EXCEPT ![r] = None]
    /\ selErr' = selErr \ {r}
    /\ contended' = contended \ {r}
    /\ UNCHANGED <<queued, canceled>>

\* removeRepoHostLockForRun: a lock of another Run is left alone.
Unlock(r, h) == lock' = IF lock[h] = r THEN [lock EXCEPT ![h] = None] ELSE lock

Busy(h) == hstate[h] \in {"reserving", "locked"} /\ live[h]

-----------------------------------------------------------------------------
(* Admission (queueHostAgentRun).  queueAdmissionMu is held from the       *)
(* capacity check until the Run is in the queue.                           *)

Admissible(r) == \E h \in Fits[r] : live[h] /\ hstate[h] \in {"ready", "reserving", "locked"}

Full == Cardinality(Waiting) >= MaxQueue

\* Faulty variant: submissions are admitted side by side.
AdmissionUnlocked == TRUE

\* queueAdmissionMu is free.
AdmissionFree == admitter = None

\* Faulty variant: the Run is accepted first.
AcceptFirst(r) == UNCHANGED intent

\* The "admitting" record precedes acceptance.
Admitting(r) == Intent(r, "admitting")

\* A full queue answers 429 and leaves nothing; without a compatible Host the
\* Run is accepted and failed on the spot (failHostAgentSelection); otherwise
\* the "admitting" intent is written.
Submit(r) ==
    /\ phase = "up" /\ place[r] = "new" /\ AdmissionFree
    /\ \/ /\ Full /\ Goes(r, "gone")
          /\ UNCHANGED <<admitter, intent, ledger, faults>>
       \/ /\ ~Full /\ ~Admissible(r)
          /\ Goes(r, "gone") /\ Ledger(r, "failed")
          /\ UNCHANGED <<admitter, intent, faults>>
       \/ /\ ~Full /\ Admissible(r)
          /\ Goes(r, "admitting") /\ Admitting(r) /\ admitter' = r
          /\ UNCHANGED <<ledger, faults>>
       \/ /\ ~Full /\ Admissible(r) /\ Fault
          /\ intent' \in {intent, [intent EXCEPT ![r] = "admitting"]}
          /\ Goes(r, "gone") /\ Ledger(r, "failed")
          /\ UNCHANGED admitter
    /\ UNCHANGED <<phase, todo, entries, cancelStep, at, signal, released, scheduler,
                   accepted, asg, home, hosts, clock, stops, changes>>

\* run.accept() creates the ledger.  Two acceptances may read the same time.
Accept(r) ==
    /\ phase = "up" /\ place[r] = "admitting"
    /\ \/ /\ Goes(r, "accepted") /\ Ledger(r, "submitted")
          /\ \E t \in {clock, clock + 1} : clock' = t /\ accepted' = [accepted EXCEPT ![r] = t]
          /\ UNCHANGED <<admitter, intent, faults>>
       \* it fails: the intent is removed, the Run failed if it can be
       \/ /\ Fault
          /\ Goes(r, "gone") /\ Intent(r, None)
          /\ ledger' \in {ledger, [ledger EXCEPT ![r] = "failed"]}
          /\ admitter' = None
          /\ UNCHANGED <<clock, accepted>>
    /\ UNCHANGED <<phase, todo, entries, cancelStep, at, signal, released, scheduler,
                   asg, home, hosts, stops, changes>>

\* The queued event and ledger state, then the "queued" record and the entry.
\* An error publishes acceptance, gives up the mutex and fails the Run.
MarkQueued(r) ==
    /\ phase = "up" /\ place[r] = "accepted"
    /\ \/ Goes(r, "marked") /\ Ledger(r, "queued") /\ UNCHANGED <<admitter, faults>>
       \/ /\ Fault /\ Goes(r, "failing") /\ admitter' = None
          /\ ledger' \in {ledger, [ledger EXCEPT ![r] = "queued"]}
    /\ UNCHANGED <<phase, todo, entries, cancelStep, at, signal, released, scheduler,
                   intent, accepted, asg, home, hosts, clock, stops, changes>>

Enqueue(r) ==
    /\ phase = "up" /\ place[r] = "marked"
    /\ admitter' = None
    /\ \/ /\ Intent(r, "queued") /\ queued' = queued \cup {r} /\ Goes(r, "loop")
          /\ UNCHANGED faults
       \/ /\ Fault
          /\ intent' \in {intent, [intent EXCEPT ![r] = "queued"]}
          /\ Goes(r, "failing")
          /\ UNCHANGED queued
    /\ UNCHANGED <<phase, todo, dispatching, canceled, selected, selErr, contended, cancelStep,
                   at, signal, released, scheduler, ledger, accepted, asg, home, hosts,
                   clock, stops, changes>>

-----------------------------------------------------------------------------
(* The wait loop of the submission goroutine.                              *)

\* startQueueSchedulerLocked
StartScheduler == IF sched \/ Waiting = {} THEN sched ELSE TRUE

\* queuedSelectionLocked
Look(r) ==
    /\ phase = "up" /\ place[r] = "loop"
    /\ sched' = StartScheduler
    /\ IF selected[r] # None
       THEN Goes(r, "chosen") /\ at' = [at EXCEPT ![r] = selected[r]]
       ELSE /\ Goes(r, IF r \in selErr THEN "failing" ELSE "blocked")
            /\ UNCHANGED at
    /\ UNCHANGED <<phase, todo, entries, cancelStep, signal, released, admitter,
                   cycle, visit, claim, errs, disk, hosts, bounds>>

\* The select on the ready and done channels.
Wake(r) ==
    /\ phase = "up" /\ place[r] = "blocked"
    /\ \/ r \in signal /\ signal' = signal \ {r} /\ Goes(r, "loop")
       \/ r \in released /\ Goes(r, "gone") /\ UNCHANGED signal
    /\ UNCHANGED <<phase, todo, entries, cancelStep, at, released, admitter, scheduler,
                   disk, hosts, bounds>>

-----------------------------------------------------------------------------
(* The scheduler (dispatchQueuedRuns).                                     *)

\* Ready Hosts whose lease has run out go offline; the others are visited.
BeginCycle ==
    /\ phase = "up" /\ sched /\ ~cycle
    /\ IF Waiting = {}
       THEN sched' = FALSE /\ UNCHANGED <<cycle, visit, contended, hstate>>
       ELSE /\ cycle' = TRUE
            /\ visit' = {h \in Hosts : hstate[h] = "ready" /\ live[h]}
            /\ hstate' = [h \in Hosts |-> IF hstate[h] = "ready" /\ ~live[h]
                                          THEN "offline" ELSE hstate[h]]
            /\ contended' = {}
            /\ UNCHANGED sched
    /\ UNCHANGED <<phase, todo, queued, dispatching, canceled, selected, selErr, cancelStep,
                   waiters, claim, errs, disk, live, lock, bounds>>

Candidates(h) == {r \in queued \ (dispatching \cup canceled) : h \in Fits[r]}

\* The next Host, in Host ID order, claims the earliest compatible Run.
Visit ==
    LET h == Min(visit) IN
    /\ phase = "up" /\ cycle /\ claim = None /\ visit # {}
    /\ visit' = visit \ {h}
    /\ IF hstate[h] = "ready" /\ live[h] /\ Candidates(h) # {}
       THEN \E r \in Candidates(h) :
              /\ \A s \in Candidates(h) \ {r} : Earlier(r, s)
              /\ dispatching' = dispatching \cup {r}
              /\ hstate' = [hstate EXCEPT ![h] = "reserving"]
              /\ claim' = <<r, h>>
       ELSE UNCHANGED <<dispatching, hstate, claim>>
    /\ UNCHANGED <<phase, todo, queued, canceled, selected, selErr, contended, cancelStep,
                   waiters, sched, cycle, errs, disk, live, lock, bounds>>

\* Faulty variant: the Host of a lost process keeps its reservation.
ResetLiveHost(h) ==
    hstate' = IF hstate[h] = "reserving" /\ live[h] THEN [hstate EXCEPT ![h] = "ready"] ELSE hstate

\* resetQueueHostClaimLocked
ResetHost(h) ==
    hstate' = IF hstate[h] # "reserving" THEN hstate
              ELSE [hstate EXCEPT ![h] = IF live[h] THEN "ready" ELSE "offline"]

\* Faulty variant: the waiting goroutine is not told.
SelectSilently(r, h) == selected' = [selected EXCEPT ![r] = h] /\ UNCHANGED signal

Select(r, h) == selected' = [selected EXCEPT ![r] = h] /\ signal' = signal \cup {r}

\* Faulty variant: the reservation alone is trusted.
LockIgnored(h) == TRUE

\* acquireHostLock finds no lock file.
LockFree(h) == lock[h] = None

\* The Host Lock was acquired, was held, or could not be had; the claim is looked
\* at again.  A Run can leave the queue meanwhile only if its goroutine is failing.
Claimed ==
    LET r == claim[1]
        h == claim[2]
        current == r \in dispatching \ canceled /\ selected[r] = None
        eligible == current /\ hstate[h] = "reserving" /\ live[h]
        giveUp == /\ ResetHost(h)
                  /\ dispatching' = IF current THEN dispatching \ {r} ELSE dispatching
                  /\ UNCHANGED <<selected, signal, selErr>>
    IN
    /\ phase = "up" /\ claim # None
    /\ claim' = None
    /\ \/ \* acquired, and still eligible
          /\ LockFree(h) /\ eligible
          /\ lock' = [lock EXCEPT ![h] = r]
          /\ Select(r, h)
          /\ errs' = errs \ {r}
          /\ selErr' = selErr \ {r} /\ contended' = contended \ {r}
          /\ UNCHANGED <<dispatching, hstate, faults, changes>>
       \/ \* acquired, but the Host or its capabilities changed: released again
          /\ LockFree(h)
          /\ IF eligible THEN changes < MaxChanges /\ changes' = changes + 1
                         ELSE UNCHANGED changes
          /\ giveUp
          /\ \/ UNCHANGED <<lock, errs, faults>>
             \/ Fault /\ lock' = [lock EXCEPT ![h] = r] /\ errs' = errs \cup {r}
          /\ UNCHANGED contended
       \/ \* held by another Run
          /\ ~LockFree(h)
          /\ giveUp
          /\ contended' = IF current THEN contended \cup {r} ELSE contended
          /\ UNCHANGED <<lock, errs, faults, changes>>
       \/ \* an error
          /\ Fault
          /\ giveUp
          /\ errs' = errs \cup {r}
          /\ UNCHANGED <<lock, contended, changes>>
    /\ UNCHANGED <<phase, todo, queued, canceled, cancelStep, place, at, released, admitter,
                   sched, cycle, visit, disk, live, clock, stops>>

\* A Run whose Hosts all failed to lock is given its error, unless it may wait for one.
EndCycle ==
    LET failed == {r \in errs \cap queued :
                     /\ r \notin dispatching \cup canceled \cup contended
                     /\ ~\E h \in Fits[r] : Busy(h)}
    IN
    /\ phase = "up" /\ cycle /\ visit = {} /\ claim = None
    /\ cycle' = FALSE /\ errs' = {}
    /\ selErr' = selErr \cup failed
    /\ dispatching' = dispatching \cup failed
    /\ signal' = signal \cup failed
    /\ UNCHANGED <<phase, todo, queued, canceled, selected, contended, cancelStep,
                   place, at, released, admitter, sched, visit, claim, disk, hosts, bounds>>

-----------------------------------------------------------------------------
(* From the reservation to the assignment (runScenarioThroughHostAgent).   *)

\* A stale marker of another Run on the Host is overwritten.
WriteMarker(r, h) ==
    /\ asg' = [u \in Runs |-> IF u = r THEN "marker"
                              ELSE IF asg[u] = "marker" /\ home[u] = h THEN None ELSE asg[u]]
    /\ home' = [home EXCEPT ![r] = h]

\* The first look: the Host is still reserved and alive, and the write-ahead
\* marker is written; or the dispatch is undone and the lock released after it.
FirstLook(r) ==
    LET h == at[r] IN
    /\ phase = "up" /\ place[r] = "chosen"
    /\ \/ /\ hstate[h] = "reserving" /\ live[h]
          /\ WriteMarker(r, h) /\ Goes(r, "marker")
          /\ UNCHANGED <<entries, hstate, lock, faults>>
       \/ /\ ~(hstate[h] = "reserving" /\ live[h])
          /\ ResetHost(h)
          /\ ResetDispatch(r) /\ Goes(r, "undo")
          /\ UNCHANGED <<asg, home, lock, faults>>
       \* marking the lock, or writing the marker, fails: failBeforeTransition
       \/ /\ Fault
          /\ \/ UNCHANGED <<asg, home>>
             \/ hstate[h] = "reserving" /\ live[h] /\ WriteMarker(r, h)
          /\ Unlock(r, h) /\ Goes(r, "failing")
          /\ UNCHANGED <<entries, hstate>>
    /\ UNCHANGED <<phase, todo, cancelStep, at, signal, released, admitter, scheduler,
                   intent, ledger, accepted, live, clock, stops, changes>>

Undo(r) ==
    /\ phase = "up" /\ place[r] = "undo"
    /\ \/ Unlock(r, at[r]) /\ Goes(r, "again") /\ UNCHANGED faults
       \/ Fault /\ Goes(r, "failing") /\ UNCHANGED lock
    /\ UNCHANGED <<phase, todo, entries, cancelStep, at, signal, released, admitter, scheduler,
                   disk, hstate, live, clock, stops, changes>>

\* queueHostAgentRun again.  A Run that was canceled meanwhile has no entry and
\* goes through admission, where its ledger makes acceptance fail.
Reenter(r) ==
    /\ phase = "up" /\ place[r] = "again"
    /\ at' = [at EXCEPT ![r] = None]
    /\ IF r \in queued
       THEN /\ \/ Goes(r, "loop") /\ UNCHANGED <<dispatching, selErr, faults>>
               \* the accepted Run cannot be loaded: the entry stays, inert
               \/ /\ Fault /\ Goes(r, "gone")
                  /\ dispatching' = dispatching \cup {r} /\ selErr' = selErr \cup {r}
            /\ UNCHANGED <<intent, admitter>>
       ELSE /\ AdmissionFree
            /\ \/ (Full \/ ~Admissible(r)) /\ Goes(r, "gone") /\ UNCHANGED <<intent, admitter>>
               \/ /\ ~Full /\ Admissible(r)
                  /\ Goes(r, "readmitting") /\ Admitting(r) /\ admitter' = r
            /\ UNCHANGED <<dispatching, selErr, faults>>
    /\ UNCHANGED <<phase, todo, queued, canceled, selected, contended, cancelStep,
                   signal, released, scheduler, ledger, accepted, asg, home, hosts,
                   clock, stops, changes>>

Readmit(r) ==
    /\ phase = "up" /\ place[r] = "readmitting"
    /\ Intent(r, None) /\ admitter' = None /\ Goes(r, "gone")
    /\ UNCHANGED <<phase, todo, entries, cancelStep, at, signal, released, scheduler,
                   ledger, accepted, asg, home, hosts, bounds>>

\* The second look fails: marker and lock are removed without handler.mu.
SecondLook(r) ==
    LET h == at[r] IN
    /\ phase = "up" /\ place[r] = "marker"
    /\ IF hstate[h] = "reserving" /\ live[h]
       THEN changes < MaxChanges /\ changes' = changes + 1 ELSE UNCHANGED changes
    /\ \/ /\ asg' = [asg EXCEPT ![r] = None] /\ Unlock(r, h) /\ Goes(r, "rollback")
          /\ UNCHANGED faults
       \/ /\ Fault /\ asg' \in {asg, [asg EXCEPT ![r] = None]}
          /\ lock' \in {lock, [lock EXCEPT ![h] = None]} /\ Goes(r, "failing")
    /\ UNCHANGED <<phase, todo, entries, cancelStep, at, signal, released, admitter, scheduler,
                   intent, ledger, accepted, home, hstate, live, clock, stops>>

Rollback(r) ==
    /\ phase = "up" /\ place[r] = "rollback"
    /\ IF hstate[at[r]] = "reserving"
       THEN ResetHost(at[r]) /\ ResetDispatch(r) /\ Goes(r, "again")
       ELSE Goes(r, "failing") /\ UNCHANGED <<hstate, entries>>
    /\ UNCHANGED <<phase, todo, cancelStep, at, signal, released, admitter, scheduler, disk,
                   live, lock, bounds>>

\* Commit(assigned), then the queue record, then the marker.  If one of the three
\* fails the Host is quarantined and the Run failed, and the queue record goes
\* once the quarantined assignment is durable; if that fails too, the marker
\* stays and the entry is inert, or gone.
Assign(r) ==
    LET h == at[r] IN
    /\ phase = "up" /\ place[r] = "marker" /\ hstate[h] = "reserving" /\ live[h]
    /\ Goes(r, "gone")
    /\ \/ /\ asg' = [asg EXCEPT ![r] = "assigned"]
          /\ Ledger(r, "submitted")
          /\ Intent(r, None) /\ Delete(r)
          /\ hstate' = [hstate EXCEPT ![h] = "locked"]
          /\ UNCHANGED faults
       \/ /\ Fault
          /\ Ledger(r, "failed")
          /\ hstate' = [hstate EXCEPT ![h] = "quarantined"]
          /\ \/ asg' = [asg EXCEPT ![r] = "quarantined"] /\ Intent(r, None) /\ Delete(r)
             \/ UNCHANGED <<asg, intent, entries>>
             \/ UNCHANGED asg /\ Intent(r, None) /\ Delete(r)
    /\ UNCHANGED <<phase, todo, cancelStep, at, signal, released, admitter, scheduler,
                   accepted, home, live, lock, clock, stops, changes>>

\* The accepted Run failed before the transition: the Host it holds is given
\* back, the failure is recorded, and then the queue record is removed.
RecordFailure(r) ==
    LET h == at[r] IN
    /\ phase = "up" /\ place[r] = "failing"
    /\ hstate' = IF h # None /\ hstate[h] = "reserving"
                 THEN [hstate EXCEPT ![h] = "ready"] ELSE hstate
    /\ \/ Ledger(r, "failed") /\ Goes(r, "failed") /\ UNCHANGED faults
       \/ Fault /\ Goes(r, "gone") /\ UNCHANGED ledger
    /\ UNCHANGED <<phase, todo, entries, cancelStep, at, signal, released, admitter, scheduler,
                   intent, accepted, asg, home, live, lock, clock, stops, changes>>

\* removeQueuedRunLocked: an entry whose record cannot be removed is left inert.
RemoveFailed(r) ==
    /\ phase = "up" /\ place[r] = "failed"
    /\ Goes(r, "gone")
    /\ \/ Intent(r, None) /\ Delete(r) /\ UNCHANGED faults
       \/ /\ Fault
          /\ intent' \in {intent, [intent EXCEPT ![r] = None]}
          /\ canceled' = canceled \cup ({r} \cap queued)
          /\ UNCHANGED <<queued, dispatching, selected, selErr, contended>>
    /\ UNCHANGED <<phase, todo, cancelStep, at, signal, released, admitter, scheduler,
                   ledger, accepted, asg, home, hosts, clock, stops, changes>>

-----------------------------------------------------------------------------
(* Cancellation (cancelQueuedRun).                                         *)

\* Faulty variant: a Run may be canceled while it is being dispatched.
CancelableAnyTime(r) == r \in queued /\ cancelStep[r] = None

Cancelable(r) == r \in queued \ dispatching /\ cancelStep[r] = None

\* The "canceling" record comes first; a failing write is undone in memory.
Cancel(r) ==
    /\ phase = "up" /\ r \in Unwanted /\ Cancelable(r)
    /\ \/ /\ r \in canceled
          /\ cancelStep' = [cancelStep EXCEPT ![r] = "prepare"]
          /\ UNCHANGED <<canceled, intent, faults>>
       \/ /\ r \notin canceled
          /\ canceled' = canceled \cup {r}
          /\ Intent(r, "canceling")
          /\ cancelStep' = [cancelStep EXCEPT ![r] = "prepare"]
          /\ UNCHANGED faults
       \/ /\ r \notin canceled /\ Fault
          /\ intent' \in {intent, [intent EXCEPT ![r] = "canceling"]}
          /\ UNCHANGED <<canceled, cancelStep>>
    /\ UNCHANGED <<phase, todo, queued, dispatching, selected, selErr, contended, waiters,
                   scheduler, ledger, accepted, asg, home, hosts, clock, stops, changes>>

\* Faulty variant: a cancellation that got further is not recognized.
EndingBegun == {"canceling"}

\* Ledger states from which a cancellation is repeated.
Ending == {"canceling", "canceled", "cleanup-failed"}

\* A failed cancellation can be repeated; if its ledger is terminal the
\* submitter is released.
CancelFails(r, s) ==
    /\ Fault
    /\ Ledger(r, s)
    /\ cancelStep' = [cancelStep EXCEPT ![r] = None]
    /\ released' = IF s \in {"canceled", "cleanup-failed"} THEN released \cup {r} ELSE released

\* prepareQueuedRunCancellation, unless the ledger says it was done before.
CancelPrepare(r) ==
    /\ phase = "up" /\ cancelStep[r] = "prepare"
    /\ \/ /\ Ledger(r, IF ledger[r] \in Ending THEN ledger[r] ELSE "canceling")
          /\ cancelStep' = [cancelStep EXCEPT ![r] = "cleanup"]
          /\ UNCHANGED <<released, faults>>
       \/ ledger[r] \notin Ending /\ \E s \in {ledger[r], "canceling"} : CancelFails(r, s)
    /\ UNCHANGED <<phase, todo, entries, place, at, signal, admitter, scheduler,
                   intent, accepted, asg, home, hosts, clock, stops, changes>>

\* cleanupQueuedRunCancellation
CancelCleanup(r) ==
    /\ phase = "up" /\ cancelStep[r] = "cleanup"
    /\ \/ /\ Ledger(r, "canceled")
          /\ cancelStep' = [cancelStep EXCEPT ![r] = "remove"]
          /\ UNCHANGED <<released, faults>>
       \/ \E s \in {ledger[r], "cleanup-failed"} : CancelFails(r, s)
    /\ UNCHANGED <<phase, todo, entries, place, at, signal, admitter, scheduler,
                   intent, accepted, asg, home, hosts, clock, stops, changes>>

CancelRemove(r) ==
    /\ phase = "up" /\ cancelStep[r] = "remove"
    /\ cancelStep' = [cancelStep EXCEPT ![r] = None]
    /\ released' = released \cup {r}
    /\ \/ Intent(r, None) /\ Delete(r) /\ UNCHANGED faults
       \/ /\ Fault /\ intent' \in {intent, [intent EXCEPT ![r] = None]}
          /\ UNCHANGED entries
    /\ UNCHANGED <<phase, todo, place, at, signal, admitter, scheduler,
                   ledger, accepted, asg, home, hosts, clock, stops, changes>>

-----------------------------------------------------------------------------
(* The Agents, as the queue sees them (HostAgentFence has the rest).       *)

LeaseExpires(h) ==
    /\ phase = "up" /\ live[h] /\ hstate[h] \in {"ready", "reserving"}
    /\ changes < MaxChanges /\ changes' = changes + 1
    /\ live' = [live EXCEPT ![h] = FALSE]
    /\ UNCHANGED <<phase, todo, entries, cancelStep, waiters, scheduler, disk, hstate, lock,
                   clock, faults, stops>>

\* A new process of the Agent, or the old one finding its lease expired.
Register(h) ==
    /\ phase = "up" /\ ~live[h] /\ hstate[h] \in {"offline", "ready", "reserving"}
    /\ live' = [live EXCEPT ![h] = TRUE]
    /\ hstate' = [hstate EXCEPT ![h] = "ready"]
    /\ UNCHANGED <<phase, todo, entries, cancelStep, waiters, scheduler, disk, lock, bounds>>

HeartbeatExpired(h) ==
    /\ phase = "up" /\ ~live[h] /\ hstate[h] \in {"ready", "reserving"}
    /\ hstate' = [hstate EXCEPT ![h] = "offline"]
    /\ UNCHANGED <<phase, todo, entries, cancelStep, waiters, scheduler, disk, live, lock,
                   bounds>>

\* The assignment ends and the Host is free, offline until a process registers.
Complete(r) ==
    LET h == home[r] IN
    /\ phase = "up" /\ asg[r] = "assigned"
    /\ asg' = [asg EXCEPT ![r] = "completed"]
    /\ Ledger(r, "completed")
    /\ hstate' = [hstate EXCEPT ![h] = "offline"]
    /\ live' = [live EXCEPT ![h] = FALSE]
    /\ Unlock(r, h)
    /\ UNCHANGED <<phase, todo, entries, cancelStep, waiters, scheduler, intent, accepted, home,
                   bounds>>

-----------------------------------------------------------------------------
(* Stop and restart (loadHostAgentState, loadControlPlaneQueue,            *)
(* resumeControlPlaneQueue).                                               *)

Stop ==
    /\ phase \in {"up", "loading"} /\ stops < MaxStops
    /\ stops' = stops + 1
    /\ phase' = "down"
    \* the process may stop in Assign, before the marker is removed
    /\ \/ UNCHANGED <<intent, ledger>>
       \/ \E r \in Runs : /\ phase = "up" /\ place[r] = "marker"
                          /\ hstate[at[r]] = "reserving" /\ live[at[r]]
                          /\ Ledger(r, "submitted")
                          /\ intent' \in {intent, [intent EXCEPT ![r] = None]}
    /\ todo' = {}
    /\ queued' = {} /\ dispatching' = {} /\ canceled' = {}
    /\ selected' = [r \in Runs |-> None]
    /\ selErr' = {} /\ contended' = {}
    /\ cancelStep' = [r \in Runs |-> None]
    /\ place' = [r \in Runs |-> IF place[r] = "new" THEN "new" ELSE "gone"]
    /\ at' = [r \in Runs |-> None]
    /\ signal' = {} /\ released' = {} /\ admitter' = None
    /\ sched' = FALSE /\ cycle' = FALSE /\ visit' = {} /\ claim' = None /\ errs' = {}
    /\ live' = [h \in Hosts |-> FALSE]
    /\ UNCHANGED <<accepted, asg, home, hstate, lock, clock, faults, changes>>

\* Markers become quarantined assignments, whose Run is failed.  The locks of
\* the dead process are stale, but for those of the assignments.
Start ==
    LET active == {r \in Runs : asg[r] \in {"marker", "assigned", "quarantined"}}
        marked == {r \in Runs : asg[r] = "marker"}
    IN
    /\ phase = "down"
    /\ phase' = "loading"
    /\ todo' = {r \in Runs : intent[r] # None}
    /\ asg' = [r \in Runs |-> IF r \in marked THEN "quarantined" ELSE asg[r]]
    /\ ledger' = [r \in Runs |-> IF r \in marked THEN "failed" ELSE ledger[r]]
    /\ hstate' = [h \in Hosts |->
         IF \E r \in active : home[r] = h /\ asg[r] # "assigned" THEN "quarantined"
         ELSE IF \E r \in active : home[r] = h THEN "locked" ELSE "offline"]
    /\ lock' = [h \in Hosts |-> IF \E r \in active : home[r] = h
                                THEN CHOOSE r \in active : home[r] = h ELSE None]
    /\ UNCHANGED <<entries, cancelStep, waiters, scheduler, intent, accepted, home, live, bounds>>

\* The record and the ledger do not go together: startup fails.
Refuse == phase' = "refused" /\ UNCHANGED <<todo, queued, canceled, intent, ledger, faults>>

Drop(r) == Intent(r, None) /\ todo' = todo \ {r} /\ UNCHANGED <<phase, queued, canceled, faults>>

\* Faulty variant: startup takes a "canceling" record for a "queued" one.
Requeue(r) ==
    /\ queued' = queued \cup {r} /\ todo' = todo \ {r}
    /\ UNCHANGED <<phase, canceled, intent, ledger, faults>>

\* A "canceling" record: the durable cancel wins over dispatch.
LoadCanceling(r) ==
    \/ ledger[r] \in {"submitted", "queued"} \cup Ending /\ Ledger(r, "canceled") /\ Drop(r)
    \* the cancellation fails again and waits, inert, for the operator to repeat it
    \/ /\ ledger[r] \in {"submitted", "queued"} \cup Ending /\ Fault
       /\ queued' = queued \cup {r} /\ canceled' = canceled \cup {r}
       /\ \E s \in {"cleanup-failed"} \cup (IF ledger[r] \in Ending THEN {ledger[r]}
                                          ELSE {"queued", "canceling"}) : Ledger(r, s)
       /\ todo' = todo \ {r}
       /\ UNCHANGED <<phase, intent>>
    \/ ledger[r] \notin {"submitted", "queued"} \cup Ending /\ Refuse

Load(r) ==
    /\ phase = "loading" /\ r \in todo
    /\ \/ /\ asg[r] \in {"assigned", "quarantined"}
          /\ Drop(r) /\ UNCHANGED ledger
       \/ /\ asg[r] \notin {"assigned", "quarantined"} /\ intent[r] = "canceling"
          /\ LoadCanceling(r)
       \/ /\ asg[r] \notin {"assigned", "quarantined"} /\ intent[r] # "canceling"
          /\ \/ /\ ledger[r] \in Terminal \/ (ledger[r] = None /\ intent[r] = "admitting")
                /\ Drop(r) /\ UNCHANGED ledger
             \/ /\ ledger[r] \in {"submitted", "queued"}
                /\ IF intent[r] = "queued" /\ Full
                   THEN Refuse
                   ELSE /\ Ledger(r, "queued") /\ Intent(r, "queued")
                        /\ IF Full THEN phase' = "refused" /\ UNCHANGED <<queued, todo>>
                                   ELSE /\ queued' = queued \cup {r} /\ todo' = todo \ {r}
                                        /\ UNCHANGED phase
                        /\ UNCHANGED <<canceled, faults>>
             \/ /\ ledger[r] \notin Terminal \cup {"submitted", "queued"}
                /\ ~(ledger[r] = None /\ intent[r] = "admitting")
                /\ Refuse
    /\ UNCHANGED <<dispatching, selected, selErr, contended, cancelStep, waiters, scheduler,
                   accepted, asg, home, hosts, clock, stops, changes>>

Resume ==
    /\ phase = "loading" /\ todo = {}
    /\ phase' = "up"
    /\ place' = [r \in Runs |-> IF r \in Waiting THEN "again" ELSE place[r]]
    /\ UNCHANGED <<todo, entries, cancelStep, at, signal, released, admitter, scheduler, disk,
                   hosts, bounds>>

-----------------------------------------------------------------------------

Submission(r) ==
    \/ Submit(r) \/ Accept(r) \/ MarkQueued(r) \/ Enqueue(r) \/ Look(r) \/ Wake(r)
    \/ FirstLook(r) \/ Undo(r) \/ Reenter(r) \/ Readmit(r)
    \/ SecondLook(r) \/ Rollback(r) \/ Assign(r) \/ RecordFailure(r) \/ RemoveFailed(r)

Cancellation(r) == Cancel(r) \/ CancelPrepare(r) \/ CancelCleanup(r) \/ CancelRemove(r)

Dispatch == BeginCycle \/ Visit \/ Claimed \/ EndCycle

Agent(h) == LeaseExpires(h) \/ Register(h) \/ HeartbeatExpired(h)

Next ==
    \/ \E r \in Runs : Submission(r) \/ Cancellation(r) \/ Complete(r) \/ Load(r)
    \/ Dispatch
    \/ \E h \in Hosts : Agent(h)
    \/ Stop \/ Start \/ Resume

Spec == Init /\ [][Next]_vars

\* Goroutines run on, requests that were begun are carried through, a stopped
\* Control Plane is started again, Agents come back and assignments end.
\* Submission, cancellation, failures, lease expiry and stops are not forced.
\* Nothing blocks between the marker and the assignment, so other goroutines do
\* not come between the two time and again.
Fairness ==
    /\ \A r \in Runs : WF_vars(place[r] # "new" /\ Submission(r)) /\ SF_vars(Assign(r))
    /\ WF_vars(\E r \in Runs : cancelStep[r] # None /\ Cancellation(r))
    /\ WF_vars(Dispatch)
    /\ WF_vars((\E r \in Runs : Complete(r)) \/ (\E h \in Hosts : Register(h)))
    /\ WF_vars(Start \/ (\E r \in Runs : Load(r)) \/ Resume)

FairSpec == Spec /\ Fairness

-----------------------------------------------------------------------------
(* Properties.                                                             *)

\* Every variable has its type.
TypeOK ==
    /\ phase \in {"up", "down", "loading", "refused"} /\ todo \subseteq Runs
    /\ {queued, dispatching, canceled, selErr, contended, signal, released, errs} \subseteq SUBSET Runs
    /\ dispatching \cup canceled \subseteq queued
    /\ selected \in [Runs -> Hosts \cup {None}] /\ at \in [Runs -> Hosts \cup {None}]
    /\ \A r \in Runs : selected[r] # None => r \in dispatching
    /\ cancelStep \in [Runs -> {None, "prepare", "cleanup", "remove"}]
    /\ place \in [Runs -> {"new", "admitting", "accepted", "marked", "loop", "blocked", "chosen",
                           "undo", "again", "readmitting", "marker", "rollback", "failing",
                           "failed", "gone"}]
    /\ admitter \in Runs \cup {None} /\ {sched, cycle} \subseteq BOOLEAN /\ visit \subseteq Hosts
    /\ claim \in (Runs \X Hosts) \cup {None}
    /\ intent \in [Runs -> {None, "admitting", "queued", "canceling"}]
    /\ ledger \in [Runs -> {None, "submitted", "queued", "canceling"} \cup Terminal]
    /\ asg \in [Runs -> {None, "marker", "assigned", "quarantined", "completed"}]
    /\ home \in [Runs -> Hosts \cup {None}]
    /\ hstate \in [Hosts -> {"ready", "reserving", "locked", "quarantined", "offline"}]
    /\ live \in [Hosts -> BOOLEAN] /\ lock \in [Hosts -> Runs \cup {None}]
    /\ accepted \in [Runs -> Nat] /\ {clock, faults, stops, changes} \subseteq Nat

\* As long as no write failed, an accepted Run that is not over is owned on disk by
\* a queue record or by an assignment, at every step of admission, dispatch,
\* failure, cancellation and recovery.
AcceptedIsOwned ==
    \A r \in Runs : faults = 0 /\ ledger[r] \in {"submitted", "queued", "canceling"} =>
        intent[r] # None \/ asg[r] \in {"marker", "assigned"}

\* A Run whose cancellation reached its ledger (prepareQueuedRunCancellation) has
\* no assignment and no Host, and its goroutine is not on the way to one.
NeverCanceledAndAssigned ==
    \A r \in Runs : ledger[r] \in Ending =>
        /\ asg[r] = None /\ selected[r] = None
        /\ place[r] \notin {"chosen", "marker", "rollback"}

\* ADR 0050: a cancellation that is on disk, however partially, cannot return to
\* dispatch: no Host is selected for the Run and none is assigned.
CancelIntentWins ==
    \A r \in Runs : intent[r] = "canceling" => selected[r] = None /\ asg[r] = None

\* The same as long as no write failed.
CancelCannotReturn == faults = 0 => CancelIntentWins

\* As long as no write failed, loadControlPlaneQueue finds every queue record in a
\* state it can go on from, wherever the process stopped.
StartupAccepts == faults = 0 => phase # "refused"

\* As long as no write failed, a Host that the scheduler set to "reserving" belongs
\* to a claim, a selection or a goroutine that will give it back or assign it.
NoStrandedHost ==
    \A h \in Hosts : faults = 0 /\ phase = "up" /\ hstate[h] = "reserving" =>
        \/ claim # None /\ claim[2] = h
        \/ \E r \in Runs : /\ selected[r] = h
                          /\ place[r] \in {"undo", "again", "loop", "blocked"}
        \/ \E r \in Runs : /\ at[r] = h
                          /\ place[r] \in {"chosen", "marker", "rollback", "failing"}

\* The waiting Runs and the one being admitted never exceed the capacity of the
\* queue, across stops, failures and cancellations.
WithinCapacity == Cardinality(Waiting) + (IF admitter = None THEN 0 ELSE 1) <= MaxQueue

\* At most one Run is on the way to, or in, an assignment on a Host: the shared
\* Host Lock serializes goroutines that believe in the same reservation.
OneRunPerHost ==
    \A r, s \in Runs :
        r # s /\ asg[r] \in {"marker", "assigned"} /\ asg[s] \in {"marker", "assigned"} =>
            home[r] # home[s]

\* A Host claims no Run accepted later than another it could have taken, counting
\* the accepted ones that queueHostAgentRun has still to put in the queue.
Fifo ==
    [][\A r \in Runs, h \in Hosts : claim # claim' /\ claim' = <<r, h>> =>
         \A s \in {s \in Runs : h \in Fits[s]} :
            s \in Waiting \ dispatching \/ place[s] \in {"accepted", "marked"} =>
                accepted[r] <= accepted[s]]_vars

\* As long as no write failed the outcome of a Run is written once: no late
\* failure, completion, cancellation or restart replaces it.
OutcomeIsFinal ==
    [][\A r \in Runs : faults' = 0 /\ ledger[r] \in Terminal => ledger'[r] = ledger[r]]_vars

\* Every queue record is consumed, by an assignment, a failure or a cancellation,
\* unless all Hosts the Run could use are quarantined.
QueueDrains ==
    \A r \in Runs : intent[r] # None ~>
        (intent[r] = None \/ \A h \in Fits[r] : hstate[h] = "quarantined")

=============================================================================
