------------------------------ MODULE FreshRun ------------------------------
(***************************************************************************)
(* One Fresh Run on a broker-backed Maya Host, from submission to its      *)
(* terminal ledger record (internal/cli/fresh_run.go), together with what  *)
(* can end it later: maya-stall stop and the sweep of overdue Kept         *)
(* Sessions (run_state.go, run_retention_expiry.go), the Session Broker    *)
(* (sessiond_broker.go), the Host Lock and its mirror in the checkout      *)
(* (host_pool.go; what the lock itself promises is checked in HostLock),   *)
(* and a rival Run of another checkout.                                    *)
(* Every call that leaves the process can fail, and the controller and the *)
(* stopping processes can be killed between any two of their steps.        *)
(***************************************************************************)
EXTENDS Naturals

CONSTANTS Stops,       \* processes that run stop or the sweep
          Policies,    \* the --stop-after values that are explored
          MaxFaults,   \* bound on failed calls
          MaxCrashes,  \* bound on killed processes
          None

ASSUME PoliciesAssumption == Policies \subseteq {"always", "success", "failure", "never"}
ASSUME BoundAssumption == {MaxFaults, MaxCrashes} \subseteq Nat

VARIABLES stopAfter,   \* the Stop Policy of the submission
          cancelled,   \* "never" (no channel), "no", "sent", or "seen" by the Run
          run,         \* the controller
          inflight,    \* broker calls the controller no longer waits for
          manifest,    \* in the state directory: "none", "plain", "session"
          record,      \* the Run Record in the state directory, or None
          bundle,      \* the status in the Evidence Bundle, or "none"
          ledger,      \* the Run's ledger record, or None
          lock,        \* whose Host Lock file it is, and in which state
          expired,     \* whether its lease ran out
          mirror,      \* the lock file in the checkout
          maya,        \* what the Session Broker reports
          workspace,   \* whether the remote run directory exists
          stop,        \* the stopping processes
          faults, crashes,
          blind,       \* the lock of a session nobody had recorded was released
          raced        \* a stop got past its checks while the controller lived

runVars    == <<stopAfter, run, inflight, cancelled>>
fileVars   == <<manifest, record, bundle, ledger>>
hostVars   == <<lock, expired, mirror, maya, workspace>>
tallyVars  == <<crashes, blind, raced>>
vars == <<runVars, fileVars, hostVars, stop, faults, tallyVars>>

-----------------------------------------------------------------------------
Records == [status : {"running", "kept"}, session : {"", "ours"},
            phase : {"", "session-stopped", "broker-cleaned", "host-lock-released"}]
Ledgers == [state : {"submitted", "completed", "failed", "kept", "cleanup-failed"},
            status : {"", "passed", "failed"},
            phase : {"", "session-stopped", "broker-cleaned", "host-lock-released"}]

ASSUME NoneAssumption == None \notin Records \cup Ledgers

\* The lifecycle before it runs.  early: a failure layer is set; session: the
\* identity the broker returned ("blank" without an id); release: the deferred
\* block gives the Host Lock back; beat: the lease heartbeat; cleaning: who
\* called the cleanup of a stopped Run; recovering: the cleanup goes on without
\* its record; only: the Run is preserved for a later cleanup; dead: the process
\* of the controller is gone (a Host Agent outlives its Runs).
newFreshRun ==
  [pc |-> "new", accepted |-> FALSE, early |-> FALSE, attempted |-> FALSE,
   session |-> "none", started |-> FALSE, settled |-> FALSE, stopTried |-> FALSE,
   unsettled |-> FALSE, retained |-> FALSE, release |-> FALSE, beat |-> "off",
   err |-> FALSE, status |-> "", policy |-> "stopped", failure |-> "none",
   incomplete |-> FALSE, cleaning |-> "no", recovering |-> FALSE, only |-> FALSE,
   dead |-> FALSE]

\* A process that may stop the Run, with the Run Record it has read.
Idle == [pc |-> "idle", rec |-> None, err |-> FALSE]

Init == /\ stopAfter \in Policies
        \* only a Host Agent cancels, and it accepts no other Stop Policy
        /\ cancelled \in {"never"} \cup (IF stopAfter = "always" THEN {"no"} ELSE {})
        /\ run = newFreshRun /\ inflight = {}
        /\ manifest = "none" /\ record = None /\ bundle = "none" /\ ledger = None
        /\ lock = "none" /\ expired = FALSE /\ mirror = "none"
        /\ maya \in {[id |-> "none", alive |-> FALSE], [id |-> "standing", alive |-> TRUE]}
        /\ workspace = FALSE
        /\ stop = [s \in Stops |-> Idle]
        /\ faults = 0 /\ crashes = 0 /\ blind = FALSE /\ raced = FALSE

At(pc) == run.pc = pc
Live == ~At("ended")
Own == lock \in {"claimed", "active", "kept"}
OwnSession == maya.id = "ours" /\ maya.alive
NoSession == [maya EXCEPT !.alive = FALSE]

\* A call succeeds, or fails while the bound on faults allows.
Try(ok) == /\ ok \in {TRUE} \cup (IF faults < MaxFaults THEN {FALSE} ELSE {})
           /\ faults' = IF ok THEN faults ELSE faults + 1

Go(k, pc) == run' = [k EXCEPT !.pc = pc]
\* An error returned by a step of the lifecycle.
FailsTo(k) == IF k.accepted /\ k.early THEN "early" ELSE "failed"
Fail(k) == Go([k EXCEPT !.err = TRUE], FailsTo(k))
\* An error returned by settle or by finishFailedRun.
GiveUp(k) == Go([k EXCEPT !.err = TRUE], "evidence")

\* The Run takes a cancellation that has arrived.
Cancelling == cancelled = "sent"
Seen == cancelled' = IF Cancelling THEN "seen" ELSE cancelled

\* renewHostLockNow: no earlier renewal failed, and the lock is still the Run's.
BeatError == run.beat \in {"error", "spent"}
Renews == ~BeatError /\ Own
Renewed == expired' = IF Own THEN FALSE ELSE expired

\* Faulty variant: a fence that only asks for a lease.
FencedByLease == ~expired

\* The fence of the Run's broker calls: its own lock, the lease not run out.
Fenced == Own /\ (lock = "kept" \/ ~expired)
\* The fence of a stop: the lock must name the Run as kept.
keptHostLockFence == lock = "kept"

shouldStopAfter(status) == CASE stopAfter = "always" -> TRUE
                             [] stopAfter = "success" -> status = "passed"
                             [] stopAfter = "failure" -> status # "passed"
                             [] stopAfter = "never" -> FALSE

-----------------------------------------------------------------------------
(* Setup.                                                                  *)

Submitted == [state |-> "submitted", status |-> "", phase |-> ""]

\* A free Run ID, its state directory and its ledger record.  A failure before
\* the ledger is initialised leaves no record; a later one is an accepted Run's.
accept ==
  /\ At("new")
  /\ manifest' = "plain"
  /\ \E ok \in BOOLEAN :
       /\ Try(ok)
       /\ \/ /\ ok
             /\ ledger' = Submitted
             /\ Go([run EXCEPT !.accepted = TRUE], "configure")
          \/ /\ ~ok
             /\ ledger' = None
             /\ Fail(run)
          \/ /\ ~ok
             /\ ledger' = Submitted
             /\ Fail([run EXCEPT !.accepted = TRUE])
  /\ UNCHANGED <<stopAfter, inflight, cancelled, record, bundle, hostVars, stop, tallyVars>>

\* Config, ledger policy, Scenario and declared inputs.
configureScenarioWorkspace ==
  /\ At("configure")
  /\ Seen
  /\ \E ok \in BOOLEAN :
       /\ Try(ok)
       /\ IF Cancelling THEN Fail(run)
          ELSE IF ok THEN Go([run EXCEPT !.early = TRUE], "select")
          ELSE Fail([run EXCEPT !.early = TRUE])
  /\ UNCHANGED <<stopAfter, inflight, fileVars, hostVars, stop, tallyVars>>

\* The Host Lock and its mirror are taken, and the Host is validated under
\* them; a Host that fails is released again, if that works.
selectHostForRunValidated ==
  /\ At("select")
  /\ expired' = FALSE
  /\ \E ok \in BOOLEAN :
       /\ Try(ok)
       /\ \/ /\ ok /\ lock = "none"
             /\ lock' = "claimed" /\ mirror' = "claimed"
             /\ Go([run EXCEPT !.release = TRUE, !.beat = "ok"], "prepare")
          \/ /\ ~ok \/ lock # "none"
             /\ Fail([run EXCEPT !.failure = "not-needed"])
             /\ UNCHANGED <<lock, mirror>>
          \/ /\ ~ok /\ lock = "none"
             /\ Fail([run EXCEPT !.failure = "failed"])
             /\ lock' = "claimed" /\ mirror' \in {"none", "claimed"}
  /\ UNCHANGED <<stopAfter, inflight, cancelled, fileVars, maya, workspace, stop, tallyVars>>

\* The renewals of the lease, beside every later step; the first error stays.
startHostLockHeartbeat ==
  /\ run.beat \in {"ok", "error"} /\ Live
  /\ Renewed
  /\ \E ok \in BOOLEAN :
       /\ Try(ok)
       /\ run' = IF ok /\ Own THEN run ELSE [run EXCEPT !.beat = "error"]
  /\ UNCHANGED <<stopAfter, inflight, cancelled, fileVars, lock, mirror, maya, workspace,
                 stop, tallyVars>>

\* Workspace, readiness probes, payload snapshot and plugin allowlist.
probeHostReadiness ==
  /\ At("prepare")
  /\ Seen
  /\ \E ok \in BOOLEAN : Try(ok) /\ (IF ok /\ ~Cancelling THEN Go(run, "record") ELSE Fail(run))
  /\ UNCHANGED <<stopAfter, inflight, fileVars, hostVars, stop, tallyVars>>

\* Faulty variant: the identity as the broker returned it.
rawRunRetentionRecord(status, phase) ==
  [status |-> status, phase |-> phase, session |-> run.session]

newRunRetentionRecord(status, phase) ==
  [status |-> status, phase |-> phase,
   session |-> IF run.session = "ours" THEN "ours" ELSE ""]

\* The Run Record that a later stop of this Run starts from.
recordRunning ==
  /\ At("record")
  /\ \E ok \in BOOLEAN :
       /\ Try(ok)
       /\ record' = IF ok THEN newRunRetentionRecord("running", "") ELSE record
       /\ IF ok THEN Go(run, "activate") ELSE Fail(run)
  /\ UNCHANGED <<stopAfter, inflight, cancelled, manifest, bundle, ledger, hostVars, stop, tallyVars>>

\* Faulty variant: the mirror is forgotten.
MarkLockOnly(state, ok) == IF ok /\ Own THEN lock' = state /\ UNCHANGED mirror
                           ELSE UNCHANGED <<lock, mirror>>

\* The Run's name in the lock, then in the mirror: the second can fail alone (an
\* answer of the first that is lost is asked for again, see HostLock).
Mark(state, ok) ==
  \/ /\ ok /\ Own
     /\ lock' = state /\ mirror' = state
  \/ /\ ~ok /\ Own
     /\ lock' \in {lock, state} /\ UNCHANGED mirror
  \/ ~Own /\ UNCHANGED <<lock, mirror>>
Marks(ok) == ok /\ Own

markActive ==
  /\ At("activate")
  /\ expired' = FALSE
  /\ \E ok \in BOOLEAN :
       /\ Try(ok)
       /\ Mark("active", ok)
       /\ IF Marks(ok) THEN Go([run EXCEPT !.early = FALSE], "start") ELSE Fail(run)
  /\ UNCHANGED <<stopAfter, inflight, cancelled, fileVars, maya, workspace, stop, tallyVars>>

-----------------------------------------------------------------------------
(* The Maya UI Session.                                                    *)

Ours == [id |-> "ours", alive |-> TRUE]

\* What StartFreshSession returns and leaves behind when every call works ...
Started == [session |-> "ours", maya |-> Ours, ok |-> TRUE]
\* ... and when one fails: the stop of an inherited session, the restart of the
\* broker's task, the wait for the fresh session, or Maya's first answer.  An
\* identity without id is "blank".
Failed(s, m) == [session |-> s, maya |-> m, ok |-> FALSE]
stopInheritedSession == {Failed("none", maya), Failed("none", NoSession)}
restartSessionBrokerTask == {Failed("blank", NoSession), Failed("blank", Ours)}
awaitFreshSession == {Failed("blank", NoSession), Failed("blank", Ours), Failed("ours", Ours)}
probeMayaToolReadiness == {Failed("ours", Ours)}
StartFailures == stopInheritedSession \cup restartSessionBrokerTask
                   \cup awaitFreshSession \cup probeMayaToolReadiness

\* The call, which a cancellation may overtake.
StartFreshSession ==
  /\ At("start") /\ Renews
  /\ Renewed /\ Seen
  /\ \E ok \in BOOLEAN :
       /\ Try(ok)
       /\ \E result \in IF ok THEN {Started} ELSE StartFailures :
            LET k == [run EXCEPT !.attempted = TRUE, !.session = result.session,
                                 !.started = result.session # "none",
                                 !.release = @ /\ (result.ok => result.session = "ours"),
                                 !.err = ~result.ok \/ Cancelling]
            IN /\ maya' = result.maya
               /\ bundle' = IF k.started THEN bundle ELSE "failed"
               /\ IF k.started THEN Go(k, "bind") ELSE Fail(k)
  /\ UNCHANGED <<stopAfter, inflight, manifest, record, ledger, lock, mirror, workspace, stop, tallyVars>>

\* The Run waits no longer: the call may still reach the Host.
startSessionWithCancellation ==
  /\ At("start") /\ Renews /\ Cancelling
  /\ Renewed /\ Seen
  /\ inflight' = inflight \cup {"start"}
  /\ Fail([run EXCEPT !.attempted = TRUE, !.unsettled = TRUE, !.release = FALSE])
  /\ bundle' = "failed"
  /\ UNCHANGED <<stopAfter, manifest, record, ledger, lock, mirror, maya, workspace, stop,
                 faults, tallyVars>>

\* A renewal that fails ends the Run at once.
renewHostLockNow ==
  /\ run.pc \in {"start", "stage", "execute", "broken", "settle"} \/ (At("finish") /\ run.policy = "stopped")
  /\ \/ ~Renews /\ faults' = faults
     \/ Try(FALSE)
  /\ IF run.pc \in {"settle", "finish"} THEN GiveUp(run) ELSE Fail(run)
  /\ UNCHANGED <<stopAfter, inflight, cancelled, fileVars, hostVars, stop, tallyVars>>

\* The identity goes into the manifest, the Run Record and the lock, and the
\* Maya build is verified.  A failed start leaves its evidence.
bindSession ==
  /\ At("bind")
  /\ workspace' = TRUE
  /\ LET known == run.session = "ours"
         m == IF known THEN "session" ELSE manifest
         r == [record EXCEPT !.session = IF known THEN "ours" ELSE ""]
     IN \E ok \in BOOLEAN :
          /\ Try(ok)
          /\ manifest' \in {m} \cup (IF ok THEN {} ELSE {manifest})
          /\ record' \in {r} \cup (IF ok THEN {} ELSE {record})
          /\ record' # record => manifest' = m
          /\ bundle' = IF run.err /\ ok /\ Own THEN "failed" ELSE bundle
          /\ IF ok /\ Own /\ ~run.err THEN Go(run, "stage") ELSE Fail(run)
  /\ UNCHANGED <<stopAfter, inflight, cancelled, ledger, lock, expired, mirror, maya, stop, tallyVars>>

\* An operation on the Host that a cancellation may overtake.
runPostSessionOperation(k, ok, next, broken) ==
  /\ Seen
  /\ \/ ok /\ ~Cancelling /\ Go(k, next)
     \/ /\ ~ok \/ Cancelling
        /\ \E unsettled \in {FALSE} \cup (IF Cancelling THEN {TRUE} ELSE {}) :
             Go([k EXCEPT !.err = TRUE, !.unsettled = @ \/ unsettled], broken)

StagePayload == workspace' = TRUE
stagePayloadWithCancellation ==
  /\ At("stage") /\ Renews
  /\ Renewed
  /\ \E ok \in BOOLEAN : Try(ok) /\ runPostSessionOperation(run, ok, "execute", FailsTo(run))
  /\ StagePayload
  /\ UNCHANGED <<stopAfter, inflight, fileVars, lock, mirror, maya, stop, tallyVars>>

\* The Scenario, driven through the fence; the broker's answer is a result.
runBrokerScenario ==
  /\ At("execute") /\ Renews /\ ~Cancelling
  /\ Renewed
  /\ \E ok \in BOOLEAN :
       /\ Try(ok)
       /\ IF ok
          THEN Go([run EXCEPT !.status = "passed"], "settle")
          ELSE Go(run, "broken")
  /\ UNCHANGED <<stopAfter, inflight, cancelled, fileVars, lock, mirror, maya, workspace, stop, tallyVars>>

\* The broker's stop command; after an error it may have run all the same.
stopSessiondSession(ok) == IF ok THEN {NoSession} ELSE {maya, NoSession}

\* A stop by the Run: of the session it started and no other, through its fence.
\* renewed: the lease was renewed just before; way: the call returns, a
\* cancellation arrives while it runs, or the Run stops waiting for it.
CanStop(renewed) == run.session = "ours" /\ maya.id = "ours" /\ (maya.alive => renewed \/ Fenced)
StopWays == {"done"} \cup CASE Cancelling -> {"canceled", "timeout"}
                            [] cancelled = "seen" -> {"timeout"}
                            [] OTHER -> {}
stopSession(renewed, ok, way) ==
  /\ Try(ok)
  /\ maya' \in CASE way = "timeout" \/ ~CanStop(renewed) -> {maya}
                 [] OTHER -> stopSessiondSession(ok)
  /\ inflight' = IF way = "timeout" THEN inflight \cup {"stop"} ELSE inflight
  /\ cancelled' = IF way = "done" THEN cancelled ELSE "seen"

\* What the Run makes of the answer.
Settled(renewed, ok, way) == ok /\ CanStop(renewed) /\ way # "timeout"
Stopped(renewed, ok, way) == Settled(renewed, ok, way) /\ way = "done"
AfterStop(renewed, ok, way) ==
  [run EXCEPT !.stopTried = TRUE, !.settled = @ \/ Settled(renewed, ok, way),
              !.unsettled = @ \/ way = "timeout", !.err = @ \/ ~Stopped(renewed, ok, way)]

\* The Scenario Result the Scenario left, and what becomes of its status: the
\* broker's where it has none, failed where a validator fails.
Documents == {"missing", "blank", "passed", "failed"}
resultStatus(doc) == IF doc \in {"missing", "blank"} THEN run.status ELSE doc
validateRunOutputs(status, invalid) == IF invalid THEN "failed" ELSE status

writeEvidenceBundle(ok, status) == bundle' = IF ok THEN status ELSE bundle
writeMinimalEvidenceBundle(ok) == bundle' = IF ok THEN "failed" ELSE bundle

\* A cancellation during the Scenario stops the session beside it.
cancelBrokerScenario ==
  /\ At("execute") /\ Renews /\ Cancelling
  /\ Renewed
  /\ \E ok \in BOOLEAN, way \in {"canceled", "timeout"} :
       /\ stopSession(TRUE, ok, way)
       /\ Go([AfterStop(TRUE, ok, way) EXCEPT !.err = run.err], "broken")
  /\ UNCHANGED <<stopAfter, fileVars, lock, mirror, workspace, stop, tallyVars>>

\* After an error of the broker the artefacts are collected; a Scenario Result
\* that says passed settles the Run all the same.
recoverCompletedScenarioAfterBrokerFailure ==
  /\ At("broken") /\ Renews
  /\ Renewed /\ Seen
  /\ \E unsettled \in {FALSE} \cup (IF Cancelling THEN {TRUE} ELSE {}), ok \in BOOLEAN,
        doc \in Documents :
       LET k == [run EXCEPT !.unsettled = @ \/ unsettled]
           recovered == ok /\ doc = "passed"
       IN /\ Try(ok)
          /\ writeEvidenceBundle(ok /\ ~recovered, "failed")
          /\ IF recovered THEN Go([k EXCEPT !.status = "passed"], "settle")
             ELSE Fail([k EXCEPT !.status = "failed"])
  /\ UNCHANGED <<stopAfter, inflight, manifest, record, ledger, lock, mirror, maya, workspace,
                 stop, tallyVars>>

-----------------------------------------------------------------------------
(* Settlement.                                                             *)

\* Artefacts, result, validators and bundle; the status decides the policy.
settle ==
  /\ At("settle") /\ Renews
  /\ Renewed
  /\ \E ok \in BOOLEAN, doc \in Documents, invalid \in BOOLEAN :
       /\ Try(ok)
       /\ LET done == ok /\ ~Cancelling
              status == validateRunOutputs(resultStatus(doc), invalid)
              k == [run EXCEPT !.status = status,
                               !.policy = IF shouldStopAfter(status) THEN "stopped" ELSE "kept"]
          IN /\ runPostSessionOperation(IF done THEN k ELSE run, ok, "finish", "evidence")
             /\ writeEvidenceBundle(done, status)
  /\ UNCHANGED <<stopAfter, inflight, manifest, record, ledger, lock, mirror, maya, workspace,
                 stop, tallyVars>>

finishStopped ==
  /\ At("finish") /\ run.policy = "stopped" /\ Renews
  /\ Renewed
  /\ LET Sync(k) == Go([k EXCEPT !.cleaning = "settle"], "sync")
     IN IF Cancelling \/ run.settled
        THEN /\ Seen
             /\ IF Cancelling THEN GiveUp(run) ELSE Sync(run)
             /\ UNCHANGED <<maya, inflight, faults>>
        ELSE \E ok \in BOOLEAN, way \in StopWays :
               LET k == AfterStop(TRUE, ok, way)
               IN /\ stopSession(TRUE, ok, way)
                  /\ IF Stopped(TRUE, ok, way) THEN Sync(k) ELSE GiveUp(k)
  /\ UNCHANGED <<stopAfter, fileVars, lock, mirror, workspace, stop, tallyVars>>

finishKept ==
  /\ At("finish") /\ run.policy = "kept"
  /\ IF BeatError THEN GiveUp(run) ELSE Go(run, "retain")
  /\ UNCHANGED <<stopAfter, inflight, cancelled, fileVars, hostVars, stop, faults, tallyVars>>

\* A failed Run whose policy keeps its session leaves evidence and retains it.
finishFailedRun ==
  /\ At("failed")
  /\ IF BeatError \/ ~run.started \/ shouldStopAfter("failed")
     THEN GiveUp(run) /\ UNCHANGED <<bundle, faults>>
     ELSE \E ok \in BOOLEAN :
            /\ Try(ok)
            /\ bundle' = IF ok /\ bundle = "none" THEN "failed" ELSE bundle
            /\ IF ok \/ bundle # "none"
               THEN Go([run EXCEPT !.policy = "kept",
                                   !.status = IF @ = "" THEN "failed" ELSE @], "retain")
               ELSE GiveUp(run)
  /\ UNCHANGED <<stopAfter, inflight, cancelled, manifest, record, ledger, hostVars, stop, tallyVars>>

\* The heartbeat ends and the lock names a Kept Session: a lock without lease.
retainSession ==
  /\ At("retain")
  /\ IF BeatError
     THEN GiveUp([run EXCEPT !.beat = "spent"]) /\ UNCHANGED <<lock, mirror, faults>>
     ELSE \E ok \in BOOLEAN :
            /\ Try(ok)
            /\ Mark("kept", ok)
            /\ LET k == [run EXCEPT !.beat = "off"]
               IN IF Marks(ok) THEN Go(k, "retained") ELSE GiveUp(k)
  /\ UNCHANGED <<stopAfter, inflight, cancelled, fileVars, expired, maya, workspace, stop, tallyVars>>

\* The broker must still report the Run's own session alive; then the record.
RetainRun ==
  /\ At("retained")
  /\ \E ok \in BOOLEAN, synced \in BOOLEAN :
       /\ Try(ok /\ synced)
       /\ synced \/ ok
       /\ IF ok /\ run.session = "ours" /\ OwnSession
          THEN /\ record' = newRunRetentionRecord("kept", "")
               /\ Go([run EXCEPT !.settled = TRUE, !.retained = TRUE, !.release = FALSE,
                                 !.err = @ \/ ~synced], "evidence")
          ELSE UNCHANGED record /\ GiveUp(run)
  /\ UNCHANGED <<stopAfter, inflight, cancelled, manifest, bundle, ledger, hostVars, stop, tallyVars>>

-----------------------------------------------------------------------------
(* The cleanup of a Run whose session was stopped (finishStoppedRunCleanup, *)
(* preserveStoppedRunForCleanup, completeCleanupAfterRecoveryFailure).     *)

\* A stop phase in the ledger, which needs the status of the bundle once.
CanCheckpoint(ok) == ok /\ ledger # None /\ (ledger.status # "" \/ bundle # "none")
Checkpointed(phase) == [state |-> "cleanup-failed", phase |-> phase,
                        status |-> IF ledger.status = "" THEN bundle ELSE ledger.status]
checkpointRunLedgerStopPhase(ok, phase) ==
  ledger' = IF CanCheckpoint(ok) THEN Checkpointed(phase) ELSE ledger

\* host.release gives back the mirror and the lock, and tries both.
release(ok) ==
  /\ lock' \in (IF ok THEN {} ELSE {lock}) \cup {IF Own THEN "none" ELSE lock}
  /\ mirror' \in (IF ok THEN {} ELSE {mirror}) \cup {"none"}
\* Faulty variant: the error of a release is dropped.
ReleasesAnyway(ok) == TRUE

Releases(ok) == ok /\ lock # "other"

\* The cleanup returns to settle or to the deferred block.
CleanupReturns(k, ok) ==
  LET err == ~ok \/ k.only \/ k.recovering
      next == [k EXCEPT !.err = @ \/ err, !.release = FALSE,
                        !.incomplete = @ \/ (err /\ k.cleaning = "defer")]
  IN Go(next, IF k.cleaning = "settle" THEN "evidence" ELSE "unaccept")
Cleaning(ok, pc) == IF ok THEN Go(run, pc) ELSE CleanupReturns(run, FALSE)

syncEvidenceEvents ==
  /\ At("sync")
  /\ LET canceled == Cancelling /\ run.cleaning = "settle"
     IN /\ cancelled' = IF canceled THEN "seen" ELSE cancelled
        /\ \E ok \in BOOLEAN :
             /\ Try(ok) /\ (canceled => ok)
             /\ IF canceled THEN GiveUp(run)
                ELSE Go([run EXCEPT !.only = ~ok, !.err = @ \/ ~ok], "preserve")
  /\ UNCHANGED <<stopAfter, inflight, fileVars, hostVars, stop, tallyVars>>

\* The record from which a later stop can finish the cleanup; without it the
\* cleanup goes on with the ledger's checkpoints alone.
preserveStoppedRunForCleanup ==
  /\ At("preserve")
  /\ LET k == [run EXCEPT !.beat = "off", !.only = @ \/ BeatError]
     IN \E ok \in BOOLEAN :
          /\ Try(ok)
          /\ record' = IF ok THEN newRunRetentionRecord("kept", "session-stopped") ELSE record
          /\ IF ok THEN Go(k, "mark") ELSE Go([k EXCEPT !.recovering = TRUE], "checkpoint")
  /\ UNCHANGED <<stopAfter, inflight, cancelled, manifest, bundle, ledger, hostVars, stop, tallyVars>>

markKept ==
  /\ At("mark")
  /\ \E ok \in BOOLEAN :
       /\ Try(ok)
       /\ Mark("kept", ok)
       /\ IF ~Marks(ok) THEN Go([run EXCEPT !.recovering = TRUE], "checkpoint")
          ELSE IF run.only THEN CleanupReturns(run, FALSE)
          ELSE Go([run EXCEPT !.release = FALSE], "clean")
  /\ UNCHANGED <<stopAfter, inflight, cancelled, fileVars, expired, maya, workspace, stop, tallyVars>>

completeCleanupAfterRecoveryFailure ==
  /\ At("checkpoint")
  /\ \E ok \in BOOLEAN :
       /\ Try(ok)
       /\ checkpointRunLedgerStopPhase(ok, "session-stopped")
       /\ Cleaning(CanCheckpoint(ok), "clean")
  /\ UNCHANGED <<stopAfter, inflight, cancelled, manifest, record, bundle, hostVars, stop, tallyVars>>

CleanupRun ==
  /\ At("clean")
  /\ \E ok \in BOOLEAN :
       /\ Try(ok)
       /\ workspace' = (workspace /\ ~ok)
       /\ Cleaning(ok, "cleaned")
  /\ UNCHANGED <<stopAfter, inflight, cancelled, fileVars, lock, expired, mirror, maya, stop, tallyVars>>

\* A finished phase goes into the record, when there is one, and the ledger.
recordStopPhase(pc, phase, next) ==
  /\ At(pc)
  /\ \E ok \in BOOLEAN, written \in BOOLEAN :
       /\ Try(ok) /\ (ok => written)
       /\ record' = IF written /\ ~run.recovering THEN newRunRetentionRecord("kept", phase)
                    ELSE record
       /\ checkpointRunLedgerStopPhase(ok, phase)
       /\ Cleaning(CanCheckpoint(ok), next)
  /\ UNCHANGED <<stopAfter, inflight, cancelled, manifest, bundle, hostVars, stop, tallyVars>>

releaseStoppedRun ==
  /\ At("free")
  /\ \E ok \in BOOLEAN : Try(ok) /\ release(ok) /\ Cleaning(Releases(ok), "freed")
  /\ UNCHANGED <<stopAfter, inflight, cancelled, fileVars, expired, maya, workspace, stop, tallyVars>>

finishStoppedRunCleanup ==
  \/ recordStopPhase("cleaned", "broker-cleaned", "free")
  \/ recordStopPhase("freed", "host-lock-released", "remove")

cleanupRunState ==
  /\ At("remove")
  /\ \E ok \in BOOLEAN :
       /\ Try(ok)
       /\ manifest' = IF ok THEN "none" ELSE manifest
       /\ record' = IF ok THEN None ELSE record
       /\ CleanupReturns(run, ok)
  /\ UNCHANGED <<stopAfter, inflight, cancelled, bundle, ledger, hostVars, stop, tallyVars>>

-----------------------------------------------------------------------------
(* The deferred block of Run.                                              *)

\* A Run that failed before run.started gives its lock back at once.
finishEarlyFailure ==
  /\ At("early")
  /\ \E ok \in BOOLEAN, written \in BOOLEAN :
       /\ Try(ok /\ written)
       /\ IF run.release THEN release(ok) ELSE ok /\ UNCHANGED <<lock, mirror>>
       /\ writeMinimalEvidenceBundle(written)
       /\ LET failure == IF run.release THEN (IF Releases(ok) THEN "completed" ELSE "failed")
                         ELSE IF run.failure = "none" THEN "not-needed" ELSE run.failure
          IN Go([run EXCEPT !.beat = "off", !.release = FALSE, !.status = "failed",
                            !.failure = failure,
                            !.policy = IF failure = "failed" THEN "unresolved" ELSE @], "defer")
  /\ UNCHANGED <<stopAfter, inflight, cancelled, manifest, record, ledger, expired, maya,
                 workspace, stop, tallyVars>>

ensureAcceptedFailureEvidence ==
  /\ At("evidence")
  /\ IF run.accepted /\ run.err /\ ~run.early
     THEN \E ok \in BOOLEAN :
            /\ Try(ok)
            /\ writeMinimalEvidenceBundle(ok)
            /\ Go([run EXCEPT !.early = TRUE, !.status = "failed", !.failure = "pending"], "defer")
     ELSE Go(run, "defer") /\ UNCHANGED <<bundle, faults>>
  /\ UNCHANGED <<stopAfter, inflight, cancelled, manifest, record, ledger, hostVars, stop, tallyVars>>

\* What is left to do for the session.
settleDeferred ==
  /\ At("defer")
  /\ LET k == [run EXCEPT !.incomplete = run.unsettled
                             \/ (run.attempted /\ run.failure = "pending" /\ ~run.release),
                          !.release = @ /\ ~run.unsettled]
     IN CASE k.unsettled /\ k.started /\ ~k.stopTried -> Go(k, "laststop")
          [] k.started /\ k.settled /\ k.stopTried /\ k.release -> Go([k EXCEPT !.cleaning = "defer"], "sync")
          [] k.started /\ ~k.settled /\ ~k.unsettled -> Go(k, "failstop")
          [] OTHER -> Go(k, "unaccept")
  /\ UNCHANGED <<stopAfter, inflight, cancelled, fileVars, hostVars, stop, faults, tallyVars>>

\* One attempt, whose success does not free the Host of an unsettled operation.
stopAfterUnsettled ==
  /\ At("laststop")
  /\ \E ok \in BOOLEAN, way \in StopWays :
       stopSession(FALSE, ok, way) /\ Go(AfterStop(FALSE, ok, way), "unaccept")
  /\ UNCHANGED <<stopAfter, fileVars, lock, expired, mirror, workspace, stop, tallyVars>>

\* Faulty variant: a failed stop does not hold the lock back.
stopAfterRunFailureReleases ==
  /\ At("failstop")
  /\ \E ok \in BOOLEAN, way \in StopWays :
       LET k == AfterStop(FALSE, ok, way)
       IN /\ stopSession(FALSE, ok, way)
          /\ IF Stopped(FALSE, ok, way) THEN Go([k EXCEPT !.cleaning = "defer"], "sync")
             ELSE Go([k EXCEPT !.incomplete = TRUE], "unaccept")
  /\ UNCHANGED <<stopAfter, fileVars, lock, expired, mirror, workspace, stop, tallyVars>>

stopAfterRunFailure ==
  /\ At("failstop")
  /\ \E ok \in BOOLEAN, way \in StopWays :
       LET k == AfterStop(FALSE, ok, way)
       IN /\ stopSession(FALSE, ok, way)
          /\ IF Stopped(FALSE, ok, way) THEN Go([k EXCEPT !.cleaning = "defer"], "sync")
             ELSE Go([k EXCEPT !.release = FALSE, !.incomplete = TRUE], "unaccept")
  /\ UNCHANGED <<stopAfter, fileVars, lock, expired, mirror, workspace, stop, tallyVars>>

cleanupUnacceptedOwnership ==
  /\ At("unaccept")
  /\ IF run.attempted \/ run.accepted THEN UNCHANGED <<manifest, faults>>
     ELSE \E ok \in BOOLEAN : Try(ok) /\ manifest' = IF ok THEN "none" ELSE manifest
  /\ Go([run EXCEPT !.err = @ \/ BeatError, !.beat = "off"], "unlock")
  /\ UNCHANGED <<stopAfter, inflight, cancelled, record, bundle, ledger, hostVars, stop, tallyVars>>

releaseHostLock ==
  /\ At("unlock")
  /\ IF run.release
     THEN \E ok \in BOOLEAN :
            /\ Try(ok) /\ release(ok)
            /\ Go([run EXCEPT !.err = @ \/ ~Releases(ok), !.incomplete = @ \/ ~Releases(ok)], "outcome")
     ELSE Go(run, "outcome") /\ UNCHANGED <<lock, mirror, faults>>
  /\ UNCHANGED <<stopAfter, inflight, cancelled, fileVars, expired, maya, workspace, stop, tallyVars>>

\* The terminal evidence of an accepted Run that failed.
updateTerminalFailureEvidence ==
  /\ At("outcome")
  /\ LET pending == run.failure \in {"none", "pending"}
         k == IF ~pending THEN run
              ELSE IF run.policy = "kept" /\ run.retained THEN [run EXCEPT !.failure = "retained"]
              ELSE IF run.incomplete THEN [run EXCEPT !.failure = "failed", !.policy = "unresolved"]
              ELSE [run EXCEPT !.failure = "completed", !.policy = "stopped"]
     IN IF run.accepted /\ run.err
        THEN \E ok \in BOOLEAN :
               /\ Try(ok)
               /\ bundle' = IF ok /\ (bundle # "none" \/ run.failure = "none") THEN "failed" ELSE bundle
               /\ Go([k EXCEPT !.status = "failed"], "finalize")
        ELSE Go(run, "finalize") /\ UNCHANGED <<bundle, faults>>
  /\ UNCHANGED <<stopAfter, inflight, cancelled, manifest, record, ledger, hostVars, stop, tallyVars>>

\* Faulty variant: an unresolved cleanup is not told apart.
terminalRunLedgerStateByStatus == IF run.policy = "kept" THEN "kept"
                                  ELSE IF run.status = "passed" THEN "completed" ELSE "failed"

terminalRunLedgerState == IF run.policy = "kept" THEN "kept"
                          ELSE IF run.policy = "unresolved" \/ run.failure = "failed" THEN "cleanup-failed"
                          ELSE IF run.status = "passed" THEN "completed" ELSE "failed"

finalizeRunLedger ==
  /\ At("finalize")
  /\ \E ok \in BOOLEAN :
       /\ Try(ok)
       /\ ledger' = IF ok /\ run.accepted
                    THEN [ledger EXCEPT !.state = terminalRunLedgerState, !.status = run.status]
                    ELSE ledger
  /\ Go([run EXCEPT !.dead = cancelled = "never"], "ended")
  /\ UNCHANGED <<stopAfter, inflight, cancelled, manifest, record, bundle, hostVars, stop, tallyVars>>

-----------------------------------------------------------------------------
(* maya-stall stop and the sweep of overdue Kept Sessions.                 *)

In(s, pc) == stop[s].pc = pc
Step(s, k, pc) == stop' = [stop EXCEPT ![s] = [k EXCEPT !.pc = pc]]
\* stop returns an error: the ledger is told on the way out.
Refuse(s) == Step(s, [stop[s] EXCEPT !.err = TRUE], "update")
StopStep(s, ok, pc) == IF ok THEN Step(s, stop[s], pc) ELSE Refuse(s)
StopQuiet == UNCHANGED <<runVars, expired, bundle, crashes>>

\* The operator's stop, at any time after the Run has a ledger record.
stopRun(s) == /\ In(s, "idle") /\ ledger # None
              /\ Step(s, Idle, "prepare")
              /\ StopQuiet /\ UNCHANGED <<manifest, record, ledger, lock, mirror, maya, workspace,
                                          faults, blind, raced>>

\* A Run that is listed as kept: by the mirror, the Host Lock, the Run Record
\* and the bundle.
readKeptRunState == /\ manifest # "none" /\ record # None /\ record.status = "kept"
                    /\ lock = "kept"
listKeptRuns == mirror = "kept" /\ readKeptRunState /\ bundle # "none"

\* The sweep of another submission finds the Kept Session overdue.
sweepKeptSessions(s) ==
  /\ In(s, "idle") /\ ledger # None
  /\ listKeptRuns
  /\ Step(s, Idle, "prepare")
  /\ StopQuiet /\ UNCHANGED <<manifest, record, ledger, lock, mirror, maya, workspace,
                              faults, blind, raced>>

\* A Run Record that says running and whose mirror is active belongs to a
\* process: it must be dead.
repoHostLockUsesActiveRun == mirror = "active"
requireStaleSubmittedRunController == repoHostLockUsesActiveRun => run.dead
Unfinished == record # None /\ record.status = "running" /\ record.phase = ""
\* Whether a submitted Run can be reconciled, and the ledger record it gets.
CanReconcile ==
  /\ manifest # "none"
  /\ bundle # "none" \/ (record # None /\ record.status = "running")
  /\ Unfinished => mirror \in {"active", "kept"} /\ requireStaleSubmittedRunController
Reconciled ==
  [state |-> IF record # None /\ (record.status = "running" \/ record.phase # "")
             THEN "cleanup-failed" ELSE "kept",
   status |-> IF bundle = "none" THEN "failed" ELSE bundle,
   phase |-> IF record = None THEN "" ELSE record.phase]

prepareRunLedgerForStop(s) ==
  /\ In(s, "prepare")
  /\ \E ok \in BOOLEAN :
       /\ Try(ok)
       /\ LET pass == ok /\ (ledger.state = "submitted" => CanReconcile)
          IN /\ ledger' = IF pass /\ ledger.state = "submitted" THEN Reconciled ELSE ledger
             /\ Step(s, stop[s], IF pass THEN "read" ELSE "idle")
  /\ StopQuiet /\ UNCHANGED <<manifest, record, lock, mirror, maya, workspace, blind, raced>>

\* The Run Record as a stop reads it: the phase may be the ledger's, the
\* session the manifest's.
ReadRecord == [record EXCEPT !.phase = IF @ = "" THEN ledger.phase ELSE @,
                             !.session = IF @ = "" /\ manifest = "session" THEN "ours" ELSE @]

\* What a stop demands of the mirror and of the Host Lock.
MirrorNamesRun(r, recovery) ==
  IF recovery \/ r.phase # "" THEN mirror \in {"none", "active", "kept"} ELSE TRUE
verifyKeptHostSideLockForRun == lock = "kept"
verifyCleanupHostSideLockForRun == lock \in {"active", "kept"}
LockNamesRun(r, recovery) ==
  r.phase = "" => IF recovery /\ repoHostLockUsesActiveRun THEN verifyCleanupHostSideLockForRun
                  ELSE verifyKeptHostSideLockForRun
MayStop(r, recovery) ==
  /\ recovery => mirror \in {"active", "kept"} /\ requireStaleSubmittedRunController
  /\ MirrorNamesRun(r, recovery)
  /\ LockNamesRun(r, recovery)

\* stopKeptRunAfterBrokerStop up to the broker.
stopKeptRun(s) ==
  /\ In(s, "read")
  /\ IF manifest = "none" \/ record = None
     THEN /\ IF manifest = "none" /\ ledger.phase = "host-lock-released"
             THEN record' = None /\ Step(s, stop[s], "update")
             ELSE UNCHANGED record /\ Refuse(s)
          /\ UNCHANGED raced
     ELSE LET r == ReadRecord
              recovery == ledger.state = "cleanup-failed" /\ r.status = "running" /\ r.phase = ""
              pass == r.phase = "host-lock-released" \/ MayStop(r, recovery)
              next == CASE r.phase = "host-lock-released" -> "mirror"
                        [] r.phase = "broker-cleaned" -> "checkpoint"
                        [] OTHER -> "broker"
          IN /\ IF pass THEN Step(s, [stop[s] EXCEPT !.rec = r], next) ELSE Refuse(s)
             /\ raced' = (raced \/ (pass /\ Live))
             /\ UNCHANGED record
  /\ StopQuiet /\ UNCHANGED <<manifest, ledger, lock, mirror, maya, workspace, faults, blind>>

\* A session that the broker does not report under the recorded id is stale.
StatusRetainedRun(r) == IF r.session = "ours" /\ OwnSession THEN "kept" ELSE "stale"

\* The broker stops the recorded session if it still reports it, through the
\* fence of a kept lock; a session that is gone or another one is left alone.
StopRetainedRun(s) ==
  /\ In(s, "broker")
  /\ LET kept == StatusRetainedRun(stop[s].rec) = "kept"
     IN \E ok \in BOOLEAN :
          /\ Try(ok)
          /\ maya' \in IF kept /\ keptHostLockFence THEN stopSessiondSession(ok) ELSE {maya}
          /\ StopStep(s, ok /\ (kept => keptHostLockFence), "workspace")
  /\ StopQuiet /\ UNCHANGED <<manifest, record, ledger, lock, mirror, workspace, blind, raced>>

removeRemotePath(s) ==
  /\ In(s, "workspace")
  /\ \E ok \in BOOLEAN : Try(ok) /\ workspace' = (workspace /\ ~ok) /\ StopStep(s, ok, "checkpoint")
  /\ StopQuiet /\ UNCHANGED <<manifest, record, ledger, lock, mirror, maya, blind, raced>>

\* A phase in the ledger; writing it to the record is a best effort.
StopPhase(s, pc, phase, next) ==
  /\ In(s, pc)
  /\ \E ok \in BOOLEAN, written \in BOOLEAN :
       /\ Try(ok /\ written) /\ (written \/ ok)
       /\ checkpointRunLedgerStopPhase(ok, phase)
       /\ LET r == [stop[s].rec EXCEPT !.phase = phase]
          IN /\ record' = IF CanCheckpoint(ok) /\ written THEN r ELSE record
             /\ IF CanCheckpoint(ok) THEN Step(s, [stop[s] EXCEPT !.rec = r], next) ELSE Refuse(s)
  /\ StopQuiet /\ UNCHANGED <<manifest, lock, mirror, maya, workspace, blind, raced>>

\* A lock that another Run holds by now is no error.
releaseHostSideLock(s) ==
  /\ In(s, "release")
  /\ \E ok \in BOOLEAN :
       /\ Try(ok)
       /\ lock' = IF ok /\ lock \in {"active", "kept"} THEN "none" ELSE lock
       /\ blind' = (blind \/ (lock' # lock /\ OwnSession /\ stop[s].rec.session = ""))
       /\ StopStep(s, ok, "mirror")
  /\ StopQuiet /\ UNCHANGED <<manifest, record, ledger, mirror, maya, workspace, raced>>

removeRepoHostLockForRun(s) ==
  /\ In(s, "mirror")
  /\ \E ok \in BOOLEAN :
       /\ Try(ok)
       /\ mirror' = IF ok /\ mirror \in {"active", "kept"} THEN "none" ELSE mirror
       /\ StopStep(s, ok /\ mirror # "claimed", "released")
  /\ StopQuiet /\ UNCHANGED <<manifest, record, ledger, lock, maya, workspace, blind, raced>>

finishReleasedStopRun(s) ==
  \/ StopPhase(s, "checkpoint", "broker-cleaned", "release")
  \/ StopPhase(s, "released", "host-lock-released", "remove")

cleanupStoppedRunState(s) ==
  /\ In(s, "remove")
  /\ \E ok \in BOOLEAN :
       /\ Try(ok)
       /\ manifest' = IF ok THEN "none" ELSE manifest
       /\ record' = IF ok THEN None ELSE record
       /\ StopStep(s, ok, "update")
  /\ StopQuiet /\ UNCHANGED <<ledger, lock, mirror, maya, workspace, blind, raced>>

updateRunLedgerAfterStop(s) ==
  /\ In(s, "update")
  /\ \E ok \in BOOLEAN :
       /\ Try(ok)
       /\ ledger' =
            IF ~ok \/ ledger.state \notin {"kept", "cleanup-failed"} THEN ledger
            ELSE IF stop[s].err THEN [ledger EXCEPT !.state = "cleanup-failed"]
            ELSE [ledger EXCEPT !.phase = "", !.state =
                    IF ledger.status = "passed" THEN "completed" ELSE "failed"]
       /\ stop' = [stop EXCEPT ![s] = Idle]
  /\ StopQuiet /\ UNCHANGED <<manifest, record, lock, mirror, maya, workspace, blind, raced>>

-----------------------------------------------------------------------------
(* What the Run does not control.                                          *)

HostQuiet == UNCHANGED <<stopAfter, run, fileVars, mirror, workspace, stop, faults, tallyVars>>

\* A broker call the Run no longer waits for reaches the Host, or never does.
\* A restarted task that comes up does so by the start timeout of the broker.
LateStart == /\ "start" \in inflight
             /\ inflight' = inflight \ {"start"}
             /\ maya' \in {maya, IF Fenced THEN Ours ELSE maya}
             /\ HostQuiet /\ UNCHANGED <<cancelled, lock, expired>>
LateStop == /\ "stop" \in inflight
            /\ inflight' = inflight \ {"stop"}
            /\ maya' \in {maya, IF CanStop(FALSE) THEN NoSession ELSE maya}
            /\ HostQuiet /\ UNCHANGED <<cancelled, lock, expired>>

Cancel == /\ cancelled = "no" /\ Live
          /\ cancelled' = "sent"
          /\ HostQuiet /\ UNCHANGED <<inflight, lock, expired, maya>>

\* The lease of a lock that nobody renews runs out.
Expire == /\ lock \in {"claimed", "active"} /\ ~expired
          /\ expired' = TRUE
          /\ HostQuiet /\ UNCHANGED <<inflight, cancelled, lock, maya>>

\* A Run of another checkout: it takes a free lock, or one whose lease ran out
\* and whose session is not alive, starts its session, and leaves.
RivalTakes == /\ lock = "none" \/ (lock \in {"claimed", "active"} /\ expired /\ ~maya.alive)
              /\ lock' = "other" /\ expired' = FALSE
              /\ HostQuiet /\ UNCHANGED <<inflight, cancelled, maya>>
RivalStarts == /\ lock = "other" /\ maya.id # "other"
               /\ maya' = [id |-> "other", alive |-> TRUE]
               /\ HostQuiet /\ UNCHANGED <<inflight, cancelled, lock, expired>>
RivalLeaves == /\ lock = "other"
               /\ lock' = "none"
               /\ maya' = IF maya.id = "other" THEN NoSession ELSE maya
               /\ HostQuiet /\ UNCHANGED <<inflight, cancelled, expired>>

\* The controller is killed: during the Run, or a Host Agent after it.
Crash == /\ crashes < MaxCrashes /\ ~run.dead
         /\ crashes' = crashes + 1
         /\ run' = [run EXCEPT !.pc = "ended", !.dead = TRUE, !.beat = "off"]
         /\ UNCHANGED <<stopAfter, inflight, cancelled, fileVars, hostVars, stop, faults, blind, raced>>
CrashStop(s) == /\ crashes < MaxCrashes /\ ~In(s, "idle")
                /\ crashes' = crashes + 1
                /\ stop' = [stop EXCEPT ![s] = Idle]
                /\ UNCHANGED <<runVars, fileVars, hostVars, faults, blind, raced>>

-----------------------------------------------------------------------------
Setup == \/ accept \/ configureScenarioWorkspace \/ selectHostForRunValidated
         \/ probeHostReadiness \/ recordRunning \/ markActive
SessionSteps == \/ StartFreshSession \/ startSessionWithCancellation \/ renewHostLockNow
                \/ bindSession \/ stagePayloadWithCancellation \/ runBrokerScenario
                \/ cancelBrokerScenario \/ recoverCompletedScenarioAfterBrokerFailure
Settlement == \/ settle \/ finishStopped \/ finishKept \/ finishFailedRun
              \/ retainSession \/ RetainRun
Cleanup == \/ syncEvidenceEvents \/ preserveStoppedRunForCleanup \/ markKept
           \/ completeCleanupAfterRecoveryFailure \/ CleanupRun \/ finishStoppedRunCleanup
           \/ releaseStoppedRun \/ cleanupRunState
Deferred == \/ finishEarlyFailure \/ ensureAcceptedFailureEvidence \/ settleDeferred
            \/ stopAfterUnsettled \/ stopAfterRunFailure \/ cleanupUnacceptedOwnership
            \/ releaseHostLock \/ updateTerminalFailureEvidence \/ finalizeRunLedger
Controller == Setup \/ SessionSteps \/ Settlement \/ Cleanup \/ Deferred

StopSteps(s) == \/ prepareRunLedgerForStop(s) \/ stopKeptRun(s) \/ StopRetainedRun(s)
                \/ removeRemotePath(s) \/ releaseHostSideLock(s) \/ removeRepoHostLockForRun(s)
                \/ finishReleasedStopRun(s) \/ cleanupStoppedRunState(s)
                \/ updateRunLedgerAfterStop(s)

Environment == \/ LateStart \/ LateStop \/ Cancel \/ Expire
               \/ RivalTakes \/ RivalStarts \/ RivalLeaves \/ Crash

Next == \/ Controller \/ startHostLockHeartbeat \/ Environment
        \/ \E s \in Stops : stopRun(s) \/ sweepKeptSessions(s) \/ StopSteps(s) \/ CrashStop(s)

Spec == Init /\ [][Next]_vars

\* The controller and a stop that was begun go on unless they are killed, and
\* stop is tried again while the ledger shows something to stop.
FairSpec == /\ Spec
            /\ WF_vars(Controller)
            /\ \A s \in Stops : WF_vars(StopSteps(s)) /\ WF_vars(stopRun(s))

-----------------------------------------------------------------------------
(* Properties.                                                             *)

\* Every variable has its type.
TypeOK ==
  /\ stopAfter \in Policies /\ cancelled \in {"never", "no", "sent", "seen"}
  /\ run.session \in {"none", "blank", "ours"} /\ run.beat \in {"off", "ok", "error", "spent"}
  /\ run.status \in {"", "passed", "failed"} /\ run.policy \in {"stopped", "kept", "unresolved"}
  /\ inflight \subseteq {"start", "stop"}
  /\ manifest \in {"none", "plain", "session"} /\ record \in Records \cup {None}
  /\ bundle \in {"none", "passed", "failed"} /\ ledger \in Ledgers \cup {None}
  /\ lock \in {"none", "claimed", "active", "kept", "other"} /\ expired \in BOOLEAN
  /\ mirror \in {"none", "claimed", "active", "kept"}
  /\ maya \in [id : {"none", "standing", "ours", "other"}, alive : BOOLEAN]
  /\ workspace \in BOOLEAN /\ faults \in 0..MaxFaults /\ crashes \in 0..MaxCrashes
  /\ \A s \in Stops : stop[s].rec \in Records \cup {None}

\* A Maya UI Session of this Run is alive only under this Run's Host Lock, so no
\* other Run can be sent to the same desktop.  The lock of a session whose start
\* was never recorded can be released by a stop (blind).
OwnSessionHeld == OwnSession => Own \/ blind \/ raced

\* A Run the ledger calls completed or failed has given everything back.
FinishedIsFree ==
  ledger # None /\ ledger.state \in {"completed", "failed"} =>
    (~Own /\ ~OwnSession) \/ blind \/ raced

\* A Run the ledger calls kept has what an operator was promised: the lock, its
\* mirror and a record of the session.  (A stop that is killed after it has
\* reconciled a Run without Run Record leaves the word, but no lock that lasts.)
KeptIsReal ==
  ledger # None /\ ledger.state = "kept" /\ (\A s \in Stops : In(s, "idle")) =>
    \/ /\ lock = "kept" /\ mirror = "kept" /\ manifest # "none"
       /\ record # None /\ record.status = "kept" /\ record.session = "ours"
    \/ record = None /\ lock \notin {"active", "kept"}
    \/ raced

\* The state directory of a Run that may have touched the Host goes last: after
\* its session, its remote workspace and its lock.
StateGoesLast ==
  [][manifest # "none" /\ manifest' = "none" /\ run.attempted =>
       (~Own /\ ~workspace /\ ~OwnSession) \/ blind \/ raced]_vars

\* The session of another Run is never stopped or replaced by this one.
ForeignUntouched ==
  [][maya.id = "other" /\ maya.alive /\ maya' # maya => lock = "other" /\ lock' = "none"]_vars

\* stop recovers a Run whose controller died: the Host becomes free again.
StopFrees == ledger # None /\ ledger.state = "cleanup-failed" /\ Own ~> ~Own \/ raced
=============================================================================
