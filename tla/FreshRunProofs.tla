--------------------------- MODULE FreshRunProofs ---------------------------
(***************************************************************************)
(* The safety of a Fresh Run and of those who stop it, for any number of   *)
(* stopping processes and any bound on faults and crashes.                 *)
(*                                                                         *)
(* The first part is about the controller, its lock and its session        *)
(* (Core): the variables keep their types, and no step touches the live    *)
(* session of another Run.  Each part has one lemma ...Step with one step  *)
(* per action, which follows from what the action does (FreshRunEffects).  *)
(*                                                                         *)
(* The second part is about the files and about stop: a live session is    *)
(* under its lock, a ledger record tells the truth about what was finished *)
(* and what is kept, and the state directory is the last to go.  None of   *)
(* these is inductive alone.  What makes them so is an account of the      *)
(* files (Filed), of how far each stop has come (StopsDone, StopsFree), of *)
(* who still gives the lock back (GivesBack), and of what a kept Run still *)
(* has (Keeps), beside Core.                                               *)
(***************************************************************************)
EXTENDS FreshRunEffects

-----------------------------------------------------------------------------
(* Every step keeps each part.                                             *)

\* The variables beside the processes and the calls in flight have their types.
Plain ==
  /\ stopAfter \in Policies /\ cancelled \in {"never", "no", "sent", "seen"}
  /\ manifest \in {"none", "plain", "session"} /\ record \in Records \cup {None}
  /\ bundle \in {"none", "passed", "failed"} /\ ledger \in Ledgers \cup {None}
  /\ lock \in {"none", "claimed", "active", "kept", "other"} /\ expired \in BOOLEAN
  /\ mirror \in {"none", "claimed", "active", "kept"} /\ maya \in Sessions
  /\ workspace \in BOOLEAN /\ faults \in 0..MaxFaults /\ crashes \in 0..MaxCrashes
  /\ blind \in BOOLEAN /\ raced \in BOOLEAN

\* A call that is no longer waited for is added or taken away.
Calls == inflight' \in {inflight, inflight \cup {"start"}, inflight \cup {"stop"},
                        inflight \ {"start"}, inflight \ {"stop"}}

\* Typed, one variable at a time.
LEMMA TypedIs ==
    Typed <=> /\ Plain /\ inflight \subseteq {"start", "stop"}
              /\ run \in Controllers /\ stop \in [Stops -> Stoppers]
<1>1. ASSUME run \in Controllers
      PROVE  /\ run.session \in {"none", "blank", "ours"} /\ run.beat \in {"off", "ok", "error", "spent"}
             /\ run.status \in {"", "passed", "failed"} /\ run.policy \in {"stopped", "kept", "unresolved"}
    BY <1>1 DEF Controllers
<1>2. ASSUME stop \in [Stops -> Stoppers]
      PROVE  \A s \in Stops : stop[s].rec \in Records \cup {None}
    BY <1>2 DEF Stoppers
<1> QED
    BY <1>1, <1>2 DEF Typed, TypeOK, Plain, Sessions

\* Every step keeps the types.
LEMMA TypedStep ==
    ASSUME Typed, Account, Asked, Untouched, Next
    PROVE  Typed'
<1>1. /\ Plain /\ run \in Controllers /\ maya \in Sessions
      /\ NoSession \in Sessions /\ Ours \in Sessions
    BY TypedIs, QuietIs
<1>2. ASSUME accept PROVE Plain' /\ inflight' = inflight /\ run' \in Controllers /\ stop' = stop
    <2>1. UNCHANGED <<stopAfter, inflight, cancelled, record, bundle, lock, expired, mirror,
          maya, workspace, stop, crashes, blind, raced>> /\ faults' \in 0..MaxFaults /\ run'
          \in Controllers
        BY <1>2, acceptIs
    <2>2. /\ manifest' \in {"none", "plain", "session"} /\ ledger' \in Ledgers \cup {None}
        BY <1>1, <1>2, acceptIs, SubmittedIs DEF Plain
    <2> QED
        BY <1>1, <2>1, <2>2 DEF Plain
<1>3. ASSUME configureScenarioWorkspace PROVE Plain' /\ inflight' = inflight /\ run' \in Controllers /\ stop' = stop
    <2>1. UNCHANGED <<stopAfter, inflight, manifest, record, bundle, ledger, lock, expired,
          mirror, maya, workspace, stop, crashes, blind, raced>> /\ faults' \in 0..MaxFaults
          /\ run' \in Controllers
        BY <1>3, configureIs
    <2>2. /\ cancelled' \in {"never", "no", "sent", "seen"}
        BY <1>1, <1>3, configureIs DEF Plain, Heard
    <2> QED
        BY <1>1, <2>1, <2>2 DEF Plain
<1>4. ASSUME selectHostForRunValidated PROVE Plain' /\ inflight' = inflight /\ run' \in Controllers /\ stop' = stop
    <2>1. UNCHANGED <<stopAfter, inflight, cancelled, manifest, record, bundle, ledger, maya,
          workspace, stop, crashes, blind, raced>> /\ faults' \in 0..MaxFaults /\ run' \in
          Controllers
        BY <1>4, selectIs
    <2>2. /\ lock' \in {"none", "claimed", "active", "kept", "other"} /\ expired' \in BOOLEAN
         /\ mirror' \in {"none", "claimed", "active", "kept"}
        BY <1>1, <1>4, selectIs DEF Plain
    <2> QED
        BY <1>1, <2>1, <2>2 DEF Plain
<1>5. ASSUME probeHostReadiness PROVE Plain' /\ inflight' = inflight /\ run' \in Controllers /\ stop' = stop
    <2>1. UNCHANGED <<stopAfter, inflight, manifest, record, bundle, ledger, lock, expired,
          mirror, maya, workspace, stop, crashes, blind, raced>> /\ faults' \in 0..MaxFaults
          /\ run' \in Controllers
        BY <1>5, probeIs
    <2>2. /\ cancelled' \in {"never", "no", "sent", "seen"}
        BY <1>1, <1>5, probeIs DEF Plain, Heard
    <2> QED
        BY <1>1, <2>1, <2>2 DEF Plain
<1>6. ASSUME recordRunning PROVE Plain' /\ inflight' = inflight /\ run' \in Controllers /\ stop' = stop
    <2>1. UNCHANGED <<stopAfter, inflight, cancelled, manifest, bundle, ledger, lock, expired,
          mirror, maya, workspace, stop, crashes, blind, raced>> /\ faults' \in 0..MaxFaults
          /\ run' \in Controllers
        BY <1>6, recordRunningIs
    <2>2. /\ record' \in Records \cup {None}
        BY <1>1, <1>6, recordRunningIs DEF Plain, Recorded
    <2> QED
        BY <1>1, <2>1, <2>2 DEF Plain
<1>7. ASSUME markActive PROVE Plain' /\ inflight' = inflight /\ run' \in Controllers /\ stop' = stop
    <2>1. UNCHANGED <<stopAfter, inflight, cancelled, manifest, record, bundle, ledger, maya,
          workspace, stop, crashes, blind, raced>> /\ faults' \in 0..MaxFaults /\ run' \in
          Controllers
        BY <1>7, markActiveIs
    <2>2. /\ lock' \in {"none", "claimed", "active", "kept", "other"} /\ expired' \in BOOLEAN
         /\ mirror' \in {"none", "claimed", "active", "kept"}
        BY <1>1, <1>7, markActiveIs DEF Plain, Marked
    <2> QED
        BY <1>1, <2>1, <2>2 DEF Plain
<1>8. ASSUME StartFreshSession PROVE Plain' /\ inflight' = inflight /\ run' \in Controllers /\ stop' = stop
    <2>1. UNCHANGED <<stopAfter, inflight, manifest, record, ledger, lock, mirror, workspace,
          stop, crashes, blind, raced>> /\ faults' \in 0..MaxFaults /\ run' \in Controllers
        BY <1>8, StartFreshSessionIs
    <2>2. /\ cancelled' \in {"never", "no", "sent", "seen"}
         /\ bundle' \in {"none", "passed", "failed"} /\ expired' \in BOOLEAN
         /\ maya' \in Sessions
        BY <1>1, <1>8, StartFreshSessionIs DEF Plain, Heard
    <2> QED
        BY <1>1, <2>1, <2>2 DEF Plain
<1>9. ASSUME startSessionWithCancellation PROVE Plain' /\ Calls /\ run' \in Controllers /\ stop' = stop
    <2>1. UNCHANGED <<stopAfter, manifest, record, ledger, lock, mirror, maya, workspace,
          stop, crashes, blind, raced>> /\ faults' \in 0..MaxFaults /\ run' \in Controllers /\
          Calls
        BY <1>9, startWithCancellationIs DEF Calls
    <2>2. /\ cancelled' \in {"never", "no", "sent", "seen"}
         /\ bundle' \in {"none", "passed", "failed"} /\ expired' \in BOOLEAN
        BY <1>1, <1>9, startWithCancellationIs DEF Plain, Heard
    <2> QED
        BY <1>1, <2>1, <2>2 DEF Plain
<1>10. ASSUME renewHostLockNow PROVE Plain' /\ inflight' = inflight /\ run' \in Controllers /\ stop' = stop
    <2>1. UNCHANGED <<stopAfter, inflight, cancelled, manifest, record, bundle, ledger, lock,
          expired, mirror, maya, workspace, stop, crashes, blind, raced>> /\ faults' \in
          0..MaxFaults /\ run' \in Controllers
        BY <1>10, renewIs
    <2> QED
        BY <1>1, <2>1 DEF Plain
<1>11. ASSUME bindSession PROVE Plain' /\ inflight' = inflight /\ run' \in Controllers /\ stop' = stop
    <2>1. UNCHANGED <<stopAfter, inflight, cancelled, ledger, lock, expired, mirror, maya,
          stop, crashes, blind, raced>> /\ faults' \in 0..MaxFaults /\ run' \in Controllers
        BY <1>11, bindIs, BoundIs
    <2>2. /\ manifest' \in {"none", "plain", "session"} /\ record' \in Records \cup {None}
         /\ bundle' \in {"none", "passed", "failed"} /\ workspace' \in BOOLEAN
        BY <1>1, <1>11, bindIs, BoundIs DEF Plain, Rebound
    <2> QED
        BY <1>1, <2>1, <2>2 DEF Plain
<1>12. ASSUME stagePayloadWithCancellation PROVE Plain' /\ inflight' = inflight /\ run' \in Controllers /\ stop' = stop
    <2>1. UNCHANGED <<stopAfter, inflight, manifest, record, bundle, ledger, lock, mirror,
          maya, stop, crashes, blind, raced>> /\ faults' \in 0..MaxFaults /\ run' \in
          Controllers
        BY <1>12, stageIs
    <2>2. /\ cancelled' \in {"never", "no", "sent", "seen"} /\ expired' \in BOOLEAN
         /\ workspace' \in BOOLEAN
        BY <1>1, <1>12, stageIs DEF Plain, Heard
    <2> QED
        BY <1>1, <2>1, <2>2 DEF Plain
<1>13. ASSUME runBrokerScenario PROVE Plain' /\ inflight' = inflight /\ run' \in Controllers /\ stop' = stop
    <2>1. UNCHANGED <<stopAfter, inflight, cancelled, manifest, record, bundle, ledger, lock,
          mirror, maya, workspace, stop, crashes, blind, raced>> /\ faults' \in 0..MaxFaults
          /\ run' \in Controllers
        BY <1>13, runBrokerScenarioIs
    <2>2. /\ expired' \in BOOLEAN
        BY <1>1, <1>13, runBrokerScenarioIs DEF Plain
    <2> QED
        BY <1>1, <2>1, <2>2 DEF Plain
<1>14. ASSUME cancelBrokerScenario PROVE Plain' /\ Calls /\ run' \in Controllers /\ stop' = stop
    <2>1. UNCHANGED <<stopAfter, manifest, record, bundle, ledger, lock, mirror, workspace,
          stop, crashes, blind, raced>> /\ faults' \in 0..MaxFaults /\ run' \in Controllers /\
          Calls
        BY <1>14, cancelScenarioIs DEF Calls
    <2>2. /\ cancelled' \in {"never", "no", "sent", "seen"} /\ expired' \in BOOLEAN
         /\ maya' \in Sessions
        BY <1>1, <1>14, cancelScenarioIs DEF Plain, Heard, Calmed
    <2> QED
        BY <1>1, <2>1, <2>2 DEF Plain
<1>15. ASSUME recoverCompletedScenarioAfterBrokerFailure PROVE Plain' /\ inflight' = inflight /\ run' \in Controllers /\ stop' = stop
    <2>1. UNCHANGED <<stopAfter, inflight, manifest, record, ledger, lock, mirror, maya,
          workspace, stop, crashes, blind, raced>> /\ faults' \in 0..MaxFaults /\ run' \in
          Controllers
        BY <1>15, recoverIs
    <2>2. /\ cancelled' \in {"never", "no", "sent", "seen"}
         /\ bundle' \in {"none", "passed", "failed"} /\ expired' \in BOOLEAN
        BY <1>1, <1>15, recoverIs DEF Plain, Heard
    <2> QED
        BY <1>1, <2>1, <2>2 DEF Plain
<1>16. ASSUME settle PROVE Plain' /\ inflight' = inflight /\ run' \in Controllers /\ stop' = stop
    <2>1. UNCHANGED <<stopAfter, inflight, manifest, record, ledger, lock, mirror, maya,
          workspace, stop, crashes, blind, raced>> /\ faults' \in 0..MaxFaults /\ run' \in
          Controllers
        BY <1>16, settleIs
    <2>2. /\ cancelled' \in {"never", "no", "sent", "seen"}
         /\ bundle' \in {"none", "passed", "failed"} /\ expired' \in BOOLEAN
        BY <1>1, <1>16, settleIs DEF Plain, Heard
    <2> QED
        BY <1>1, <2>1, <2>2 DEF Plain
<1>17. ASSUME finishStopped PROVE Plain' /\ Calls /\ run' \in Controllers /\ stop' = stop
    <2>1. UNCHANGED <<stopAfter, manifest, record, bundle, ledger, lock, mirror, workspace,
          stop, crashes, blind, raced>> /\ faults' \in 0..MaxFaults /\ run' \in Controllers /\
          Calls
        BY <1>17, finishStoppedIs DEF Calls
    <2>2. /\ cancelled' \in {"never", "no", "sent", "seen"} /\ expired' \in BOOLEAN
         /\ maya' \in Sessions
        BY <1>1, <1>17, finishStoppedIs DEF Plain, Heard, Calmed
    <2> QED
        BY <1>1, <2>1, <2>2 DEF Plain
<1>18. ASSUME finishKept PROVE Plain' /\ inflight' = inflight /\ run' \in Controllers /\ stop' = stop
    <2>1. UNCHANGED <<stopAfter, inflight, cancelled, manifest, record, bundle, ledger, lock,
          expired, mirror, maya, workspace, stop, crashes, blind, raced>> /\ faults' \in
          0..MaxFaults /\ run' \in Controllers
        BY <1>18, finishKeptIs
    <2> QED
        BY <1>1, <2>1 DEF Plain
<1>19. ASSUME finishFailedRun PROVE Plain' /\ inflight' = inflight /\ run' \in Controllers /\ stop' = stop
    <2>1. UNCHANGED <<stopAfter, inflight, cancelled, manifest, record, ledger, lock, expired,
          mirror, maya, workspace, stop, crashes, blind, raced>> /\ faults' \in 0..MaxFaults
          /\ run' \in Controllers
        BY <1>19, finishFailedRunIs
    <2>2. /\ bundle' \in {"none", "passed", "failed"}
        BY <1>1, <1>19, finishFailedRunIs DEF Plain
    <2> QED
        BY <1>1, <2>1, <2>2 DEF Plain
<1>20. ASSUME retainSession PROVE Plain' /\ inflight' = inflight /\ run' \in Controllers /\ stop' = stop
    <2>1. UNCHANGED <<stopAfter, inflight, cancelled, manifest, record, bundle, ledger,
          expired, maya, workspace, stop, crashes, blind, raced>> /\ faults' \in 0..MaxFaults
          /\ run' \in Controllers
        BY <1>20, retainSessionIs
    <2>2. /\ lock' \in {"none", "claimed", "active", "kept", "other"}
         /\ mirror' \in {"none", "claimed", "active", "kept"}
        BY <1>1, <1>20, retainSessionIs DEF Plain, Marked
    <2> QED
        BY <1>1, <2>1, <2>2 DEF Plain
<1>21. ASSUME RetainRun PROVE Plain' /\ inflight' = inflight /\ run' \in Controllers /\ stop' = stop
    <2>1. UNCHANGED <<stopAfter, inflight, cancelled, manifest, bundle, ledger, lock, expired,
          mirror, maya, workspace, stop, crashes, blind, raced>> /\ faults' \in 0..MaxFaults
          /\ run' \in Controllers
        BY <1>21, RetainRunIs
    <2>2. /\ record' \in Records \cup {None}
        BY <1>1, <1>21, RetainRunIs DEF Plain, Recorded
    <2> QED
        BY <1>1, <2>1, <2>2 DEF Plain
<1>22. ASSUME syncEvidenceEvents PROVE Plain' /\ inflight' = inflight /\ run' \in Controllers /\ stop' = stop
    <2>1. UNCHANGED <<stopAfter, inflight, manifest, record, bundle, ledger, lock, expired,
          mirror, maya, workspace, stop, crashes, blind, raced>> /\ faults' \in 0..MaxFaults
          /\ run' \in Controllers
        BY <1>22, syncIs
    <2>2. /\ cancelled' \in {"never", "no", "sent", "seen"}
        BY <1>1, <1>22, syncIs DEF Plain, Heard
    <2> QED
        BY <1>1, <2>1, <2>2 DEF Plain
<1>23. ASSUME preserveStoppedRunForCleanup PROVE Plain' /\ inflight' = inflight /\ run' \in Controllers /\ stop' = stop
    <2>1. UNCHANGED <<stopAfter, inflight, cancelled, manifest, bundle, ledger, lock, expired,
          mirror, maya, workspace, stop, crashes, blind, raced>> /\ faults' \in 0..MaxFaults
          /\ run' \in Controllers
        BY <1>23, preserveIs
    <2>2. /\ record' \in Records \cup {None}
        BY <1>1, <1>23, preserveIs DEF Plain, Recorded
    <2> QED
        BY <1>1, <2>1, <2>2 DEF Plain
<1>24. ASSUME markKept PROVE Plain' /\ inflight' = inflight /\ run' \in Controllers /\ stop' = stop
    <2>1. UNCHANGED <<stopAfter, inflight, cancelled, manifest, record, bundle, ledger,
          expired, maya, workspace, stop, crashes, blind, raced>> /\ faults' \in 0..MaxFaults
          /\ run' \in Controllers
        BY <1>24, markKeptIs
    <2>2. /\ lock' \in {"none", "claimed", "active", "kept", "other"}
         /\ mirror' \in {"none", "claimed", "active", "kept"}
        BY <1>1, <1>24, markKeptIs DEF Plain, Marked
    <2> QED
        BY <1>1, <2>1, <2>2 DEF Plain
<1>25. ASSUME completeCleanupAfterRecoveryFailure PROVE Plain' /\ inflight' = inflight /\ run' \in Controllers /\ stop' = stop
    <2>1. UNCHANGED <<stopAfter, inflight, cancelled, manifest, record, bundle, lock, expired,
          mirror, maya, workspace, stop, crashes, blind, raced>> /\ faults' \in 0..MaxFaults
          /\ run' \in Controllers
        BY <1>25, completeCleanupIs
    <2>2. /\ ledger' \in Ledgers \cup {None}
        BY <1>1, <1>25, completeCleanupIs DEF Plain, Advanced
    <2> QED
        BY <1>1, <2>1, <2>2 DEF Plain
<1>26. ASSUME CleanupRun PROVE Plain' /\ inflight' = inflight /\ run' \in Controllers /\ stop' = stop
    <2>1. UNCHANGED <<stopAfter, inflight, cancelled, manifest, record, bundle, ledger, lock,
          expired, mirror, maya, stop, crashes, blind, raced>> /\ faults' \in 0..MaxFaults /\
          run' \in Controllers
        BY <1>26, CleanupRunIs
    <2>2. /\ workspace' \in BOOLEAN
        BY <1>1, <1>26, CleanupRunIs DEF Plain
    <2> QED
        BY <1>1, <2>1, <2>2 DEF Plain
<1>27. ASSUME finishStoppedRunCleanup PROVE Plain' /\ inflight' = inflight /\ run' \in Controllers /\ stop' = stop
    <2>1. UNCHANGED <<stopAfter, inflight, cancelled, manifest, bundle, lock, expired, mirror,
          maya, workspace, stop, crashes, blind, raced>> /\ faults' \in 0..MaxFaults /\ run'
          \in Controllers
        BY <1>27, finishStoppedRunCleanupIs
    <2>2. /\ record' \in Records \cup {None} /\ ledger' \in Ledgers \cup {None}
        BY <1>1, <1>27, finishStoppedRunCleanupIs DEF Plain, Recorded, Advanced
    <2> QED
        BY <1>1, <2>1, <2>2 DEF Plain
<1>28. ASSUME releaseStoppedRun PROVE Plain' /\ inflight' = inflight /\ run' \in Controllers /\ stop' = stop
    <2>1. UNCHANGED <<stopAfter, inflight, cancelled, manifest, record, bundle, ledger,
          expired, maya, workspace, stop, crashes, blind, raced>> /\ faults' \in 0..MaxFaults
          /\ run' \in Controllers
        BY <1>28, releaseStoppedRunIs
    <2>2. /\ lock' \in {"none", "claimed", "active", "kept", "other"}
         /\ mirror' \in {"none", "claimed", "active", "kept"}
        BY <1>1, <1>28, releaseStoppedRunIs DEF Plain, Released
    <2> QED
        BY <1>1, <2>1, <2>2 DEF Plain
<1>29. ASSUME cleanupRunState PROVE Plain' /\ inflight' = inflight /\ run' \in Controllers /\ stop' = stop
    <2>1. UNCHANGED <<stopAfter, inflight, cancelled, bundle, ledger, lock, expired, mirror,
          maya, workspace, stop, crashes, blind, raced>> /\ faults' \in 0..MaxFaults /\ run'
          \in Controllers
        BY <1>29, cleanupRunStateIs
    <2>2. /\ manifest' \in {"none", "plain", "session"} /\ record' \in Records \cup {None}
        BY <1>1, <1>29, cleanupRunStateIs DEF Plain
    <2> QED
        BY <1>1, <2>1, <2>2 DEF Plain
<1>30. ASSUME finishEarlyFailure PROVE Plain' /\ inflight' = inflight /\ run' \in Controllers /\ stop' = stop
    <2>1. UNCHANGED <<stopAfter, inflight, cancelled, manifest, record, ledger, expired, maya,
          workspace, stop, crashes, blind, raced>> /\ faults' \in 0..MaxFaults /\ run' \in
          Controllers
        BY <1>30, earlyIs
    <2>2. /\ bundle' \in {"none", "passed", "failed"}
         /\ lock' \in {"none", "claimed", "active", "kept", "other"}
         /\ mirror' \in {"none", "claimed", "active", "kept"}
        BY <1>1, <1>30, earlyIs DEF Plain, Released
    <2> QED
        BY <1>1, <2>1, <2>2 DEF Plain
<1>31. ASSUME ensureAcceptedFailureEvidence PROVE Plain' /\ inflight' = inflight /\ run' \in Controllers /\ stop' = stop
    <2>1. UNCHANGED <<stopAfter, inflight, cancelled, manifest, record, ledger, lock, expired,
          mirror, maya, workspace, stop, crashes, blind, raced>> /\ faults' \in 0..MaxFaults
          /\ run' \in Controllers
        BY <1>31, ensureIs
    <2>2. /\ bundle' \in {"none", "passed", "failed"}
        BY <1>1, <1>31, ensureIs DEF Plain
    <2> QED
        BY <1>1, <2>1, <2>2 DEF Plain
<1>32. ASSUME settleDeferred PROVE Plain' /\ inflight' = inflight /\ run' \in Controllers /\ stop' = stop
    <2>1. UNCHANGED <<stopAfter, inflight, cancelled, manifest, record, bundle, ledger, lock,
          expired, mirror, maya, workspace, stop, crashes, blind, raced>> /\ faults' \in
          0..MaxFaults /\ run' \in Controllers
        BY <1>32, deferredIs
    <2> QED
        BY <1>1, <2>1 DEF Plain
<1>33. ASSUME stopAfterUnsettled PROVE Plain' /\ Calls /\ run' \in Controllers /\ stop' = stop
    <2>1. UNCHANGED <<stopAfter, manifest, record, bundle, ledger, lock, expired, mirror,
          workspace, stop, crashes, blind, raced>> /\ faults' \in 0..MaxFaults /\ run' \in
          Controllers /\ Calls
        BY <1>33, stopUnsettledIs DEF Calls
    <2>2. /\ cancelled' \in {"never", "no", "sent", "seen"} /\ maya' \in Sessions
        BY <1>1, <1>33, stopUnsettledIs DEF Plain, Heard, Calmed
    <2> QED
        BY <1>1, <2>1, <2>2 DEF Plain
<1>34. ASSUME stopAfterRunFailure PROVE Plain' /\ Calls /\ run' \in Controllers /\ stop' = stop
    <2>1. UNCHANGED <<stopAfter, manifest, record, bundle, ledger, lock, expired, mirror,
          workspace, stop, crashes, blind, raced>> /\ faults' \in 0..MaxFaults /\ run' \in
          Controllers /\ Calls
        BY <1>34, stopFailureIs DEF Calls
    <2>2. /\ cancelled' \in {"never", "no", "sent", "seen"} /\ maya' \in Sessions
        BY <1>1, <1>34, stopFailureIs DEF Plain, Heard, Calmed
    <2> QED
        BY <1>1, <2>1, <2>2 DEF Plain
<1>35. ASSUME cleanupUnacceptedOwnership PROVE Plain' /\ inflight' = inflight /\ run' \in Controllers /\ stop' = stop
    <2>1. UNCHANGED <<stopAfter, inflight, cancelled, record, bundle, ledger, lock, expired,
          mirror, maya, workspace, stop, crashes, blind, raced>> /\ faults' \in 0..MaxFaults
          /\ run' \in Controllers
        BY <1>35, unacceptIs
    <2>2. /\ manifest' \in {"none", "plain", "session"}
        BY <1>1, <1>35, unacceptIs DEF Plain
    <2> QED
        BY <1>1, <2>1, <2>2 DEF Plain
<1>36. ASSUME releaseHostLock PROVE Plain' /\ inflight' = inflight /\ run' \in Controllers /\ stop' = stop
    <2>1. UNCHANGED <<stopAfter, inflight, cancelled, manifest, record, bundle, ledger,
          expired, maya, workspace, stop, crashes, blind, raced>> /\ faults' \in 0..MaxFaults
          /\ run' \in Controllers
        BY <1>36, unlockIs
    <2>2. /\ lock' \in {"none", "claimed", "active", "kept", "other"}
         /\ mirror' \in {"none", "claimed", "active", "kept"}
        BY <1>1, <1>36, unlockIs DEF Plain, Released
    <2> QED
        BY <1>1, <2>1, <2>2 DEF Plain
<1>37. ASSUME updateTerminalFailureEvidence PROVE Plain' /\ inflight' = inflight /\ run' \in Controllers /\ stop' = stop
    <2>1. UNCHANGED <<stopAfter, inflight, cancelled, manifest, record, ledger, lock, expired,
          mirror, maya, workspace, stop, crashes, blind, raced>> /\ faults' \in 0..MaxFaults
          /\ run' \in Controllers
        BY <1>37, outcomeIs
    <2>2. /\ bundle' \in {"none", "passed", "failed"}
        BY <1>1, <1>37, outcomeIs DEF Plain
    <2> QED
        BY <1>1, <2>1, <2>2 DEF Plain
<1>38. ASSUME finalizeRunLedger PROVE Plain' /\ inflight' = inflight /\ run' \in Controllers /\ stop' = stop
    <2>1. UNCHANGED <<stopAfter, inflight, cancelled, manifest, record, bundle, lock, expired,
          mirror, maya, workspace, stop, crashes, blind, raced>> /\ faults' \in 0..MaxFaults
          /\ run' \in Controllers
        BY <1>38, finalizeIs
    <2>2. /\ ledger' \in Ledgers \cup {None}
        BY <1>1, <1>38, finalizeIs DEF Plain
    <2> QED
        BY <1>1, <2>1, <2>2 DEF Plain
<1>39. ASSUME startHostLockHeartbeat PROVE Plain' /\ inflight' = inflight /\ run' \in Controllers /\ stop' = stop
    <2>1. UNCHANGED <<stopAfter, inflight, cancelled, manifest, record, bundle, ledger, lock,
          mirror, maya, workspace, stop, crashes, blind, raced>> /\ faults' \in 0..MaxFaults
          /\ run' \in Controllers
        BY <1>39, heartbeatIs
    <2>2. /\ expired' \in BOOLEAN
        BY <1>1, <1>39, heartbeatIs DEF Plain
    <2> QED
        BY <1>1, <2>1, <2>2 DEF Plain
<1>40. ASSUME Crash PROVE Plain' /\ inflight' = inflight /\ run' \in Controllers /\ stop' = stop
    <2>1. UNCHANGED <<stopAfter, inflight, cancelled, manifest, record, bundle, ledger, lock,
          expired, mirror, maya, workspace, stop, blind, raced>> /\ faults' \in 0..MaxFaults
          /\ run' \in Controllers
        BY <1>40, CrashIs
    <2>2. /\ crashes' \in 0..MaxCrashes
        BY <1>1, <1>40, CrashIs DEF Plain
    <2> QED
        BY <1>1, <2>1, <2>2 DEF Plain
<1>41. ASSUME LateStart PROVE Plain' /\ Calls /\ run' \in Controllers /\ stop' = stop
    <2>1. UNCHANGED <<stopAfter, run, manifest, record, bundle, ledger, mirror, workspace,
          stop, crashes, blind, raced, cancelled, lock, expired>> /\ faults' \in 0..MaxFaults
          /\ run' \in Controllers /\ Calls
        BY <1>41, OutsideIs, <1>1 DEF Outside, LateStart, Plain, Calls
    <2>2. /\ maya' \in Sessions
        BY <1>1, <1>41, OutsideIs DEF Plain, Outside, LateStart, Plain
    <2> QED
        BY <1>1, <2>1, <2>2 DEF Plain
<1>42. ASSUME LateStop PROVE Plain' /\ Calls /\ run' \in Controllers /\ stop' = stop
    <2>1. UNCHANGED <<stopAfter, run, manifest, record, bundle, ledger, mirror, workspace,
          stop, crashes, blind, raced, cancelled, lock, expired>> /\ faults' \in 0..MaxFaults
          /\ run' \in Controllers /\ Calls
        BY <1>42, OutsideIs, <1>1 DEF Outside, LateStop, Plain, Calls
    <2>2. /\ maya' \in Sessions
        BY <1>1, <1>42, OutsideIs DEF Plain, Outside, LateStop, Plain
    <2> QED
        BY <1>1, <2>1, <2>2 DEF Plain
<1>43. ASSUME Cancel PROVE Plain' /\ inflight' = inflight /\ run' \in Controllers /\ stop' = stop
    <2>1. UNCHANGED <<stopAfter, run, manifest, record, bundle, ledger, mirror, workspace,
          stop, crashes, blind, raced, inflight, lock, expired, maya>> /\ faults' \in
          0..MaxFaults /\ run' \in Controllers
        BY <1>43, OutsideIs, <1>1 DEF Outside, Cancel, Plain
    <2>2. /\ cancelled' \in {"never", "no", "sent", "seen"}
        BY <1>1, <1>43, OutsideIs DEF Plain, Outside, Cancel, Plain
    <2> QED
        BY <1>1, <2>1, <2>2 DEF Plain
<1>44. ASSUME Expire PROVE Plain' /\ inflight' = inflight /\ run' \in Controllers /\ stop' = stop
    <2>1. UNCHANGED <<stopAfter, run, manifest, record, bundle, ledger, mirror, workspace,
          stop, crashes, blind, raced, inflight, cancelled, lock, maya>> /\ faults' \in
          0..MaxFaults /\ run' \in Controllers
        BY <1>44, OutsideIs, <1>1 DEF Outside, Expire, Plain
    <2>2. /\ expired' \in BOOLEAN
        BY <1>1, <1>44, OutsideIs DEF Plain, Outside, Expire, Plain
    <2> QED
        BY <1>1, <2>1, <2>2 DEF Plain
<1>45. ASSUME RivalTakes PROVE Plain' /\ inflight' = inflight /\ run' \in Controllers /\ stop' = stop
    <2>1. UNCHANGED <<stopAfter, run, manifest, record, bundle, ledger, mirror, workspace,
          stop, crashes, blind, raced, inflight, cancelled, maya>> /\ faults' \in 0..MaxFaults
          /\ run' \in Controllers
        BY <1>45, OutsideIs, <1>1 DEF Outside, RivalTakes, Plain
    <2>2. /\ lock' \in {"none", "claimed", "active", "kept", "other"} /\ expired' \in BOOLEAN
        BY <1>1, <1>45, OutsideIs DEF Plain, Outside, RivalTakes, Plain
    <2> QED
        BY <1>1, <2>1, <2>2 DEF Plain
<1>46. ASSUME RivalStarts PROVE Plain' /\ inflight' = inflight /\ run' \in Controllers /\ stop' = stop
    <2>1. UNCHANGED <<stopAfter, run, manifest, record, bundle, ledger, mirror, workspace,
          stop, crashes, blind, raced, inflight, cancelled, lock, expired>> /\ faults' \in
          0..MaxFaults /\ run' \in Controllers
        BY <1>46, OutsideIs, <1>1 DEF Outside, RivalStarts, Plain, Sessions
    <2>2. /\ maya' \in Sessions
        BY <1>1, <1>46, OutsideIs DEF Plain, Outside, RivalStarts, Plain, Sessions
    <2> QED
        BY <1>1, <2>1, <2>2 DEF Plain
<1>47. ASSUME RivalLeaves PROVE Plain' /\ inflight' = inflight /\ run' \in Controllers /\ stop' = stop
    <2>1. UNCHANGED <<stopAfter, run, manifest, record, bundle, ledger, mirror, workspace,
          stop, crashes, blind, raced, inflight, cancelled, expired>> /\ faults' \in
          0..MaxFaults /\ run' \in Controllers
        BY <1>47, OutsideIs, <1>1 DEF Outside, RivalLeaves, Plain
    <2>2. /\ lock' \in {"none", "claimed", "active", "kept", "other"} /\ maya' \in Sessions
        BY <1>1, <1>47, OutsideIs DEF Plain, Outside, RivalLeaves, Plain
    <2> QED
        BY <1>1, <2>1, <2>2 DEF Plain
<1>48. ASSUME NEW s \in Stops,
             stopRun(s) \/ sweepKeptSessions(s) \/ StopSteps(s) \/ CrashStop(s)
      PROVE  Plain' /\ inflight' = inflight /\ run' = run /\ Others(s)
    <2>1. ASSUME stopRun(s) \/ sweepKeptSessions(s) PROVE Plain'
        <3>1. UNCHANGED <<stopAfter, run, inflight, cancelled, manifest, record, bundle,
              ledger, lock, expired, mirror, maya, workspace, crashes, blind, raced>> /\
              faults' \in 0..MaxFaults
            BY <1>48, <2>1, askIs
        <3> QED
            BY <1>1, <3>1 DEF Plain
    <2>2. ASSUME prepareRunLedgerForStop(s) PROVE Plain'
        <3>1. UNCHANGED <<stopAfter, run, inflight, cancelled, manifest, record, bundle, lock,
              expired, mirror, maya, workspace, crashes, blind, raced>> /\ faults' \in
              0..MaxFaults
            BY <1>48, <2>2, prepareIs
        <3>2. /\ ledger' \in Ledgers \cup {None}
            BY <1>1, <1>48, <2>2, prepareIs DEF Plain, Reconciles
        <3> QED
            BY <1>1, <3>1, <3>2 DEF Plain
    <2>3. ASSUME stopKeptRun(s) PROVE Plain'
        <3>1. UNCHANGED <<stopAfter, run, inflight, cancelled, manifest, bundle, ledger, lock,
              expired, mirror, maya, workspace, crashes, blind>> /\ faults' \in 0..MaxFaults
            BY <1>48, <2>3, stopKeptRunIs
        <3>2. /\ record' \in Records \cup {None} /\ raced' \in BOOLEAN
            BY <1>1, <1>48, <2>3, stopKeptRunIs DEF Plain
        <3> QED
            BY <1>1, <3>1, <3>2 DEF Plain
    <2>4. ASSUME StopRetainedRun(s) PROVE Plain'
        <3>1. UNCHANGED <<stopAfter, run, inflight, cancelled, manifest, record, bundle,
              ledger, lock, expired, mirror, workspace, crashes, blind, raced>> /\ faults' \in
              0..MaxFaults
            BY <1>48, <2>4, StopRetainedRunIs
        <3>2. /\ maya' \in Sessions
            BY <1>1, <1>48, <2>4, StopRetainedRunIs DEF Plain, Stops1
        <3> QED
            BY <1>1, <3>1, <3>2 DEF Plain
    <2>5. ASSUME removeRemotePath(s) PROVE Plain'
        <3>1. UNCHANGED <<stopAfter, run, inflight, cancelled, manifest, record, bundle,
              ledger, lock, expired, mirror, maya, crashes, blind, raced>> /\ faults' \in
              0..MaxFaults
            BY <1>48, <2>5, removeRemotePathIs
        <3>2. /\ workspace' \in BOOLEAN
            BY <1>1, <1>48, <2>5, removeRemotePathIs DEF Plain
        <3> QED
            BY <1>1, <3>1, <3>2 DEF Plain
    <2>6. ASSUME releaseHostSideLock(s) PROVE Plain'
        <3>1. UNCHANGED <<stopAfter, run, inflight, cancelled, manifest, record, bundle,
              ledger, expired, mirror, maya, workspace, crashes, raced>> /\ faults' \in
              0..MaxFaults
            BY <1>48, <2>6, releaseHostSideIs
        <3>2. /\ lock' \in {"none", "claimed", "active", "kept", "other"} /\ blind' \in BOOLEAN
            BY <1>1, <1>48, <2>6, releaseHostSideIs DEF Plain
        <3> QED
            BY <1>1, <3>1, <3>2 DEF Plain
    <2>7. ASSUME removeRepoHostLockForRun(s) PROVE Plain'
        <3>1. UNCHANGED <<stopAfter, run, inflight, cancelled, manifest, record, bundle,
              ledger, lock, expired, maya, workspace, crashes, blind, raced>> /\ faults' \in
              0..MaxFaults
            BY <1>48, <2>7, removeMirrorIs
        <3>2. /\ mirror' \in {"none", "claimed", "active", "kept"}
            BY <1>1, <1>48, <2>7, removeMirrorIs DEF Plain
        <3> QED
            BY <1>1, <3>1, <3>2 DEF Plain
    <2>8. ASSUME finishReleasedStopRun(s) PROVE Plain'
        <3>1. UNCHANGED <<stopAfter, run, inflight, cancelled, manifest, bundle, lock,
              expired, mirror, maya, workspace, crashes, blind, raced>> /\ faults' \in
              0..MaxFaults
            BY <1>48, <2>8, finishReleasedStopRunIs
        <3>2. /\ record' \in Records \cup {None} /\ ledger' \in Ledgers \cup {None}
            BY <1>1, <1>48, <2>8, finishReleasedStopRunIs DEF Plain, Advanced
        <3> QED
            BY <1>1, <3>1, <3>2 DEF Plain
    <2>9. ASSUME cleanupStoppedRunState(s) PROVE Plain'
        <3>1. UNCHANGED <<stopAfter, run, inflight, cancelled, bundle, ledger, lock, expired,
              mirror, maya, workspace, crashes, blind, raced>> /\ faults' \in 0..MaxFaults
            BY <1>48, <2>9, cleanupStoppedIs
        <3>2. /\ manifest' \in {"none", "plain", "session"} /\ record' \in Records \cup {None}
            BY <1>1, <1>48, <2>9, cleanupStoppedIs DEF Plain
        <3> QED
            BY <1>1, <3>1, <3>2 DEF Plain
    <2>10. ASSUME updateRunLedgerAfterStop(s) PROVE Plain'
        <3>1. UNCHANGED <<stopAfter, run, inflight, cancelled, manifest, record, bundle, lock,
              expired, mirror, maya, workspace, crashes, blind, raced>> /\ faults' \in
              0..MaxFaults
            BY <1>48, <2>10, updateIs
        <3>2. /\ ledger' \in Ledgers \cup {None}
            BY <1>1, <1>48, <2>10, updateIs DEF Plain
        <3> QED
            BY <1>1, <3>1, <3>2 DEF Plain
    <2>11. ASSUME CrashStop(s) PROVE Plain'
        <3>1. UNCHANGED <<stopAfter, run, inflight, cancelled, manifest, record, bundle,
              ledger, lock, expired, mirror, maya, workspace, blind, raced>> /\ faults' \in
              0..MaxFaults
            BY <1>48, <2>11, CrashStopIs
        <3>2. /\ crashes' \in 0..MaxCrashes
            BY <1>1, <1>48, <2>11, CrashStopIs DEF Plain
        <3> QED
            BY <1>1, <3>1, <3>2 DEF Plain
    <2>12. Plain'
        BY <1>48, <2>1, <2>2, <2>3, <2>4, <2>5, <2>6, <2>7, <2>8, <2>9, <2>10, <2>11 DEF StopSteps
    <2>13. Others(s)
        BY <1>48, askIs, prepareIs, stopKeptRunIs, StopRetainedRunIs, removeRemotePathIs,
            releaseHostSideIs, removeMirrorIs, finishReleasedStopRunIs, cleanupStoppedIs,
            updateIs, CrashStopIs DEF StopSteps, Moves, Refused, Rests
    <2> QED
        BY <1>48, <2>12, <2>13, StopLeaves
<1>49. Plain'
    BY <1>2, <1>3, <1>4, <1>5, <1>6, <1>7, <1>8, <1>9, <1>10, <1>11, <1>12, <1>13, <1>14, <1>15,
        <1>16, <1>17, <1>18, <1>19, <1>20, <1>21, <1>22, <1>23, <1>24, <1>25, <1>26, <1>27, <1>28,
        <1>29, <1>30, <1>31, <1>32, <1>33, <1>34, <1>35, <1>36, <1>37, <1>38, <1>39, <1>40, <1>41,
        <1>42, <1>43, <1>44, <1>45, <1>46, <1>47, <1>48 DEF Next, Controller, Setup, SessionSteps,
        Settlement, Cleanup, Deferred, Environment
<1>50. run' \in Controllers
    BY <1>1, <1>2, <1>3, <1>4, <1>5, <1>6, <1>7, <1>8, <1>9, <1>10, <1>11, <1>12, <1>13, <1>14,
        <1>15, <1>16, <1>17, <1>18, <1>19, <1>20, <1>21, <1>22, <1>23, <1>24, <1>25, <1>26, <1>27,
        <1>28, <1>29, <1>30, <1>31, <1>32, <1>33, <1>34, <1>35, <1>36, <1>37, <1>38, <1>39, <1>40,
        <1>41, <1>42, <1>43, <1>44, <1>45, <1>46, <1>47, <1>48 DEF Next, Controller, Setup,
        SessionSteps, Settlement, Cleanup, Deferred, Environment
<1>51. stop' = stop \/ \E s \in Stops : Others(s)
    BY <1>2, <1>3, <1>4, <1>5, <1>6, <1>7, <1>8, <1>9, <1>10, <1>11, <1>12, <1>13, <1>14, <1>15,
        <1>16, <1>17, <1>18, <1>19, <1>20, <1>21, <1>22, <1>23, <1>24, <1>25, <1>26, <1>27, <1>28,
        <1>29, <1>30, <1>31, <1>32, <1>33, <1>34, <1>35, <1>36, <1>37, <1>38, <1>39, <1>40, <1>41,
        <1>42, <1>43, <1>44, <1>45, <1>46, <1>47, <1>48 DEF Next, Controller, Setup, SessionSteps,
        Settlement, Cleanup, Deferred, Environment
<1>52. stop' \in [Stops -> Stoppers]
    BY <1>51 DEF Typed, Others
<1>53. Calls
    BY <1>2, <1>3, <1>4, <1>5, <1>6, <1>7, <1>8, <1>9, <1>10, <1>11, <1>12, <1>13, <1>14, <1>15,
        <1>16, <1>17, <1>18, <1>19, <1>20, <1>21, <1>22, <1>23, <1>24, <1>25, <1>26, <1>27, <1>28,
        <1>29, <1>30, <1>31, <1>32, <1>33, <1>34, <1>35, <1>36, <1>37, <1>38, <1>39, <1>40, <1>41,
        <1>42, <1>43, <1>44, <1>45, <1>46, <1>47, <1>48 DEF Calls, Next, Controller, Setup,
        SessionSteps, Settlement, Cleanup, Deferred, Environment
<1>54. inflight' \subseteq {"start", "stop"}
    BY <1>53, TypedIs DEF Calls
<1>55. (/\ Plain /\ inflight \subseteq {"start", "stop"}
       /\ run \in Controllers /\ stop \in [Stops -> Stoppers])'
    BY <1>49, <1>50, <1>52, <1>54
<1> QED
    BY <1>55, TypedIs, PTL

\* What the controller says of its session fits its step: a session that counts as
\* settled was stopped or retained, and only a settled one is cleaned up.
LEMMA AccountStep ==
    ASSUME Typed, Asked, Untouched, Account, Policy, Next
    PROVE  Account'
<1>1. CASE accept
    BY <1>1, acceptIs, SubmittedIs DEF Account, At, Live, Going, Setting, Using, Stopping,
        Cleaned, Ending, Deferring, FailsTo, SameWay, SameSession, SameResult
<1>2. CASE configureScenarioWorkspace
    BY <1>2, configureIs DEF Account, At, Live, Going, Setting, Using, Stopping, Cleaned, Ending,
        Deferring, FailsTo, Heard, SameWay, SameSession, SameResult
<1>3. CASE selectHostForRunValidated
    BY <1>3, selectIs DEF Account, At, Live, Going, Setting, Using, Stopping, Cleaned, Ending,
        Deferring, FailsTo, SameWay, SameSession, SameResult
<1>4. CASE probeHostReadiness
    BY <1>4, probeIs DEF Account, At, Live, Going, Setting, Using, Stopping, Cleaned, Ending,
        Deferring, FailsTo, Heard, Same, SameWay, SameSession, SameResult
<1>5. CASE recordRunning
    BY <1>5, recordRunningIs DEF Account, At, Live, Going, Setting, Using, Stopping, Cleaned,
        Ending, Deferring, FailsTo, Recorded, Same, SameWay, SameSession, SameResult
<1>6. CASE markActive
    BY <1>6, markActiveIs DEF Account, At, Live, Going, Setting, Using, Stopping, Cleaned, Ending,
        Deferring, FailsTo, Marked, Own, SameWay, SameSession, SameResult
<1>7. CASE StartFreshSession
    BY <1>7, StartFreshSessionIs DEF Account, At, Live, Going, Setting, Using, Stopping, Cleaned,
        Ending, Deferring, FailsTo, Heard, SameWay, SameResult, Own
<1>8. CASE startSessionWithCancellation
    BY <1>8, startWithCancellationIs DEF Account, At, Live, Going, Setting, Using, Stopping,
        Cleaned, Ending, Deferring, FailsTo, Heard, SameWay, SameResult, Own
<1>9. CASE renewHostLockNow
    BY <1>9, renewIs DEF Account, At, Live, Going, Setting, Using, Stopping, Cleaned, Ending,
        Deferring, FailsTo, SameWay, SameSession, SameResult
<1>10. CASE bindSession
    BY <1>10, bindIs, BoundIs DEF Account, At, Live, Going, Setting, Using, Stopping, Cleaned,
        Ending, Deferring, FailsTo, Rebound, Same, SameWay, SameSession, SameResult, Own
<1>11. CASE stagePayloadWithCancellation
    BY <1>11, stageIs DEF Account, At, Live, Going, Setting, Using, Stopping, Cleaned, Ending,
        Deferring, FailsTo, Heard, Same, SameWay, SameSession, SameResult, Own
<1>12. CASE runBrokerScenario
    BY <1>12, runBrokerScenarioIs DEF Account, At, Live, Going, Setting, Using, Stopping, Cleaned,
        Ending, Deferring, Same, SameWay, SameSession, SameResult, Own
<1>13. CASE cancelBrokerScenario
    BY <1>13, cancelScenarioIs DEF Account, At, Live, Going, Setting, Using, Stopping, Cleaned,
        Ending, Deferring, Answered, SameResult, Heard, Calmed, Sessions, Own
<1>14. CASE recoverCompletedScenarioAfterBrokerFailure
    BY <1>14, recoverIs DEF Account, At, Live, Going, Setting, Using, Stopping, Cleaned, Ending,
        Deferring, FailsTo, Heard, SameWay, Own
<1>15. CASE settle
    BY <1>15, settleIs DEF Account, At, Live, Going, Setting, Using, Stopping, Cleaned, Ending,
        Deferring, Heard, SameWay, SameSession, SameResult, Own
<1>16. CASE finishStopped
    BY <1>16, finishStoppedIs DEF Account, At, Live, Going, Setting, Using, Stopping, Cleaned,
        Ending, Deferring, Answered, SameResult, Heard, Calmed, Sessions, SameWay, SameSession,
        Own
<1>17. CASE finishKept
    BY <1>17, finishKeptIs DEF Account, At, Live, Going, Setting, Using, Stopping, Cleaned,
        Ending, Deferring, Same, SameWay, SameSession, SameResult
<1>18. CASE finishFailedRun
    BY <1>18, finishFailedRunIs DEF Account, At, Live, Going, Setting, Using, Stopping, Cleaned,
        Ending, Deferring, SameWay, SameSession, SameResult
<1>19. CASE retainSession
    BY <1>19, retainSessionIs DEF Account, At, Live, Going, Setting, Using, Stopping, Cleaned,
        Ending, Deferring, Marked, Own, Same, SameWay, SameSession, SameResult
<1>20. CASE RetainRun
    BY <1>20, RetainRunIs DEF Account, At, Live, Going, Setting, Using, Stopping, Cleaned, Ending,
        Deferring, Recorded, SameWay, SameSession, SameResult, OwnSession
<1>21. CASE syncEvidenceEvents
    BY <1>21, syncIs DEF Account, At, Live, Going, Setting, Using, Stopping, Cleaned, Ending,
        Deferring, Heard, SameWay, SameSession, SameResult
<1>22. CASE preserveStoppedRunForCleanup
    BY <1>22, preserveIs DEF Account, At, Live, Going, Setting, Using, Stopping, Cleaned, Ending,
        Deferring, Recorded, Same, SameWay, SameSession, SameResult
<1>23. CASE markKept
    BY <1>23, markKeptIs DEF Account, At, Live, Going, Setting, Using, Stopping, Cleaned, Ending,
        Deferring, Returned, Same, SameWay, SameSession, SameResult, Marked, Own
<1>24. CASE completeCleanupAfterRecoveryFailure
    BY <1>24, completeCleanupIs DEF Account, At, Live, Going, Setting, Using, Stopping, Cleaned,
        Ending, Deferring, Returned, Same, SameWay, SameSession, SameResult, Advanced
<1>25. CASE CleanupRun
    BY <1>25, CleanupRunIs DEF Account, At, Live, Going, Setting, Using, Stopping, Cleaned,
        Ending, Deferring, Returned, Same, SameWay, SameSession, SameResult
<1>26. CASE finishStoppedRunCleanup
    BY <1>26, finishStoppedRunCleanupIs DEF Account, At, Live, Going, Setting, Using, Stopping,
        Cleaned, Ending, Deferring, Returned, Same, SameWay, SameSession, SameResult, Recorded,
        Advanced
<1>27. CASE releaseStoppedRun
    BY <1>27, releaseStoppedRunIs DEF Account, At, Live, Going, Setting, Using, Stopping, Cleaned,
        Ending, Deferring, Returned, Same, SameWay, SameSession, SameResult, Released, Own
<1>28. CASE cleanupRunState
    BY <1>28, cleanupRunStateIs DEF Account, At, Live, Going, Setting, Using, Stopping, Cleaned,
        Ending, Deferring, Returned, Same, SameWay, SameSession, SameResult
<1>29. CASE finishEarlyFailure
    BY <1>29, earlyIs DEF Account, At, Live, Going, Setting, Using, Stopping, Cleaned, Ending,
        Deferring, Released, Own, SameWay, SameSession
<1>30. CASE ensureAcceptedFailureEvidence
    BY <1>30, ensureIs DEF Account, At, Live, Going, Setting, Using, Stopping, Cleaned, Ending,
        Deferring, Same, SameWay, SameSession, SameResult
<1>31. CASE settleDeferred
    BY <1>31, deferredIs DEF Account, At, Live, Going, Setting, Using, Stopping, Cleaned, Ending,
        Deferring, Policy, SameSession, SameResult
<1>32. CASE stopAfterUnsettled
    BY <1>32, stopUnsettledIs DEF Account, At, Live, Going, Setting, Using, Stopping, Cleaned,
        Ending, Deferring, Answered, SameResult, Heard, Calmed, Sessions
<1>33. CASE stopAfterRunFailure
    BY <1>33, stopFailureIs DEF Account, At, Live, Going, Setting, Using, Stopping, Cleaned,
        Ending, Deferring, Answered, SameResult, Heard, Calmed, Sessions
<1>34. CASE cleanupUnacceptedOwnership
    BY <1>34, unacceptIs DEF Account, At, Live, Going, Setting, Using, Stopping, Cleaned, Ending,
        Deferring, SameWay, SameSession, SameResult
<1>35. CASE releaseHostLock
    BY <1>35, unlockIs DEF Account, At, Live, Going, Setting, Using, Stopping, Cleaned, Ending,
        Deferring, Released, Own, SameWay, SameSession, SameResult
<1>36. CASE updateTerminalFailureEvidence
    BY <1>36, outcomeIs DEF Account, At, Live, Going, Setting, Using, Stopping, Cleaned, Ending,
        Deferring, Same, SameWay, SameSession, SameResult
<1>37. CASE finalizeRunLedger
    BY <1>37, finalizeIs DEF Account, At, Live, Going, Setting, Using, Stopping, Cleaned, Ending,
        Deferring, SameSession, SameResult, terminalRunLedgerState
<1>38. CASE startHostLockHeartbeat
    BY <1>38, heartbeatIs DEF Account, At, Live, Going, Setting, Using, Stopping, Cleaned, Ending,
        Deferring, Same, SameWay, SameSession, SameResult, Own
<1>39. CASE Crash
    BY <1>39, CrashIs DEF Account, At, Live, Going, Setting, Using, Stopping, Cleaned, Ending,
        Deferring, SameSession, SameResult
<1>40. CASE Outside
    BY <1>40, OutsideIs DEF Account, At, Live, Going, Setting, Using, Stopping, Cleaned, Ending,
        Deferring
<1>41. ASSUME NEW s \in Stops,
             stopRun(s) \/ sweepKeptSessions(s) \/ StopSteps(s) \/ CrashStop(s)
      PROVE  Account'
    BY <1>41, StopLeaves DEF Account, At, Live, Going, Setting, Using, Stopping, Cleaned, Ending,
        Deferring
<1> QED
    BY <1>1, <1>2, <1>3, <1>4, <1>5, <1>6, <1>7, <1>8, <1>9, <1>10, <1>11, <1>12, <1>13, <1>14,
        <1>15, <1>16, <1>17, <1>18, <1>19, <1>20, <1>21, <1>22, <1>23, <1>24, <1>25, <1>26, <1>27,
        <1>28, <1>29, <1>30, <1>31, <1>32, <1>33, <1>34, <1>35, <1>36, <1>37, <1>38, <1>39, <1>40,
        <1>41 DEF Next, Controller, Setup, SessionSteps, Settlement, Cleanup, Deferred,
        Environment, Outside

\* A failure is accounted for once: as not needing a cleanup or as completed only
\* where no session was attempted, until the outcome of the deferred block.
LEMMA FailureStep ==
    ASSUME Typed, Asked, Untouched, Account, Failure, Next
    PROVE  Failure'
<1>1. CASE accept
    BY <1>1, acceptIs, SubmittedIs DEF Failure, At, Going, Setting, Using, Stopping, Cleaned,
        Ending, Deferring, FailsTo, SameWay, SameSession, SameResult
<1>2. CASE configureScenarioWorkspace
    BY <1>2, configureIs DEF Failure, At, Going, Setting, Using, Stopping, Cleaned, Ending,
        Deferring, FailsTo, Heard, SameWay, SameSession, SameResult
<1>3. CASE selectHostForRunValidated
    BY <1>3, selectIs DEF Failure, At, Going, Setting, Using, Stopping, Cleaned, Ending,
        Deferring, Account, Live, FailsTo, SameWay, SameSession, SameResult
<1>4. CASE probeHostReadiness
    BY <1>4, probeIs DEF Failure, At, Going, Setting, Using, Stopping, Cleaned, Ending, Deferring,
        FailsTo, Heard, Same, SameWay, SameSession, SameResult
<1>5. CASE recordRunning
    BY <1>5, recordRunningIs DEF Failure, At, Going, Setting, Using, Stopping, Cleaned, Ending,
        Deferring, FailsTo, Recorded, Same, SameWay, SameSession, SameResult
<1>6. CASE markActive
    BY <1>6, markActiveIs DEF Failure, At, Going, Setting, Using, Stopping, Cleaned, Ending,
        Deferring, FailsTo, Marked, Own, SameWay, SameSession, SameResult
<1>7. CASE StartFreshSession
    BY <1>7, StartFreshSessionIs DEF Failure, At, Going, Setting, Using, Stopping, Cleaned,
        Ending, Deferring, Account, Live, FailsTo, Heard, SameWay, SameResult, Own
<1>8. CASE startSessionWithCancellation
    BY <1>8, startWithCancellationIs DEF Failure, At, Going, Setting, Using, Stopping, Cleaned,
        Ending, Deferring, FailsTo, Heard, SameWay, SameResult, Own
<1>9. CASE renewHostLockNow
    BY <1>9, renewIs DEF Failure, At, Going, Setting, Using, Stopping, Cleaned, Ending, Deferring,
        Account, Live, FailsTo, SameWay, SameSession, SameResult
<1>10. CASE bindSession
    BY <1>10, bindIs, BoundIs DEF Failure, At, Going, Setting, Using, Stopping, Cleaned, Ending,
        Deferring, FailsTo, Rebound, Same, SameWay, SameSession, SameResult, Own
<1>11. CASE stagePayloadWithCancellation
    BY <1>11, stageIs DEF Failure, At, Going, Setting, Using, Stopping, Cleaned, Ending,
        Deferring, Account, Live, FailsTo, Heard, Same, SameWay, SameSession, SameResult, Own
<1>12. CASE runBrokerScenario
    BY <1>12, runBrokerScenarioIs DEF Failure, At, Going, Setting, Using, Stopping, Cleaned,
        Ending, Deferring, Same, SameWay, SameSession, SameResult, Own
<1>13. CASE cancelBrokerScenario
    BY <1>13, cancelScenarioIs DEF Failure, At, Going, Setting, Using, Stopping, Cleaned, Ending,
        Deferring, Account, Live, Answered, SameResult, Heard, Calmed, Sessions, Own
<1>14. CASE recoverCompletedScenarioAfterBrokerFailure
    BY <1>14, recoverIs DEF Failure, At, Going, Setting, Using, Stopping, Cleaned, Ending,
        Deferring, Account, Live, FailsTo, Heard, SameWay, Own
<1>15. CASE settle
    BY <1>15, settleIs DEF Failure, At, Going, Setting, Using, Stopping, Cleaned, Ending,
        Deferring, Account, Live, Heard, SameWay, SameSession, SameResult, Own
<1>16. CASE finishStopped
    BY <1>16, finishStoppedIs DEF Failure, At, Going, Setting, Using, Stopping, Cleaned, Ending,
        Deferring, Account, Live, Answered, SameResult, Heard, Calmed, Sessions, SameWay,
        SameSession, Own
<1>17. CASE finishKept
    BY <1>17, finishKeptIs DEF Failure, At, Going, Setting, Using, Stopping, Cleaned, Ending,
        Deferring, Account, Live, Same, SameWay, SameSession, SameResult
<1>18. CASE finishFailedRun
    BY <1>18, finishFailedRunIs DEF Failure, At, Going, Setting, Using, Stopping, Cleaned, Ending,
        Deferring, SameWay, SameSession, SameResult
<1>19. CASE retainSession
    BY <1>19, retainSessionIs DEF Failure, At, Going, Setting, Using, Stopping, Cleaned, Ending,
        Deferring, Account, Live, Marked, Own, Same, SameWay, SameSession, SameResult
<1>20. CASE RetainRun
    BY <1>20, RetainRunIs DEF Failure, At, Going, Setting, Using, Stopping, Cleaned, Ending,
        Deferring, Account, Live, Recorded, SameWay, SameSession, SameResult, OwnSession
<1>21. CASE syncEvidenceEvents
    BY <1>21, syncIs DEF Failure, At, Going, Setting, Using, Stopping, Cleaned, Ending, Deferring,
        Heard, SameWay, SameSession, SameResult
<1>22. CASE preserveStoppedRunForCleanup
    BY <1>22, preserveIs DEF Failure, At, Going, Setting, Using, Stopping, Cleaned, Ending,
        Deferring, Recorded, Same, SameWay, SameSession, SameResult
<1>23. CASE markKept
    BY <1>23, markKeptIs DEF Failure, At, Going, Setting, Using, Stopping, Cleaned, Ending,
        Deferring, Returned, Same, SameWay, SameSession, SameResult, Marked, Own
<1>24. CASE completeCleanupAfterRecoveryFailure
    BY <1>24, completeCleanupIs DEF Failure, At, Going, Setting, Using, Stopping, Cleaned, Ending,
        Deferring, Returned, Same, SameWay, SameSession, SameResult, Advanced
<1>25. CASE CleanupRun
    BY <1>25, CleanupRunIs DEF Failure, At, Going, Setting, Using, Stopping, Cleaned, Ending,
        Deferring, Returned, Same, SameWay, SameSession, SameResult
<1>26. CASE finishStoppedRunCleanup
    BY <1>26, finishStoppedRunCleanupIs DEF Failure, At, Going, Setting, Using, Stopping, Cleaned,
        Ending, Deferring, Returned, Same, SameWay, SameSession, SameResult, Recorded, Advanced
<1>27. CASE releaseStoppedRun
    BY <1>27, releaseStoppedRunIs DEF Failure, At, Going, Setting, Using, Stopping, Cleaned,
        Ending, Deferring, Returned, Same, SameWay, SameSession, SameResult, Released, Own
<1>28. CASE cleanupRunState
    BY <1>28, cleanupRunStateIs DEF Failure, At, Going, Setting, Using, Stopping, Cleaned, Ending,
        Deferring, Returned, Same, SameWay, SameSession, SameResult
<1>29. CASE finishEarlyFailure
    BY <1>29, earlyIs DEF Failure, At, Going, Setting, Using, Stopping, Cleaned, Ending,
        Deferring, Account, Live, Released, Own, SameWay, SameSession
<1>30. CASE ensureAcceptedFailureEvidence
    BY <1>30, ensureIs DEF Failure, At, Going, Setting, Using, Stopping, Cleaned, Ending,
        Deferring, Same, SameWay, SameSession, SameResult
<1>31. CASE settleDeferred
    <2>1. run.failure \in {"none", "not-needed", "failed", "pending", "completed", "retained"}
        BY DEF Typed, Controllers
    <2>2. run.pc = "defer"
        BY <1>31, deferredIs
    <2>3. run.started => run.attempted /\ run.failure \in {"none", "pending"} /\ run.policy # "unresolved"
        BY <2>1, <2>2 DEF Account, Failure
    <2>4. run'.pc = "unaccept" /\ run'.release => ~run'.started /\ ~run'.unsettled
        BY <1>31, <2>2, deferredIs DEF Account, SameSession
    <2>5. /\ run'.pc \in {"laststop", "sync", "failstop", "unaccept"}
          /\ (run'.pc = "sync" => run.started /\ run'.cleaning = "defer")
          /\ run'.policy = run.policy /\ run'.failure = run.failure /\ run'.started = run.started
          /\ run'.attempted = run.attempted /\ run'.unsettled = run.unsettled
        BY <1>31, deferredIs DEF SameSession, SameResult
    <2> QED
        BY <2>2, <2>3, <2>4, <2>5 DEF Failure, At, Going, Setting, Using, Stopping, Cleaned
<1>32. CASE stopAfterUnsettled
    BY <1>32, stopUnsettledIs DEF Failure, At, Going, Setting, Using, Stopping, Cleaned, Ending,
        Deferring, Account, Live, Answered, SameResult, Heard, Calmed, Sessions
<1>33. CASE stopAfterRunFailure
    BY <1>33, stopFailureIs, ZenonT(60) DEF Failure, At, Going, Setting, Using, Stopping, Cleaned, Ending,
        Deferring, Account, Live, Answered, SameResult, Heard, Calmed, Sessions, Typed,
        Controllers
<1>34. CASE cleanupUnacceptedOwnership
    BY <1>34, unacceptIs DEF Failure, At, Going, Setting, Using, Stopping, Cleaned, Ending,
        Deferring, SameWay, SameSession, SameResult
<1>35. CASE releaseHostLock
    BY <1>35, unlockIs DEF Failure, At, Going, Setting, Using, Stopping, Cleaned, Ending,
        Deferring, Released, Own, SameWay, SameSession, SameResult
<1>36. CASE updateTerminalFailureEvidence
    BY <1>36, outcomeIs DEF Failure, At, Going, Setting, Using, Stopping, Cleaned, Ending,
        Deferring, Same, SameWay, SameSession, SameResult
<1>37. CASE finalizeRunLedger
    BY <1>37, finalizeIs DEF Failure, At, Going, Setting, Using, Stopping, Cleaned, Ending,
        Deferring, SameSession, SameResult, terminalRunLedgerState
<1>38. CASE startHostLockHeartbeat
    BY <1>38, heartbeatIs DEF Failure, At, Going, Setting, Using, Stopping, Cleaned, Ending,
        Deferring, Same, SameWay, SameSession, SameResult, Own
<1>39. CASE Crash
    BY <1>39, CrashIs DEF Failure, At, Going, Setting, Using, Stopping, Cleaned, Ending,
        Deferring, SameSession, SameResult
<1>40. CASE Outside
    BY <1>40, OutsideIs DEF Failure, At, Going, Setting, Using, Stopping, Cleaned, Ending,
        Deferring
<1>41. ASSUME NEW s \in Stops,
             stopRun(s) \/ sweepKeptSessions(s) \/ StopSteps(s) \/ CrashStop(s)
      PROVE  Failure'
    BY <1>41, StopLeaves DEF Failure, At, Going, Setting, Using, Stopping, Cleaned, Ending,
        Deferring
<1> QED
    BY <1>1, <1>2, <1>3, <1>4, <1>5, <1>6, <1>7, <1>8, <1>9, <1>10, <1>11, <1>12, <1>13, <1>14,
        <1>15, <1>16, <1>17, <1>18, <1>19, <1>20, <1>21, <1>22, <1>23, <1>24, <1>25, <1>26, <1>27,
        <1>28, <1>29, <1>30, <1>31, <1>32, <1>33, <1>34, <1>35, <1>36, <1>37, <1>38, <1>39, <1>40,
        <1>41 DEF Next, Controller, Setup, SessionSteps, Settlement, Cleanup, Deferred,
        Environment, Outside

\* A Run that stops its session in any case keeps none, and only such a Run has a
\* session that a cancellation left unsettled.
LEMMA PolicyStep ==
    ASSUME Typed, Asked, Untouched, Account, Policy, Next
    PROVE  Policy'
<1>1. CASE accept
    BY <1>1, acceptIs, SubmittedIs DEF Policy, FailsTo, SameWay, SameSession, SameResult
<1>2. CASE configureScenarioWorkspace
    BY <1>2, configureIs DEF Policy, FailsTo, Heard, SameWay, SameSession, SameResult
<1>3. CASE selectHostForRunValidated
    BY <1>3, selectIs DEF Policy, FailsTo, SameWay, SameSession, SameResult
<1>4. CASE probeHostReadiness
    BY <1>4, probeIs DEF Policy, FailsTo, Heard, Same, SameWay, SameSession, SameResult
<1>5. CASE recordRunning
    BY <1>5, recordRunningIs DEF Policy, FailsTo, Recorded, Same, SameWay, SameSession, SameResult
<1>6. CASE markActive
    BY <1>6, markActiveIs DEF Policy, FailsTo, Marked, Own, SameWay, SameSession, SameResult
<1>7. CASE StartFreshSession
    BY <1>7, StartFreshSessionIs DEF Policy, FailsTo, Heard, SameWay, SameResult, Own
<1>8. CASE startSessionWithCancellation
    BY <1>8, startWithCancellationIs DEF Policy, FailsTo, Heard, SameWay, SameResult, Own
<1>9. CASE renewHostLockNow
    BY <1>9, renewIs DEF Policy, FailsTo, SameWay, SameSession, SameResult
<1>10. CASE bindSession
    BY <1>10, bindIs, BoundIs DEF Policy, FailsTo, Rebound, Same, SameWay, SameSession,
        SameResult, Own
<1>11. CASE stagePayloadWithCancellation
    BY <1>11, stageIs DEF Policy, FailsTo, Heard, Same, SameWay, SameSession, SameResult, Own
<1>12. CASE runBrokerScenario
    BY <1>12, runBrokerScenarioIs DEF Policy, Same, SameWay, SameSession, SameResult, Own
<1>13. CASE cancelBrokerScenario
    BY <1>13, cancelScenarioIs DEF Policy, Answered, SameResult, Heard, Calmed, Sessions, Own
<1>14. CASE recoverCompletedScenarioAfterBrokerFailure
    BY <1>14, recoverIs DEF Policy, FailsTo, Heard, SameWay, Own
<1>15. CASE settle
    BY <1>15, settleIs DEF Policy, Heard, SameWay, SameSession, SameResult, Own
<1>16. CASE finishStopped
    BY <1>16, finishStoppedIs DEF Policy, Answered, SameResult, Heard, Calmed, Sessions, SameWay,
        SameSession, Own
<1>17. CASE finishKept
    BY <1>17, finishKeptIs DEF Policy, Same, SameWay, SameSession, SameResult
<1>18. CASE finishFailedRun
    BY <1>18, finishFailedRunIs DEF Policy, SameWay, SameSession, SameResult
<1>19. CASE retainSession
    BY <1>19, retainSessionIs DEF Policy, Marked, Own, Same, SameWay, SameSession, SameResult
<1>20. CASE RetainRun
    BY <1>20, RetainRunIs DEF Policy, Recorded, SameWay, SameSession, SameResult, OwnSession
<1>21. CASE syncEvidenceEvents
    BY <1>21, syncIs DEF Policy, Heard, SameWay, SameSession, SameResult
<1>22. CASE preserveStoppedRunForCleanup
    BY <1>22, preserveIs DEF Policy, Recorded, Same, SameWay, SameSession, SameResult
<1>23. CASE markKept
    BY <1>23, markKeptIs DEF Policy, Returned, Same, SameWay, SameSession, SameResult, Marked, Own
<1>24. CASE completeCleanupAfterRecoveryFailure
    BY <1>24, completeCleanupIs DEF Policy, Returned, Same, SameWay, SameSession, SameResult,
        Advanced
<1>25. CASE CleanupRun
    BY <1>25, CleanupRunIs DEF Policy, Returned, Same, SameWay, SameSession, SameResult
<1>26. CASE finishStoppedRunCleanup
    BY <1>26, finishStoppedRunCleanupIs DEF Policy, Returned, Same, SameWay, SameSession,
        SameResult, Recorded, Advanced
<1>27. CASE releaseStoppedRun
    BY <1>27, releaseStoppedRunIs DEF Policy, Returned, Same, SameWay, SameSession, SameResult,
        Released, Own
<1>28. CASE cleanupRunState
    BY <1>28, cleanupRunStateIs DEF Policy, Returned, Same, SameWay, SameSession, SameResult
<1>29. CASE finishEarlyFailure
    BY <1>29, earlyIs DEF Policy, Released, Own, SameWay, SameSession
<1>30. CASE ensureAcceptedFailureEvidence
    BY <1>30, ensureIs DEF Policy, Same, SameWay, SameSession, SameResult
<1>31. CASE settleDeferred
    BY <1>31, deferredIs DEF Policy, SameSession, SameResult
<1>32. CASE stopAfterUnsettled
    BY <1>32, stopUnsettledIs DEF Policy, Answered, SameResult, Heard, Calmed, Sessions
<1>33. CASE stopAfterRunFailure
    BY <1>33, stopFailureIs DEF Policy, Answered, SameResult, Heard, Calmed, Sessions
<1>34. CASE cleanupUnacceptedOwnership
    BY <1>34, unacceptIs DEF Policy, SameWay, SameSession, SameResult
<1>35. CASE releaseHostLock
    BY <1>35, unlockIs DEF Policy, Released, Own, SameWay, SameSession, SameResult
<1>36. CASE updateTerminalFailureEvidence
    BY <1>36, outcomeIs DEF Policy, Same, SameWay, SameSession, SameResult
<1>37. CASE finalizeRunLedger
    BY <1>37, finalizeIs DEF Policy, SameSession, SameResult, terminalRunLedgerState
<1>38. CASE startHostLockHeartbeat
    BY <1>38, heartbeatIs DEF Policy, Same, SameWay, SameSession, SameResult, Own
<1>39. CASE Crash
    BY <1>39, CrashIs DEF Policy, SameSession, SameResult
<1>40. CASE LateStart
    BY <1>40, OutsideIs DEF Outside, Policy, LateStart
<1>41. CASE LateStop
    BY <1>41, OutsideIs DEF Outside, Policy, LateStop
<1>42. CASE Cancel
    BY <1>42, OutsideIs DEF Outside, Policy, Cancel
<1>43. CASE Expire
    BY <1>43, OutsideIs DEF Outside, Policy, Expire
<1>44. CASE RivalTakes
    BY <1>44, OutsideIs DEF Outside, Policy, RivalTakes
<1>45. CASE RivalStarts
    BY <1>45, OutsideIs DEF Outside, Policy, RivalStarts
<1>46. CASE RivalLeaves
    BY <1>46, OutsideIs DEF Outside, Policy, RivalLeaves
<1>47. ASSUME NEW s \in Stops,
             stopRun(s) \/ sweepKeptSessions(s) \/ StopSteps(s) \/ CrashStop(s)
      PROVE  Policy'
    BY <1>47, StopLeaves DEF Policy
<1> QED
    BY <1>1, <1>2, <1>3, <1>4, <1>5, <1>6, <1>7, <1>8, <1>9, <1>10, <1>11, <1>12, <1>13, <1>14,
        <1>15, <1>16, <1>17, <1>18, <1>19, <1>20, <1>21, <1>22, <1>23, <1>24, <1>25, <1>26, <1>27,
        <1>28, <1>29, <1>30, <1>31, <1>32, <1>33, <1>34, <1>35, <1>36, <1>37, <1>38, <1>39, <1>40,
        <1>41, <1>42, <1>43, <1>44, <1>45, <1>46, <1>47 DEF Next, Controller, Setup, SessionSteps,
        Settlement, Cleanup, Deferred, Environment, Outside

\* A stop that has begun found the Run in the ledger; one past its checks found its
\* Run Record too.
LEMMA AskedStep ==
    ASSUME Typed, Asked, Untouched, Account, Next
    PROVE  Asked'
<1>1. CASE accept
    BY <1>1, acceptIs, SubmittedIs DEF Asked, Past, Emptied, Freed, Account, At, Live, Going,
        Setting, Using, Stopping, Cleaned, Ending, Deferring, FailsTo, SameWay, SameSession,
        SameResult
<1>2. CASE configureScenarioWorkspace
    BY <1>2, configureIs DEF Asked, Past, Emptied, Freed, FailsTo, Heard, SameWay, SameSession,
        SameResult
<1>3. CASE selectHostForRunValidated
    BY <1>3, selectIs DEF Asked, Past, Emptied, Freed, FailsTo, SameWay, SameSession, SameResult
<1>4. CASE probeHostReadiness
    BY <1>4, probeIs DEF Asked, Past, Emptied, Freed, FailsTo, Heard, Same, SameWay, SameSession,
        SameResult
<1>5. CASE recordRunning
    BY <1>5, recordRunningIs, NoneIs DEF Asked, Past, Emptied, Freed, FailsTo, Recorded, Same,
        SameWay, SameSession, SameResult
<1>6. CASE markActive
    BY <1>6, markActiveIs DEF Asked, Past, Emptied, Freed, FailsTo, Marked, Own, SameWay,
        SameSession, SameResult
<1>7. CASE StartFreshSession
    BY <1>7, StartFreshSessionIs DEF Asked, Past, Emptied, Freed, FailsTo, Heard, SameWay,
        SameResult, Own
<1>8. CASE startSessionWithCancellation
    BY <1>8, startWithCancellationIs DEF Asked, Past, Emptied, Freed, FailsTo, Heard, SameWay,
        SameResult, Own
<1>9. CASE renewHostLockNow
    BY <1>9, renewIs DEF Asked, Past, Emptied, Freed, FailsTo, SameWay, SameSession, SameResult
<1>10. CASE bindSession
    BY <1>10, bindIs, BoundIs, NoneIs DEF Asked, Past, Emptied, Freed, FailsTo, Rebound, Same,
        SameWay, SameSession, SameResult, Own
<1>11. CASE stagePayloadWithCancellation
    BY <1>11, stageIs DEF Asked, Past, Emptied, Freed, FailsTo, Heard, Same, SameWay, SameSession,
        SameResult, Own
<1>12. CASE runBrokerScenario
    BY <1>12, runBrokerScenarioIs DEF Asked, Past, Emptied, Freed, Same, SameWay, SameSession,
        SameResult, Own
<1>13. CASE cancelBrokerScenario
    BY <1>13, cancelScenarioIs DEF Asked, Past, Emptied, Freed, Answered, SameResult, Heard,
        Calmed, Sessions, Own
<1>14. CASE recoverCompletedScenarioAfterBrokerFailure
    BY <1>14, recoverIs DEF Asked, Past, Emptied, Freed, FailsTo, Heard, SameWay, Own
<1>15. CASE settle
    BY <1>15, settleIs DEF Asked, Past, Emptied, Freed, Heard, SameWay, SameSession, SameResult,
        Own
<1>16. CASE finishStopped
    BY <1>16, finishStoppedIs DEF Asked, Past, Emptied, Freed, Answered, SameResult, Heard,
        Calmed, Sessions, SameWay, SameSession, Own
<1>17. CASE finishKept
    BY <1>17, finishKeptIs DEF Asked, Past, Emptied, Freed, Same, SameWay, SameSession, SameResult
<1>18. CASE finishFailedRun
    BY <1>18, finishFailedRunIs DEF Asked, Past, Emptied, Freed, SameWay, SameSession, SameResult
<1>19. CASE retainSession
    BY <1>19, retainSessionIs DEF Asked, Past, Emptied, Freed, Marked, Own, Same, SameWay,
        SameSession, SameResult
<1>20. CASE RetainRun
    BY <1>20, RetainRunIs, NoneIs DEF Asked, Past, Emptied, Freed, Recorded, SameWay, SameSession,
        SameResult, OwnSession
<1>21. CASE syncEvidenceEvents
    BY <1>21, syncIs DEF Asked, Past, Emptied, Freed, Heard, SameWay, SameSession, SameResult
<1>22. CASE preserveStoppedRunForCleanup
    BY <1>22, preserveIs, NoneIs DEF Asked, Past, Emptied, Freed, Recorded, Same, SameWay,
        SameSession, SameResult
<1>23. CASE markKept
    BY <1>23, markKeptIs DEF Asked, Past, Emptied, Freed, Returned, Same, SameWay, SameSession,
        SameResult, Marked, Own
<1>24. CASE completeCleanupAfterRecoveryFailure
    BY <1>24, completeCleanupIs, NoneIs DEF Asked, Past, Emptied, Freed, Returned, Same, SameWay,
        SameSession, SameResult, Advanced
<1>25. CASE CleanupRun
    BY <1>25, CleanupRunIs DEF Asked, Past, Emptied, Freed, Returned, Same, SameWay, SameSession,
        SameResult
<1>26. CASE finishStoppedRunCleanup
    BY <1>26, finishStoppedRunCleanupIs, NoneIs DEF Asked, Past, Emptied, Freed, Returned, Same,
        SameWay, SameSession, SameResult, Recorded, Advanced
<1>27. CASE releaseStoppedRun
    BY <1>27, releaseStoppedRunIs DEF Asked, Past, Emptied, Freed, Returned, Same, SameWay,
        SameSession, SameResult, Released, Own
<1>28. CASE cleanupRunState
    BY <1>28, cleanupRunStateIs DEF Asked, Past, Emptied, Freed, Returned, Same, SameWay,
        SameSession, SameResult
<1>29. CASE finishEarlyFailure
    BY <1>29, earlyIs DEF Asked, Past, Emptied, Freed, Released, Own, SameWay, SameSession
<1>30. CASE ensureAcceptedFailureEvidence
    BY <1>30, ensureIs DEF Asked, Past, Emptied, Freed, Same, SameWay, SameSession, SameResult
<1>31. CASE settleDeferred
    BY <1>31, deferredIs DEF Asked, Past, Emptied, Freed, SameSession, SameResult
<1>32. CASE stopAfterUnsettled
    BY <1>32, stopUnsettledIs DEF Asked, Past, Emptied, Freed, Answered, SameResult, Heard,
        Calmed, Sessions
<1>33. CASE stopAfterRunFailure
    BY <1>33, stopFailureIs DEF Asked, Past, Emptied, Freed, Answered, SameResult, Heard, Calmed,
        Sessions
<1>34. CASE cleanupUnacceptedOwnership
    BY <1>34, unacceptIs DEF Asked, Past, Emptied, Freed, SameWay, SameSession, SameResult
<1>35. CASE releaseHostLock
    BY <1>35, unlockIs DEF Asked, Past, Emptied, Freed, Released, Own, SameWay, SameSession,
        SameResult
<1>36. CASE updateTerminalFailureEvidence
    BY <1>36, outcomeIs DEF Asked, Past, Emptied, Freed, Same, SameWay, SameSession, SameResult
<1>37. CASE finalizeRunLedger
    BY <1>37, finalizeIs, NoneIs DEF Asked, Past, Emptied, Freed, SameSession, SameResult,
        terminalRunLedgerState
<1>38. CASE startHostLockHeartbeat
    BY <1>38, heartbeatIs DEF Asked, Past, Emptied, Freed, Same, SameWay, SameSession, SameResult,
        Own
<1>39. CASE Crash
    BY <1>39, CrashIs DEF Asked, Past, Emptied, Freed, SameSession, SameResult
<1>40. CASE Outside
    BY <1>40, OutsideIs DEF Asked, Past, Emptied, Freed
<1>41. ASSUME NEW s \in Stops,
             stopRun(s) \/ sweepKeptSessions(s) \/ StopSteps(s) \/ CrashStop(s)
      PROVE  Asked'
    <2>1. CASE stopRun(s) \/ sweepKeptSessions(s)
        BY <1>41, <2>1, askIs DEF Asked, Past, Emptied, Freed, Others
    <2>2. CASE prepareRunLedgerForStop(s)
        BY <1>41, <2>2, prepareIs, NoneIs DEF Asked, Past, Emptied, Freed, Moves, Others,
            Reconciles, CanReconcile, Unfinished, requireStaleSubmittedRunController,
            repoHostLockUsesActiveRun
    <2>3. CASE stopKeptRun(s)
        BY <1>41, <2>3, stopKeptRunIs, NoneIs, ZenonT(60) DEF Asked, Past, Emptied, Freed, Others, Moves,
            Refused, Reads, Recovers, Live, At
    <2>4. CASE StopRetainedRun(s)
        BY <1>41, <2>4, StopRetainedRunIs DEF Asked, Past, Emptied, Freed, Moves, Others, Refused,
            Stops1, Sessions
    <2>5. CASE removeRemotePath(s)
        BY <1>41, <2>5, removeRemotePathIs DEF Asked, Past, Emptied, Freed, Moves, Others, Refused
    <2>6. CASE releaseHostSideLock(s)
        BY <1>41, <2>6, releaseHostSideIs DEF Asked, Past, Emptied, Freed, Moves, Others, Refused,
            OwnSession
    <2>7. CASE removeRepoHostLockForRun(s)
        BY <1>41, <2>7, removeMirrorIs DEF Asked, Past, Emptied, Freed, Moves, Others, Refused
    <2>8. CASE finishReleasedStopRun(s)
        BY <1>41, <2>8, finishReleasedStopRunIs, NoneIs DEF Asked, Past, Emptied, Freed, Advanced,
            Others, Refused
    <2>9. CASE cleanupStoppedRunState(s)
        BY <1>41, <2>9, cleanupStoppedIs DEF Asked, Past, Emptied, Freed, Moves, Others, Refused
    <2>10. CASE updateRunLedgerAfterStop(s)
        BY <1>41, <2>10, updateIs, NoneIs DEF Asked, Past, Emptied, Freed, Rests, Others
    <2>11. CASE CrashStop(s)
        BY <1>41, <2>11, CrashStopIs DEF Asked, Past, Emptied, Freed, Rests, Others
    <2> QED
        BY <1>41, <2>1, <2>2, <2>3, <2>4, <2>5, <2>6, <2>7, <2>8, <2>9, <2>10, <2>11 DEF StopSteps
<1> QED
    BY <1>1, <1>2, <1>3, <1>4, <1>5, <1>6, <1>7, <1>8, <1>9, <1>10, <1>11, <1>12, <1>13, <1>14,
        <1>15, <1>16, <1>17, <1>18, <1>19, <1>20, <1>21, <1>22, <1>23, <1>24, <1>25, <1>26, <1>27,
        <1>28, <1>29, <1>30, <1>31, <1>32, <1>33, <1>34, <1>35, <1>36, <1>37, <1>38, <1>39, <1>40,
        <1>41 DEF Next, Controller, Setup, SessionSteps, Settlement, Cleanup, Deferred,
        Environment, Outside

\* The checks of stopKeptRun keep every stop away from a Run whose controller is
\* still going: its files say running and submitted, and its lock is not a kept one.
LEMMA UntouchedStep ==
    ASSUME Typed, Asked, Untouched, Account, Next
    PROVE  Untouched'
<1>1. CASE accept
    BY <1>1, acceptIs, SubmittedIs DEF Untouched, Going, Setting, Using, Past, Emptied, Freed,
        FailsTo, SameWay, SameSession, SameResult
<1>2. CASE configureScenarioWorkspace
    BY <1>2, configureIs DEF Untouched, Going, Setting, Using, Past, Emptied, Freed, FailsTo,
        Heard, SameWay, SameSession, SameResult
<1>3. CASE selectHostForRunValidated
    BY <1>3, selectIs DEF Untouched, Going, Setting, Using, Past, Emptied, Freed, FailsTo,
        SameWay, SameSession, SameResult
<1>4. CASE probeHostReadiness
    BY <1>4, probeIs DEF Untouched, Going, Setting, Using, Past, Emptied, Freed, FailsTo, Heard,
        Same, SameWay, SameSession, SameResult
<1>5. CASE recordRunning
    BY <1>5, recordRunningIs, NoneIs DEF Untouched, Going, Setting, Using, Past, Emptied, Freed,
        FailsTo, Recorded, Same, SameWay, SameSession, SameResult
<1>6. CASE markActive
    BY <1>6, markActiveIs DEF Untouched, Going, Setting, Using, Past, Emptied, Freed, FailsTo,
        Marked, Own, SameWay, SameSession, SameResult
<1>7. CASE StartFreshSession
    BY <1>7, StartFreshSessionIs DEF Untouched, Going, Setting, Using, Past, Emptied, Freed,
        FailsTo, Heard, SameWay, SameResult, Own
<1>8. CASE startSessionWithCancellation
    BY <1>8, startWithCancellationIs DEF Untouched, Going, Setting, Using, Past, Emptied, Freed,
        FailsTo, Heard, SameWay, SameResult, Own
<1>9. CASE renewHostLockNow
    BY <1>9, renewIs DEF Untouched, Going, Setting, Using, Past, Emptied, Freed, FailsTo, SameWay,
        SameSession, SameResult
<1>10. CASE bindSession
    BY <1>10, bindIs, BoundIs, NoneIs DEF Untouched, Going, Setting, Using, Past, Emptied, Freed,
        FailsTo, Rebound, Same, SameWay, SameSession, SameResult, Own
<1>11. CASE stagePayloadWithCancellation
    BY <1>11, stageIs DEF Untouched, Going, Setting, Using, Past, Emptied, Freed, FailsTo, Heard,
        Same, SameWay, SameSession, SameResult, Own
<1>12. CASE runBrokerScenario
    BY <1>12, runBrokerScenarioIs DEF Untouched, Going, Setting, Using, Past, Emptied, Freed,
        Same, SameWay, SameSession, SameResult, Own
<1>13. CASE cancelBrokerScenario
    BY <1>13, cancelScenarioIs DEF Untouched, Going, Setting, Using, Past, Emptied, Freed,
        Answered, SameResult, Heard, Calmed, Sessions, Own
<1>14. CASE recoverCompletedScenarioAfterBrokerFailure
    BY <1>14, recoverIs DEF Untouched, Going, Setting, Using, Past, Emptied, Freed, FailsTo,
        Heard, SameWay, Own
<1>15. CASE settle
    BY <1>15, settleIs DEF Untouched, Going, Setting, Using, Past, Emptied, Freed, Heard, SameWay,
        SameSession, SameResult, Own
<1>16. CASE finishStopped
    BY <1>16, finishStoppedIs DEF Untouched, Going, Setting, Using, Past, Emptied, Freed,
        Answered, SameResult, Heard, Calmed, Sessions, SameWay, SameSession, Own
<1>17. CASE finishKept
    BY <1>17, finishKeptIs DEF Untouched, Going, Setting, Using, Past, Emptied, Freed, Same,
        SameWay, SameSession, SameResult
<1>18. CASE finishFailedRun
    BY <1>18, finishFailedRunIs DEF Untouched, Going, Setting, Using, Past, Emptied, Freed,
        Account, At, Live, Stopping, Cleaned, Ending, Deferring, SameWay, SameSession, SameResult
<1>19. CASE retainSession
    BY <1>19, retainSessionIs DEF Untouched, Going, Setting, Using, Past, Emptied, Freed, Marked,
        Own, Same, SameWay, SameSession, SameResult
<1>20. CASE RetainRun
    BY <1>20, RetainRunIs, NoneIs DEF Untouched, Going, Setting, Using, Past, Emptied, Freed,
        Recorded, SameWay, SameSession, SameResult, OwnSession
<1>21. CASE syncEvidenceEvents
    BY <1>21, syncIs DEF Untouched, Going, Setting, Using, Past, Emptied, Freed, Heard, SameWay,
        SameSession, SameResult
<1>22. CASE preserveStoppedRunForCleanup
    BY <1>22, preserveIs, NoneIs DEF Untouched, Going, Setting, Using, Past, Emptied, Freed,
        Recorded, Same, SameWay, SameSession, SameResult
<1>23. CASE markKept
    BY <1>23, markKeptIs DEF Untouched, Going, Setting, Using, Past, Emptied, Freed, Returned,
        Same, SameWay, SameSession, SameResult, Marked, Own
<1>24. CASE completeCleanupAfterRecoveryFailure
    BY <1>24, completeCleanupIs, NoneIs DEF Untouched, Going, Setting, Using, Past, Emptied,
        Freed, Returned, Same, SameWay, SameSession, SameResult, Advanced
<1>25. CASE CleanupRun
    BY <1>25, CleanupRunIs DEF Untouched, Going, Setting, Using, Past, Emptied, Freed, Returned,
        Same, SameWay, SameSession, SameResult
<1>26. CASE finishStoppedRunCleanup
    BY <1>26, finishStoppedRunCleanupIs, NoneIs DEF Untouched, Going, Setting, Using, Past,
        Emptied, Freed, Returned, Same, SameWay, SameSession, SameResult, Recorded, Advanced
<1>27. CASE releaseStoppedRun
    BY <1>27, releaseStoppedRunIs DEF Untouched, Going, Setting, Using, Past, Emptied, Freed,
        Returned, Same, SameWay, SameSession, SameResult, Released, Own
<1>28. CASE cleanupRunState
    BY <1>28, cleanupRunStateIs DEF Untouched, Going, Setting, Using, Past, Emptied, Freed,
        Returned, Same, SameWay, SameSession, SameResult
<1>29. CASE finishEarlyFailure
    BY <1>29, earlyIs DEF Untouched, Going, Setting, Using, Past, Emptied, Freed, Released, Own,
        SameWay, SameSession
<1>30. CASE ensureAcceptedFailureEvidence
    BY <1>30, ensureIs DEF Untouched, Going, Setting, Using, Past, Emptied, Freed, Same, SameWay,
        SameSession, SameResult
<1>31. CASE settleDeferred
    BY <1>31, deferredIs DEF Untouched, Going, Setting, Using, Past, Emptied, Freed, SameSession,
        SameResult
<1>32. CASE stopAfterUnsettled
    BY <1>32, stopUnsettledIs DEF Untouched, Going, Setting, Using, Past, Emptied, Freed,
        Answered, SameResult, Heard, Calmed, Sessions
<1>33. CASE stopAfterRunFailure
    BY <1>33, stopFailureIs DEF Untouched, Going, Setting, Using, Past, Emptied, Freed, Answered,
        SameResult, Heard, Calmed, Sessions
<1>34. CASE cleanupUnacceptedOwnership
    BY <1>34, unacceptIs DEF Untouched, Going, Setting, Using, Past, Emptied, Freed, SameWay,
        SameSession, SameResult
<1>35. CASE releaseHostLock
    BY <1>35, unlockIs DEF Untouched, Going, Setting, Using, Past, Emptied, Freed, Released, Own,
        SameWay, SameSession, SameResult
<1>36. CASE updateTerminalFailureEvidence
    BY <1>36, outcomeIs DEF Untouched, Going, Setting, Using, Past, Emptied, Freed, Same, SameWay,
        SameSession, SameResult
<1>37. CASE finalizeRunLedger
    BY <1>37, finalizeIs, NoneIs DEF Untouched, Going, Setting, Using, Past, Emptied, Freed,
        SameSession, SameResult, terminalRunLedgerState
<1>38. CASE startHostLockHeartbeat
    BY <1>38, heartbeatIs DEF Untouched, Going, Setting, Using, Past, Emptied, Freed, Same,
        SameWay, SameSession, SameResult, Own
<1>39. CASE Crash
    BY <1>39, CrashIs DEF Untouched, Going, Setting, Using, Past, Emptied, Freed, SameSession,
        SameResult
<1>40. CASE LateStart
    BY <1>40, OutsideIs DEF Outside, Untouched, Going, Setting, Using, Past, Emptied, Freed, LateStart
<1>41. CASE LateStop
    BY <1>41, OutsideIs DEF Outside, Untouched, Going, Setting, Using, Past, Emptied, Freed, LateStop
<1>42. CASE Cancel
    BY <1>42, OutsideIs DEF Outside, Untouched, Going, Setting, Using, Past, Emptied, Freed, Cancel
<1>43. CASE Expire
    BY <1>43, OutsideIs DEF Outside, Untouched, Going, Setting, Using, Past, Emptied, Freed, Expire
<1>44. CASE RivalTakes
    BY <1>44, OutsideIs DEF Outside, Untouched, Going, Setting, Using, Past, Emptied, Freed, RivalTakes
<1>45. CASE RivalStarts
    BY <1>45, OutsideIs DEF Outside, Untouched, Going, Setting, Using, Past, Emptied, Freed, RivalStarts
<1>46. CASE RivalLeaves
    BY <1>46, OutsideIs DEF Outside, Untouched, Going, Setting, Using, Past, Emptied, Freed, RivalLeaves
<1>47. ASSUME NEW s \in Stops,
             stopRun(s) \/ sweepKeptSessions(s) \/ StopSteps(s) \/ CrashStop(s)
      PROVE  Untouched'
    <2>1. CASE stopRun(s) \/ sweepKeptSessions(s)
        BY <1>47, <2>1, askIs DEF Untouched, Going, Setting, Using, Past, Emptied, Freed, Others
    <2>2. CASE prepareRunLedgerForStop(s)
        BY <1>47, <2>2, prepareIs, NoneIs DEF Untouched, Going, Setting, Using, Past, Emptied,
            Freed, Account, At, Live, Stopping, Cleaned, Ending, Deferring, Moves, Others,
            Reconciles, CanReconcile, Unfinished, requireStaleSubmittedRunController,
            repoHostLockUsesActiveRun
    <2>3. CASE stopKeptRun(s)
        BY <1>47, <2>3, stopKeptRunIs, NoneIs DEF Untouched, Going, Setting, Using, Past, Emptied,
            Freed, Asked, Others, Moves, Refused, Reads, Recovers, Live, At
    <2>4. CASE StopRetainedRun(s)
        BY <1>47, <2>4, StopRetainedRunIs DEF Untouched, Going, Setting, Using, Past, Emptied,
            Freed, Moves, Others, Refused, Stops1, Sessions
    <2>5. CASE removeRemotePath(s)
        BY <1>47, <2>5, removeRemotePathIs DEF Untouched, Going, Setting, Using, Past, Emptied,
            Freed, Moves, Others, Refused
    <2>6. CASE releaseHostSideLock(s)
        BY <1>47, <2>6, releaseHostSideIs DEF Untouched, Going, Setting, Using, Past, Emptied,
            Freed, Moves, Others, Refused, OwnSession
    <2>7. CASE removeRepoHostLockForRun(s)
        BY <1>47, <2>7, removeMirrorIs DEF Untouched, Going, Setting, Using, Past, Emptied, Freed,
            Moves, Others, Refused
    <2>8. CASE finishReleasedStopRun(s)
        BY <1>47, <2>8, finishReleasedStopRunIs, NoneIs DEF Untouched, Going, Setting, Using,
            Past, Emptied, Freed, Advanced, Others, Refused
    <2>9. CASE cleanupStoppedRunState(s)
        BY <1>47, <2>9, cleanupStoppedIs DEF Untouched, Going, Setting, Using, Past, Emptied,
            Freed, Moves, Others, Refused
    <2>10. CASE updateRunLedgerAfterStop(s)
        BY <1>47, <2>10, updateIs, NoneIs DEF Untouched, Going, Setting, Using, Past, Emptied,
            Freed, Asked, Rests, Others
    <2>11. CASE CrashStop(s)
        BY <1>47, <2>11, CrashStopIs DEF Untouched, Going, Setting, Using, Past, Emptied, Freed,
            Rests, Others
    <2> QED
        BY <1>47, <2>1, <2>2, <2>3, <2>4, <2>5, <2>6, <2>7, <2>8, <2>9, <2>10, <2>11 DEF StopSteps
<1> QED
    BY <1>1, <1>2, <1>3, <1>4, <1>5, <1>6, <1>7, <1>8, <1>9, <1>10, <1>11, <1>12, <1>13, <1>14,
        <1>15, <1>16, <1>17, <1>18, <1>19, <1>20, <1>21, <1>22, <1>23, <1>24, <1>25, <1>26, <1>27,
        <1>28, <1>29, <1>30, <1>31, <1>32, <1>33, <1>34, <1>35, <1>36, <1>37, <1>38, <1>39, <1>40,
        <1>41, <1>42, <1>43, <1>44, <1>45, <1>46, <1>47 DEF Next, Controller, Setup, SessionSteps,
        Settlement, Cleanup, Deferred, Environment, Outside

\* A session of the Run is on the Host only after its start, and a settled one that was
\* not retained is down.
LEMMA ShownStep ==
    ASSUME Typed, Asked, Untouched, Account, Failure, Shown, Next
    PROVE  Shown'
<1>1. CASE accept
    BY <1>1, acceptIs, SubmittedIs DEF Shown, At, Own, OwnSession, FailsTo, SameWay, SameSession,
        SameResult
<1>2. CASE configureScenarioWorkspace
    BY <1>2, configureIs DEF Shown, At, Own, OwnSession, FailsTo, Heard, SameWay, SameSession,
        SameResult
<1>3. CASE selectHostForRunValidated
    BY <1>3, selectIs DEF Shown, At, Own, OwnSession, Account, Live, Going, Setting, Using,
        Stopping, Cleaned, Ending, Deferring, FailsTo, SameWay, SameSession, SameResult
<1>4. CASE probeHostReadiness
    BY <1>4, probeIs DEF Shown, At, Own, OwnSession, FailsTo, Heard, Same, SameWay, SameSession,
        SameResult
<1>5. CASE recordRunning
    BY <1>5, recordRunningIs, NoneIs DEF Shown, At, Own, OwnSession, FailsTo, Recorded, Same,
        SameWay, SameSession, SameResult
<1>6. CASE markActive
    BY <1>6, markActiveIs DEF Shown, At, Own, OwnSession, FailsTo, Marked, SameWay, SameSession,
        SameResult
<1>7. CASE StartFreshSession
    BY <1>7, StartFreshSessionIs, QuietIs DEF Shown, At, Own, OwnSession, Account, Live, Going,
        Setting, Using, Stopping, Cleaned, Ending, Deferring, Failure, FailsTo, Heard, SameWay,
        SameResult
<1>8. CASE startSessionWithCancellation
    BY <1>8, startWithCancellationIs DEF Shown, At, Own, OwnSession, Account, Live, Going,
        Setting, Using, Stopping, Cleaned, Ending, Deferring, FailsTo, Heard, SameWay, SameResult
<1>9. CASE renewHostLockNow
    BY <1>9, renewIs DEF Shown, At, Own, OwnSession, FailsTo, SameWay, SameSession, SameResult
<1>10. CASE bindSession
    BY <1>10, bindIs, BoundIs, NoneIs DEF Shown, At, Own, OwnSession, FailsTo, Rebound, Same,
        SameWay, SameSession, SameResult
<1>11. CASE stagePayloadWithCancellation
    BY <1>11, stageIs DEF Shown, At, Own, OwnSession, FailsTo, Heard, Same, SameWay, SameSession,
        SameResult
<1>12. CASE runBrokerScenario
    BY <1>12, runBrokerScenarioIs DEF Shown, At, Own, OwnSession, Same, SameWay, SameSession,
        SameResult
<1>13. CASE cancelBrokerScenario
    BY <1>13, cancelScenarioIs DEF Shown, At, Own, OwnSession, Answered, SameResult, Heard,
        Calmed, Sessions
<1>14. CASE recoverCompletedScenarioAfterBrokerFailure
    BY <1>14, recoverIs DEF Shown, At, Own, OwnSession, FailsTo, Heard, SameWay
<1>15. CASE settle
    BY <1>15, settleIs DEF Shown, At, Own, OwnSession, Heard, SameWay, SameSession, SameResult
<1>16. CASE finishStopped
    BY <1>16, finishStoppedIs DEF Shown, At, Own, OwnSession, Answered, SameResult, Heard, Calmed,
        Sessions, SameWay, SameSession
<1>17. CASE finishKept
    BY <1>17, finishKeptIs DEF Shown, At, Own, OwnSession, Same, SameWay, SameSession, SameResult
<1>18. CASE finishFailedRun
    BY <1>18, finishFailedRunIs DEF Shown, At, Own, OwnSession, SameWay, SameSession, SameResult
<1>19. CASE retainSession
    BY <1>19, retainSessionIs DEF Shown, At, Own, OwnSession, Marked, Same, SameWay, SameSession,
        SameResult
<1>20. CASE RetainRun
    BY <1>20, RetainRunIs, NoneIs DEF Shown, At, Own, OwnSession, Recorded, SameWay, SameSession,
        SameResult
<1>21. CASE syncEvidenceEvents
    BY <1>21, syncIs DEF Shown, At, Own, OwnSession, Heard, SameWay, SameSession, SameResult
<1>22. CASE preserveStoppedRunForCleanup
    BY <1>22, preserveIs, NoneIs DEF Shown, At, Own, OwnSession, Recorded, Same, SameWay,
        SameSession, SameResult
<1>23. CASE markKept
    BY <1>23, markKeptIs DEF Shown, At, Own, OwnSession, Returned, Same, SameWay, SameSession,
        SameResult, Marked
<1>24. CASE completeCleanupAfterRecoveryFailure
    BY <1>24, completeCleanupIs, NoneIs DEF Shown, At, Own, OwnSession, Returned, Same, SameWay,
        SameSession, SameResult, Advanced
<1>25. CASE CleanupRun
    BY <1>25, CleanupRunIs DEF Shown, At, Own, OwnSession, Returned, Same, SameWay, SameSession,
        SameResult
<1>26. CASE finishStoppedRunCleanup
    BY <1>26, finishStoppedRunCleanupIs, NoneIs DEF Shown, At, Own, OwnSession, Returned, Same,
        SameWay, SameSession, SameResult, Recorded, Advanced
<1>27. CASE releaseStoppedRun
    BY <1>27, releaseStoppedRunIs DEF Shown, At, Own, OwnSession, Returned, Same, SameWay,
        SameSession, SameResult, Released
<1>28. CASE cleanupRunState
    BY <1>28, cleanupRunStateIs DEF Shown, At, Own, OwnSession, Returned, Same, SameWay,
        SameSession, SameResult
<1>29. CASE finishEarlyFailure
    BY <1>29, earlyIs DEF Shown, At, Own, OwnSession, Released, SameWay, SameSession
<1>30. CASE ensureAcceptedFailureEvidence
    BY <1>30, ensureIs DEF Shown, At, Own, OwnSession, Same, SameWay, SameSession, SameResult
<1>31. CASE settleDeferred
    BY <1>31, deferredIs DEF Shown, At, Own, OwnSession, SameSession, SameResult
<1>32. CASE stopAfterUnsettled
    BY <1>32, stopUnsettledIs DEF Shown, At, Own, OwnSession, Answered, SameResult, Heard, Calmed,
        Sessions
<1>33. CASE stopAfterRunFailure
    BY <1>33, stopFailureIs DEF Shown, At, Own, OwnSession, Answered, SameResult, Heard, Calmed,
        Sessions
<1>34. CASE cleanupUnacceptedOwnership
    BY <1>34, unacceptIs DEF Shown, At, Own, OwnSession, SameWay, SameSession, SameResult
<1>35. CASE releaseHostLock
    BY <1>35, unlockIs DEF Shown, At, Own, OwnSession, Released, SameWay, SameSession, SameResult
<1>36. CASE updateTerminalFailureEvidence
    BY <1>36, outcomeIs DEF Shown, At, Own, OwnSession, Same, SameWay, SameSession, SameResult
<1>37. CASE finalizeRunLedger
    BY <1>37, finalizeIs, NoneIs DEF Shown, At, Own, OwnSession, SameSession, SameResult,
        terminalRunLedgerState
<1>38. CASE startHostLockHeartbeat
    BY <1>38, heartbeatIs DEF Shown, At, Own, OwnSession, Same, SameWay, SameSession, SameResult
<1>39. CASE Crash
    BY <1>39, CrashIs DEF Shown, At, Own, OwnSession, SameSession, SameResult
<1>40. CASE LateStart
    BY <1>40, OutsideIs, QuietIs DEF Outside, Shown, At, Own, OwnSession, Account, Live, Going, Setting,
        Using, Stopping, Cleaned, Ending, Deferring, LateStart, Fenced
<1>41. CASE LateStop
    BY <1>41, OutsideIs, QuietIs DEF Outside, Shown, At, Own, OwnSession, LateStop, CanStop
<1>42. CASE Cancel
    BY <1>42, OutsideIs DEF Outside, Shown, At, Own, OwnSession, Cancel
<1>43. CASE Expire
    BY <1>43, OutsideIs DEF Outside, Shown, At, Own, OwnSession, Expire
<1>44. CASE RivalTakes
    BY <1>44, OutsideIs DEF Outside, Shown, At, Own, OwnSession, RivalTakes
<1>45. CASE RivalStarts
    BY <1>45, OutsideIs DEF Outside, Shown, At, Own, OwnSession, RivalStarts
<1>46. CASE RivalLeaves
    BY <1>46, OutsideIs, QuietIs DEF Outside, Shown, At, Own, OwnSession, RivalLeaves
<1>47. ASSUME NEW s \in Stops,
             stopRun(s) \/ sweepKeptSessions(s) \/ StopSteps(s) \/ CrashStop(s)
      PROVE  Shown'
    <2>1. CASE stopRun(s) \/ sweepKeptSessions(s)
        BY <1>47, <2>1, askIs DEF Shown, At, Own, OwnSession, Others
    <2>2. CASE prepareRunLedgerForStop(s)
        BY <1>47, <2>2, prepareIs, NoneIs DEF Shown, At, Own, OwnSession, Moves, Others,
            Reconciles, CanReconcile, Unfinished, requireStaleSubmittedRunController,
            repoHostLockUsesActiveRun
    <2>3. CASE stopKeptRun(s)
        BY <1>47, <2>3, stopKeptRunIs, NoneIs DEF Shown, At, Own, OwnSession, Others, Moves,
            Refused, Reads, Recovers, Live
    <2>4. CASE StopRetainedRun(s)
        BY <1>47, <2>4, StopRetainedRunIs DEF Shown, At, Own, OwnSession, Moves, Others, Refused,
            Stops1, Sessions
    <2>5. CASE removeRemotePath(s)
        BY <1>47, <2>5, removeRemotePathIs DEF Shown, At, Own, OwnSession, Moves, Others, Refused
    <2>6. CASE releaseHostSideLock(s)
        BY <1>47, <2>6, releaseHostSideIs DEF Shown, At, Own, OwnSession, Moves, Others, Refused
    <2>7. CASE removeRepoHostLockForRun(s)
        BY <1>47, <2>7, removeMirrorIs DEF Shown, At, Own, OwnSession, Moves, Others, Refused
    <2>8. CASE finishReleasedStopRun(s)
        BY <1>47, <2>8, finishReleasedStopRunIs, NoneIs DEF Shown, At, Own, OwnSession, Advanced,
            Others, Refused
    <2>9. CASE cleanupStoppedRunState(s)
        BY <1>47, <2>9, cleanupStoppedIs DEF Shown, At, Own, OwnSession, Moves, Others, Refused
    <2>10. CASE updateRunLedgerAfterStop(s)
        BY <1>47, <2>10, updateIs, NoneIs DEF Shown, At, Own, OwnSession, Rests, Others
    <2>11. CASE CrashStop(s)
        BY <1>47, <2>11, CrashStopIs DEF Shown, At, Own, OwnSession, Rests, Others
    <2> QED
        BY <1>47, <2>1, <2>2, <2>3, <2>4, <2>5, <2>6, <2>7, <2>8, <2>9, <2>10, <2>11 DEF StopSteps
<1> QED
    BY <1>1, <1>2, <1>3, <1>4, <1>5, <1>6, <1>7, <1>8, <1>9, <1>10, <1>11, <1>12, <1>13, <1>14,
        <1>15, <1>16, <1>17, <1>18, <1>19, <1>20, <1>21, <1>22, <1>23, <1>24, <1>25, <1>26, <1>27,
        <1>28, <1>29, <1>30, <1>31, <1>32, <1>33, <1>34, <1>35, <1>36, <1>37, <1>38, <1>39, <1>40,
        <1>41, <1>42, <1>43, <1>44, <1>45, <1>46, <1>47 DEF Next, Controller, Setup, SessionSteps,
        Settlement, Cleanup, Deferred, Environment, Outside

-----------------------------------------------------------------------------
(* The parts together.                                                     *)

Core == Typed /\ Account /\ Failure /\ Policy /\ Asked /\ Untouched /\ Shown

\* A Run that was not submitted yet: nothing is claimed, started or recorded.
LEMMA CoreInit == ASSUME Init PROVE Core
<1>1. /\ stopAfter \in Policies /\ cancelled \in {"never", "no"}
      /\ (cancelled # "never" => stopAfter = "always")
      /\ run = newFreshRun /\ inflight = {} /\ manifest = "none" /\ record = None
      /\ bundle = "none" /\ ledger = None /\ lock = "none" /\ expired = FALSE /\ mirror = "none"
      /\ workspace = FALSE /\ stop = [s \in Stops |-> Idle] /\ faults = 0 /\ crashes = 0
      /\ blind = FALSE /\ raced = FALSE
    BY DEF Init
<1>2. maya \in Sessions /\ maya.id \notin {"ours", "other"}
    <2>1. maya \in {[id |-> "none", alive |-> FALSE], [id |-> "standing", alive |-> TRUE]}
        BY DEF Init
    <2>2. CASE maya = [id |-> "none", alive |-> FALSE]
        BY <2>2 DEF Sessions
    <2>3. CASE maya = [id |-> "standing", alive |-> TRUE]
        BY <2>3 DEF Sessions
    <2> QED
        BY <2>1, <2>2, <2>3
<1>3. run \in Controllers
    BY <1>1 DEF newFreshRun, Controllers, Pcs, Going, Setting
<1>4. /\ run.pc = "new" /\ ~run.accepted /\ ~run.early /\ ~run.attempted /\ run.session = "none"
      /\ ~run.started /\ ~run.settled /\ ~run.unsettled /\ ~run.retained /\ ~run.release /\ ~run.err
      /\ run.policy = "stopped" /\ run.failure = "none" /\ ~run.dead
    BY <1>1 DEF newFreshRun
<1>5. stop \in [Stops -> Stoppers] /\ \A s \in Stops : stop[s].pc = "idle"
    BY <1>1, StoppersIs
<1>6. 0 \in 0..MaxFaults /\ 0 \in 0..MaxCrashes
    BY BoundAssumption
<1>7. Plain
    BY <1>1, <1>2, <1>6 DEF Plain
<1>8. Typed
    BY <1>1, <1>3, <1>5, <1>7, TypedIs
<1>9. Account /\ Failure
    BY <1>4 DEF Account, Failure, At, Live, Going, Setting, Using, Stopping, Cleaned, Ending, Deferring
<1>10. Policy /\ Asked
    BY <1>1, <1>4, <1>5 DEF Policy, Asked, Past, Emptied, Freed
<1>11. Untouched /\ Shown
    BY <1>1, <1>2, <1>4, <1>5 DEF Untouched, Shown, At, Own, OwnSession, Using, Past, Emptied, Freed
<1> QED
    BY <1>8, <1>9, <1>10, <1>11 DEF Core

\* Every step of the controller, of a stop and of what is outside keeps the parts.
LEMMA CoreStep == ASSUME Core, [Next]_vars PROVE Core'
<1>1. Typed /\ Account /\ Failure /\ Policy /\ Asked /\ Untouched /\ Shown
    BY DEF Core
<1>2. CASE Next
    <2>1. Typed' /\ Account' /\ Failure' /\ Policy'
        BY <1>1, <1>2, TypedStep, AccountStep, FailureStep, PolicyStep
    <2>2. Asked' /\ Untouched' /\ Shown'
        BY <1>1, <1>2, AskedStep, UntouchedStep, ShownStep
    <2> QED
        BY <2>1, <2>2 DEF Core
<1>3. CASE UNCHANGED vars
    <2>1. UNCHANGED <<stopAfter, run, inflight, cancelled, manifest, record, bundle, ledger, lock,
                      expired, mirror, maya, workspace, stop, faults, crashes, blind, raced>>
        BY <1>3 DEF vars, runVars, fileVars, hostVars, tallyVars
    <2>2. Typed'
        <3>1. /\ Plain /\ inflight \subseteq {"start", "stop"}
              /\ run \in Controllers /\ stop \in [Stops -> Stoppers]
            BY <1>1, TypedIs
        <3>2. Plain'
            BY <2>1, <3>1 DEF Plain
        <3>3. (/\ Plain /\ inflight \subseteq {"start", "stop"}
               /\ run \in Controllers /\ stop \in [Stops -> Stoppers])'
            BY <2>1, <3>1, <3>2
        <3> QED
            BY <3>3, TypedIs, PTL
    <2>3. Account' /\ Failure' /\ Policy'
        BY <1>1, <2>1 DEF Account, Failure, Policy, At, Live
    <2>4. Asked' /\ Untouched' /\ Shown'
        BY <1>1, <2>1 DEF Asked, Untouched, Shown, At, Own, OwnSession
    <2> QED
        BY <2>2, <2>3, <2>4 DEF Core
<1> QED
    BY <1>2, <1>3

\* The parts hold in every state of every behaviour.
THEOREM CoreInvariant == Spec => []Core
<1>1. Init => Core
    BY CoreInit
<1>2. Core /\ [Next]_vars => Core'
    BY CoreStep
<1> QED
    BY <1>1, <1>2, PTL DEF Spec

\* Every variable keeps its type, whatever fails, is killed or runs at the same
\* time: the records that fresh_run.go, run_state.go and the ledger write have
\* the fields and values their readers expect.
THEOREM TypeCorrect == Spec => []TypeOK
<1>1. Core => TypeOK
    BY DEF Core, Typed
<1> QED
    BY <1>1, CoreInvariant, PTL

\* What a step does to the session of another Run.
Spares == maya.id = "other" /\ maya.alive /\ maya' # maya => lock = "other" /\ lock' = "none"

\* Who acts on the Host is the holder of its lock, or acts on a session it knows to be
\* its own.
LEMMA SparesStep == ASSUME Core, Next PROVE Spares
<1>1. Typed /\ Account /\ Asked /\ Untouched /\ Shown
    BY DEF Core
<1>2. maya \in Sessions /\ NoSession.id = maya.id
    BY <1>1, QuietIs
<1>3. CASE StartFreshSession
    BY <1>1, <1>3, StartFreshSessionIs DEF Shown, Own, Spares
<1>4. CASE cancelBrokerScenario
    BY <1>1, <1>4, cancelScenarioIs DEF Calmed, Spares
<1>5. CASE finishStopped
    BY <1>1, <1>5, finishStoppedIs DEF Calmed, Spares
<1>6. CASE stopAfterUnsettled
    BY <1>1, <1>6, stopUnsettledIs DEF Calmed, Spares
<1>7. CASE stopAfterRunFailure
    BY <1>1, <1>7, stopFailureIs DEF Calmed, Spares
<1>8. CASE LateStart
    BY <1>1, <1>8 DEF LateStart, Fenced, Own, Shown, Spares
<1>9. CASE LateStop
    BY <1>9 DEF LateStop, CanStop, Spares
<1>10. CASE RivalStarts \/ RivalLeaves \/ Cancel \/ Expire \/ RivalTakes
    BY <1>10 DEF RivalStarts, RivalLeaves, Cancel, Expire, RivalTakes, HostQuiet, Spares
<1>11. ASSUME NEW s \in Stops, StopRetainedRun(s) PROVE Spares
    BY <1>1, <1>11, StopRetainedRunIs DEF Stops1, Spares
<1>12. CASE maya' = maya
    BY <1>12 DEF Spares
<1> QED
    BY <1>1, <1>3, <1>4, <1>5, <1>6, <1>7, <1>8, <1>9, <1>10, <1>11, <1>12, 
        acceptIs, configureIs, selectIs, probeIs, recordRunningIs, markActiveIs,
            startWithCancellationIs, renewIs, bindIs, BoundIs, stageIs, runBrokerScenarioIs,
            recoverIs, settleIs, finishKeptIs, finishFailedRunIs, retainSessionIs, RetainRunIs,
            syncIs, preserveIs, markKeptIs, completeCleanupIs, CleanupRunIs,
            finishStoppedRunCleanupIs, releaseStoppedRunIs, cleanupRunStateIs, earlyIs, ensureIs,
            deferredIs, unacceptIs, unlockIs, outcomeIs, finalizeIs, heartbeatIs, CrashIs, askIs,
            prepareIs, stopKeptRunIs, removeRemotePathIs, releaseHostSideIs, removeMirrorIs,
            finishReleasedStopRunIs, cleanupStoppedIs, updateIs, CrashStopIs
        DEF Next, Controller, Setup, SessionSteps, Settlement, Cleanup, Deferred, Environment, StopSteps

\* No controller, late broker call or stop ever stops or replaces the live
\* session of another Run: the fence of the broker calls (the Host Lock names
\* this Run) and the identity that a stop compares keep it away.
THEOREM ForeignSafe == Spec => ForeignUntouched
<1>1. Core /\ [Next]_vars => [Spares]_vars
    BY SparesStep
<1> QED
    BY <1>1, CoreInvariant, PTL DEF Spec, ForeignUntouched, Spares


-----------------------------------------------------------------------------
(* The parts of the inductive invariant.                                   *)

\* The identity of the session is in the state directory.
Known == manifest = "session" \/ (record # None /\ record.session = "ours")

\* A stop phase tells the truth.
Truthful(phase) ==
  /\ phase = "host-lock-released" => ~Own
  /\ phase \in {"broker-cleaned", "host-lock-released"} => ~workspace
  /\ phase # "" => lock # "claimed" /\ (~OwnSession \/ ~Known)

\* What the controller has done at its cleanup steps, and what the files say.
Filed ==
  ~raced =>
    /\ run.pc \in Cleaned => ~workspace
    /\ run.pc \in {"freed", "remove"} => ~Own
    /\ ledger # None => Truthful(ledger.phase)
    /\ record # None => Truthful(record.phase)
    /\ ~run.accepted => record = None
    /\ run.session # "ours" => ~Known
    /\ run.accepted /\ Live /\ manifest = "none" =>
         run.settled /\ ~run.release /\ run.pc \in Ending

\* What a stop has done by the step it is at.
StopDone(s) ==
  stop[s].pc \in Past =>
    /\ At("ended") /\ lock # "claimed"
    /\ stop[s].rec.session = "" => ~Known
    /\ stop[s].rec.session = "" => \A t \in Stops : stop[t].pc \in Past => stop[t].rec.session = ""
    /\ stop[s].rec.session = "ours" => run.session = "ours" /\ (Known \/ manifest = "none")
    /\ stop[s].pc # "broker" => ~OwnSession \/ stop[s].rec.session = ""
    /\ stop[s].pc \in Emptied => ~workspace
    /\ stop[s].pc \in Freed => ~Own
StopsDone == ~raced => \A s \in Stops : StopDone(s)

\* An accepted Run has given its lock back, will do so, keeps its session, or
\* says that its cleanup is incomplete.
GivesBack ==
  ~raced /\ run.accepted /\ Live =>
    /\ run.pc \in Deferring /\ ~run.err => ~Own \/ run.retained
    /\ run.pc \in Deferring \cup Stopping /\ ~run.err /\ run.policy = "kept" => run.retained
    /\ ~run.attempted /\ Own /\ run.pc \notin {"outcome", "finalize"} =>
         run.release \/ run.failure = "failed"
    /\ run.failure \in {"not-needed", "completed"} => ~Own
    /\ run.pc \in {"unaccept", "unlock"} =>
         ~Own \/ run.release \/ run.incomplete \/ run.retained \/ run.failure = "failed"
    /\ At("outcome") => ~Own \/ run.incomplete \/ run.retained \/ run.failure = "failed"
    /\ At("finalize") => ~Own \/ run.policy = "unresolved" \/ run.retained \/ run.failure = "failed"
    /\ At("finalize") /\ run.policy = "kept" => run.retained

\* A stop that ends without an error leaves no lock behind.
StopsFree ==
  ~raced => \A s \in Stops : stop[s].pc = "update" /\ ~stop[s].err => ~Own /\ run.pc \notin Going

\* What an operator of a kept Run was promised.
Intact == /\ lock = "kept" /\ mirror = "kept" /\ manifest # "none"
          /\ record # None /\ record.status = "kept" /\ record.session = "ours"

\* No stop has got as far as a phase of a Run that still counts as kept.
Whole == record # None /\ record.status = "kept" /\ record.phase = "" /\ ledger.phase = ""

\* A kept Run is intact until the files say how far its stop has come.
Keeps ==
  ~raced =>
    /\ At("retained") => /\ lock = "kept" /\ mirror = "kept"
                         /\ record.phase = "" /\ ledger.phase = ""
    /\ run.retained /\ Live => Intact /\ Whole
    /\ ledger # None /\ ledger.state = "submitted" => ledger.phase = ""
    /\ ledger # None /\ ledger.state = "kept" => ledger.phase = "" /\ (record = None \/ Whole)
    /\ ledger # None /\ ledger.state \notin {"completed", "failed"} /\ Whole => Intact
    /\ run.attempted /\ Live => record # None \/ manifest = "none"
    /\ ~run.retained /\ Live /\ record # None => record.status = "running" \/ record.phase # ""
    /\ record = None => lock \notin {"active", "kept"}
    /\ \A s \in Stops : stop[s].pc \in {"release"} \cup Freed =>
         \/ record = None \/ record.phase # ""
         \/ ledger.phase # "" \/ ledger.state \in {"completed", "failed"}

-----------------------------------------------------------------------------
(* Every step keeps each part.                                             *)

\* A stop past its checks holds a Run Record.
LEMMA RecIs ==
    ASSUME Typed, Asked, NEW s \in Stops, stop[s].pc \in Past
    PROVE  stop[s].rec \in Records /\ stop[s].rec.session \in {"", "ours"}
<1>1. stop[s].rec \in Records
    BY DEF Typed, Asked, Stoppers
<1> QED
    BY <1>1 DEF Records

\* The lock of a live session is never given back: every release comes after a stop
\* that was confirmed, or is one that could not know of the session (blind).
LEMMA OwnSessionHeldStep ==
    ASSUME Typed, Account, Failure, Asked, Untouched, Shown, OwnSessionHeld, StopsDone, Next
    PROVE  OwnSessionHeld'
<1>1. CASE accept
    BY <1>1, acceptIs, SubmittedIs DEF OwnSessionHeld, Own, OwnSession, FailsTo, SameWay,
        SameSession, SameResult
<1>2. CASE configureScenarioWorkspace
    BY <1>2, configureIs DEF OwnSessionHeld, Own, OwnSession, FailsTo, Heard, SameWay,
        SameSession, SameResult
<1>3. CASE selectHostForRunValidated
    BY <1>3, selectIs DEF OwnSessionHeld, Own, OwnSession, FailsTo, SameWay, SameSession,
        SameResult
<1>4. CASE probeHostReadiness
    BY <1>4, probeIs DEF OwnSessionHeld, Own, OwnSession, FailsTo, Heard, Same, SameWay,
        SameSession, SameResult
<1>5. CASE recordRunning
    BY <1>5, recordRunningIs, NoneIs DEF OwnSessionHeld, Own, OwnSession, FailsTo, Recorded, Same,
        SameWay, SameSession, SameResult
<1>6. CASE markActive
    BY <1>6, markActiveIs DEF OwnSessionHeld, Own, OwnSession, FailsTo, Marked, SameWay,
        SameSession, SameResult
<1>7. CASE StartFreshSession
    BY <1>7, StartFreshSessionIs DEF OwnSessionHeld, Own, OwnSession, FailsTo, Heard, SameWay,
        SameResult
<1>8. CASE startSessionWithCancellation
    BY <1>8, startWithCancellationIs DEF OwnSessionHeld, Own, OwnSession, FailsTo, Heard, SameWay,
        SameResult
<1>9. CASE renewHostLockNow
    BY <1>9, renewIs DEF OwnSessionHeld, Own, OwnSession, FailsTo, SameWay, SameSession,
        SameResult
<1>10. CASE bindSession
    BY <1>10, bindIs, BoundIs, NoneIs DEF OwnSessionHeld, Own, OwnSession, FailsTo, Rebound, Same,
        SameWay, SameSession, SameResult
<1>11. CASE stagePayloadWithCancellation
    BY <1>11, stageIs DEF OwnSessionHeld, Own, OwnSession, FailsTo, Heard, Same, SameWay,
        SameSession, SameResult
<1>12. CASE runBrokerScenario
    BY <1>12, runBrokerScenarioIs DEF OwnSessionHeld, Own, OwnSession, Same, SameWay, SameSession,
        SameResult
<1>13. CASE cancelBrokerScenario
    BY <1>13, cancelScenarioIs DEF OwnSessionHeld, Own, OwnSession, Answered, SameResult, Heard,
        Calmed, Sessions
<1>14. CASE recoverCompletedScenarioAfterBrokerFailure
    BY <1>14, recoverIs DEF OwnSessionHeld, Own, OwnSession, FailsTo, Heard, SameWay
<1>15. CASE settle
    BY <1>15, settleIs DEF OwnSessionHeld, Own, OwnSession, Heard, SameWay, SameSession,
        SameResult
<1>16. CASE finishStopped
    BY <1>16, finishStoppedIs DEF OwnSessionHeld, Own, OwnSession, Answered, SameResult, Heard,
        Calmed, Sessions, SameWay, SameSession
<1>17. CASE finishKept
    BY <1>17, finishKeptIs DEF OwnSessionHeld, Own, OwnSession, Same, SameWay, SameSession,
        SameResult
<1>18. CASE finishFailedRun
    BY <1>18, finishFailedRunIs DEF OwnSessionHeld, Own, OwnSession, SameWay, SameSession,
        SameResult
<1>19. CASE retainSession
    BY <1>19, retainSessionIs DEF OwnSessionHeld, Own, OwnSession, Marked, Same, SameWay,
        SameSession, SameResult
<1>20. CASE RetainRun
    BY <1>20, RetainRunIs, NoneIs DEF OwnSessionHeld, Own, OwnSession, Recorded, SameWay,
        SameSession, SameResult
<1>21. CASE syncEvidenceEvents
    BY <1>21, syncIs DEF OwnSessionHeld, Own, OwnSession, Heard, SameWay, SameSession, SameResult
<1>22. CASE preserveStoppedRunForCleanup
    BY <1>22, preserveIs, NoneIs DEF OwnSessionHeld, Own, OwnSession, Recorded, Same, SameWay,
        SameSession, SameResult
<1>23. CASE markKept
    BY <1>23, markKeptIs DEF OwnSessionHeld, Own, OwnSession, Returned, Same, SameWay,
        SameSession, SameResult, Marked
<1>24. CASE completeCleanupAfterRecoveryFailure
    BY <1>24, completeCleanupIs, NoneIs DEF OwnSessionHeld, Own, OwnSession, Returned, Same,
        SameWay, SameSession, SameResult, Advanced
<1>25. CASE CleanupRun
    BY <1>25, CleanupRunIs DEF OwnSessionHeld, Own, OwnSession, Returned, Same, SameWay,
        SameSession, SameResult
<1>26. CASE finishStoppedRunCleanup
    BY <1>26, finishStoppedRunCleanupIs, NoneIs DEF OwnSessionHeld, Own, OwnSession, Returned,
        Same, SameWay, SameSession, SameResult, Recorded, Advanced
<1>27. CASE releaseStoppedRun
    BY <1>27, releaseStoppedRunIs DEF OwnSessionHeld, Own, OwnSession, Account, At, Live, Going,
        Setting, Using, Stopping, Cleaned, Ending, Deferring, Shown, Returned, Same, SameWay,
        SameSession, SameResult, Released
<1>28. CASE cleanupRunState
    BY <1>28, cleanupRunStateIs DEF OwnSessionHeld, Own, OwnSession, Returned, Same, SameWay,
        SameSession, SameResult
<1>29. CASE finishEarlyFailure
    BY <1>29, earlyIs DEF OwnSessionHeld, Own, OwnSession, Account, At, Live, Going, Setting,
        Using, Stopping, Cleaned, Ending, Deferring, Failure, Shown, Released, SameWay,
        SameSession
<1>30. CASE ensureAcceptedFailureEvidence
    BY <1>30, ensureIs DEF OwnSessionHeld, Own, OwnSession, Same, SameWay, SameSession, SameResult
<1>31. CASE settleDeferred
    BY <1>31, deferredIs DEF OwnSessionHeld, Own, OwnSession, SameSession, SameResult
<1>32. CASE stopAfterUnsettled
    BY <1>32, stopUnsettledIs DEF OwnSessionHeld, Own, OwnSession, Answered, SameResult, Heard,
        Calmed, Sessions
<1>33. CASE stopAfterRunFailure
    BY <1>33, stopFailureIs DEF OwnSessionHeld, Own, OwnSession, Answered, SameResult, Heard,
        Calmed, Sessions
<1>34. CASE cleanupUnacceptedOwnership
    BY <1>34, unacceptIs DEF OwnSessionHeld, Own, OwnSession, SameWay, SameSession, SameResult
<1>35. CASE releaseHostLock
    BY <1>35, unlockIs DEF OwnSessionHeld, Own, OwnSession, Account, At, Live, Going, Setting,
        Using, Stopping, Cleaned, Ending, Deferring, Failure, Shown, Released, SameWay,
        SameSession, SameResult
<1>36. CASE updateTerminalFailureEvidence
    BY <1>36, outcomeIs DEF OwnSessionHeld, Own, OwnSession, Same, SameWay, SameSession,
        SameResult
<1>37. CASE finalizeRunLedger
    BY <1>37, finalizeIs, NoneIs DEF OwnSessionHeld, Own, OwnSession, SameSession, SameResult,
        terminalRunLedgerState
<1>38. CASE startHostLockHeartbeat
    BY <1>38, heartbeatIs DEF OwnSessionHeld, Own, OwnSession, Same, SameWay, SameSession,
        SameResult
<1>39. CASE Crash
    BY <1>39, CrashIs DEF OwnSessionHeld, Own, OwnSession, SameSession, SameResult
<1>40. CASE LateStart
    BY <1>40, OutsideIs, QuietIs DEF Outside, OwnSessionHeld, Own, OwnSession, LateStart, Fenced
<1>41. CASE LateStop
    BY <1>41, OutsideIs, QuietIs DEF Outside, OwnSessionHeld, Own, OwnSession, LateStop, CanStop
<1>42. CASE Cancel
    BY <1>42, OutsideIs DEF Outside, OwnSessionHeld, Own, OwnSession, Cancel
<1>43. CASE Expire
    BY <1>43, OutsideIs DEF Outside, OwnSessionHeld, Own, OwnSession, Expire
<1>44. CASE RivalTakes
    BY <1>44, OutsideIs DEF Outside, OwnSessionHeld, Own, OwnSession, RivalTakes
<1>45. CASE RivalStarts
    BY <1>45, OutsideIs DEF Outside, OwnSessionHeld, Own, OwnSession, RivalStarts
<1>46. CASE RivalLeaves
    BY <1>46, OutsideIs, QuietIs DEF Outside, OwnSessionHeld, Own, OwnSession, RivalLeaves
<1>47. ASSUME NEW s \in Stops,
             stopRun(s) \/ sweepKeptSessions(s) \/ StopSteps(s) \/ CrashStop(s)
      PROVE  OwnSessionHeld'
    <2>1. CASE stopRun(s) \/ sweepKeptSessions(s)
        BY <1>47, <2>1, askIs DEF OwnSessionHeld, Own, OwnSession, Others
    <2>2. CASE prepareRunLedgerForStop(s)
        BY <1>47, <2>2, prepareIs, NoneIs DEF OwnSessionHeld, Own, OwnSession, Moves, Others,
            Reconciles, CanReconcile, Unfinished, requireStaleSubmittedRunController,
            repoHostLockUsesActiveRun
    <2>3. CASE stopKeptRun(s)
        BY <1>47, <2>3, stopKeptRunIs, NoneIs DEF OwnSessionHeld, Own, OwnSession, Others, Moves,
            Refused, Reads, Recovers, Live, At
    <2>4. CASE StopRetainedRun(s)
        BY <1>47, <2>4, StopRetainedRunIs DEF OwnSessionHeld, Own, OwnSession, Moves, Others,
            Refused, Stops1, Sessions
    <2>5. CASE removeRemotePath(s)
        BY <1>47, <2>5, removeRemotePathIs DEF OwnSessionHeld, Own, OwnSession, Moves, Others,
            Refused
    <2>6. CASE releaseHostSideLock(s)
        BY <1>47, <2>6, releaseHostSideIs DEF OwnSessionHeld, Own, OwnSession, StopsDone,
            StopDone, Known, At, Past, Emptied, Freed, Moves, Others, Refused
    <2>7. CASE removeRepoHostLockForRun(s)
        BY <1>47, <2>7, removeMirrorIs DEF OwnSessionHeld, Own, OwnSession, Moves, Others, Refused
    <2>8. CASE finishReleasedStopRun(s)
        BY <1>47, <2>8, finishReleasedStopRunIs, NoneIs DEF OwnSessionHeld, Own, OwnSession,
            Advanced, Others, Refused
    <2>9. CASE cleanupStoppedRunState(s)
        BY <1>47, <2>9, cleanupStoppedIs DEF OwnSessionHeld, Own, OwnSession, Moves, Others,
            Refused
    <2>10. CASE updateRunLedgerAfterStop(s)
        BY <1>47, <2>10, updateIs, NoneIs DEF OwnSessionHeld, Own, OwnSession, Rests, Others
    <2>11. CASE CrashStop(s)
        BY <1>47, <2>11, CrashStopIs DEF OwnSessionHeld, Own, OwnSession, Rests, Others
    <2> QED
        BY <1>47, <2>1, <2>2, <2>3, <2>4, <2>5, <2>6, <2>7, <2>8, <2>9, <2>10, <2>11 DEF StopSteps
<1> QED
    BY <1>1, <1>2, <1>3, <1>4, <1>5, <1>6, <1>7, <1>8, <1>9, <1>10, <1>11, <1>12, <1>13, <1>14,
        <1>15, <1>16, <1>17, <1>18, <1>19, <1>20, <1>21, <1>22, <1>23, <1>24, <1>25, <1>26, <1>27,
        <1>28, <1>29, <1>30, <1>31, <1>32, <1>33, <1>34, <1>35, <1>36, <1>37, <1>38, <1>39, <1>40,
        <1>41, <1>42, <1>43, <1>44, <1>45, <1>46, <1>47 DEF Next, Controller, Setup, SessionSteps,
        Settlement, Cleanup, Deferred, Environment, Outside

\* A stop phase is written after what it names was done, and nothing brings that
\* back: no late call shows a session that the files already call stopped.
LEMMA FiledStep ==
    ASSUME Typed, Account, Asked, Untouched, Shown, Filed, StopsDone, Keeps, Next
    PROVE  Filed'
<1>1. CASE accept
    BY <1>1, acceptIs, SubmittedIs DEF Filed, Truthful, Known, Own, OwnSession, Live, At, Cleaned,
        Ending, Deferring, FailsTo, SameWay, SameSession, SameResult
<1>2. CASE configureScenarioWorkspace
    BY <1>2, configureIs DEF Filed, Truthful, Known, Own, OwnSession, Live, At, Cleaned, Ending,
        Deferring, FailsTo, Heard, SameWay, SameSession, SameResult
<1>3. CASE selectHostForRunValidated
    BY <1>3, selectIs DEF Filed, Truthful, Known, Own, OwnSession, Live, At, Cleaned, Ending,
        Deferring, Untouched, Going, Setting, Using, Past, Emptied, Freed, FailsTo, SameWay,
        SameSession, SameResult
<1>4. CASE probeHostReadiness
    BY <1>4, probeIs DEF Filed, Truthful, Known, Own, OwnSession, Live, At, Cleaned, Ending,
        Deferring, FailsTo, Heard, Same, SameWay, SameSession, SameResult
<1>5. CASE recordRunning
    BY <1>5, recordRunningIs, NoneIs DEF Filed, Truthful, Known, Own, OwnSession, Live, At,
        Cleaned, Ending, Deferring, Account, Going, Setting, Using, Stopping, FailsTo, Recorded,
        Same, SameWay, SameSession, SameResult
<1>6. CASE markActive
    BY <1>6, markActiveIs DEF Filed, Truthful, Known, Own, OwnSession, Live, At, Cleaned, Ending,
        Deferring, FailsTo, Marked, SameWay, SameSession, SameResult
<1>7. CASE StartFreshSession
    BY <1>7, StartFreshSessionIs DEF Filed, Truthful, Known, Own, OwnSession, Live, At, Cleaned,
        Ending, Deferring, Account, Going, Setting, Using, Stopping, FailsTo, Heard, SameWay,
        SameResult
<1>8. CASE startSessionWithCancellation
    BY <1>8, startWithCancellationIs DEF Filed, Truthful, Known, Own, OwnSession, Live, At,
        Cleaned, Ending, Deferring, FailsTo, Heard, SameWay, SameResult
<1>9. CASE renewHostLockNow
    BY <1>9, renewIs DEF Filed, Truthful, Known, Own, OwnSession, Live, At, Cleaned, Ending,
        Deferring, FailsTo, SameWay, SameSession, SameResult
<1>10. CASE bindSession
    BY <1>10, bindIs, BoundIs, NoneIs DEF Filed, Truthful, Known, Own, OwnSession, Live, At,
        Cleaned, Ending, Deferring, Untouched, Going, Setting, Using, Past, Emptied, Freed,
        FailsTo, Rebound, Same, SameWay, SameSession, SameResult
<1>11. CASE stagePayloadWithCancellation
    BY <1>11, stageIs DEF Filed, Truthful, Known, Own, OwnSession, Live, At, Cleaned, Ending,
        Deferring, Untouched, Going, Setting, Using, Past, Emptied, Freed, FailsTo, Heard, Same,
        SameWay, SameSession, SameResult
<1>12. CASE runBrokerScenario
    BY <1>12, runBrokerScenarioIs DEF Filed, Truthful, Known, Own, OwnSession, Live, At, Cleaned,
        Ending, Deferring, Same, SameWay, SameSession, SameResult
<1>13. CASE cancelBrokerScenario
    BY <1>13, cancelScenarioIs DEF Filed, Truthful, Known, Own, OwnSession, Live, At, Cleaned,
        Ending, Deferring, Answered, SameResult, Heard, Calmed, Sessions
<1>14. CASE recoverCompletedScenarioAfterBrokerFailure
    BY <1>14, recoverIs DEF Filed, Truthful, Known, Own, OwnSession, Live, At, Cleaned, Ending,
        Deferring, FailsTo, Heard, SameWay
<1>15. CASE settle
    BY <1>15, settleIs DEF Filed, Truthful, Known, Own, OwnSession, Live, At, Cleaned, Ending,
        Deferring, Heard, SameWay, SameSession, SameResult
<1>16. CASE finishStopped
    BY <1>16, finishStoppedIs DEF Filed, Truthful, Known, Own, OwnSession, Live, At, Cleaned,
        Ending, Deferring, Answered, SameResult, Heard, Calmed, Sessions, SameWay, SameSession
<1>17. CASE finishKept
    BY <1>17, finishKeptIs DEF Filed, Truthful, Known, Own, OwnSession, Live, At, Cleaned, Ending,
        Deferring, Same, SameWay, SameSession, SameResult
<1>18. CASE finishFailedRun
    BY <1>18, finishFailedRunIs DEF Filed, Truthful, Known, Own, OwnSession, Live, At, Cleaned,
        Ending, Deferring, SameWay, SameSession, SameResult
<1>19. CASE retainSession
    BY <1>19, retainSessionIs DEF Filed, Truthful, Known, Own, OwnSession, Live, At, Cleaned,
        Ending, Deferring, Marked, Same, SameWay, SameSession, SameResult
<1>20. CASE RetainRun
    BY <1>20, RetainRunIs, NoneIs DEF Filed, Truthful, Known, Own, OwnSession, Live, At, Cleaned,
        Ending, Deferring, Keeps, Intact, Whole, Freed, Recorded, SameWay, SameSession, SameResult
<1>21. CASE syncEvidenceEvents
    BY <1>21, syncIs DEF Filed, Truthful, Known, Own, OwnSession, Live, At, Cleaned, Ending,
        Deferring, Heard, SameWay, SameSession, SameResult
<1>22. CASE preserveStoppedRunForCleanup
    BY <1>22, preserveIs, NoneIs DEF Filed, Truthful, Known, Own, OwnSession, Live, At, Cleaned,
        Ending, Deferring, Account, Going, Setting, Using, Stopping, Shown, Recorded, Same,
        SameWay, SameSession, SameResult
<1>23. CASE markKept
    BY <1>23, markKeptIs DEF Filed, Truthful, Known, Own, OwnSession, Live, At, Cleaned, Ending,
        Deferring, Returned, Same, SameWay, SameSession, SameResult, Marked
<1>24. CASE completeCleanupAfterRecoveryFailure
    BY <1>24, completeCleanupIs, NoneIs DEF Filed, Truthful, Known, Own, OwnSession, Live, At,
        Cleaned, Ending, Deferring, Account, Going, Setting, Using, Stopping, Shown, Returned,
        Same, SameWay, SameSession, SameResult, Advanced
<1>25. CASE CleanupRun
    BY <1>25, CleanupRunIs DEF Filed, Truthful, Known, Own, OwnSession, Live, At, Cleaned, Ending,
        Deferring, Returned, Same, SameWay, SameSession, SameResult
<1>26. CASE finishStoppedRunCleanup
    BY <1>26, finishStoppedRunCleanupIs, NoneIs DEF Filed, Truthful, Known, Own, OwnSession, Live,
        At, Cleaned, Ending, Deferring, Account, Going, Setting, Using, Stopping, Shown, Returned,
        Same, SameWay, SameSession, SameResult, Recorded, Advanced
<1>27. CASE releaseStoppedRun
    BY <1>27, releaseStoppedRunIs DEF Filed, Truthful, Known, Own, OwnSession, Live, At, Cleaned,
        Ending, Deferring, Returned, Same, SameWay, SameSession, SameResult, Released
<1>28. CASE cleanupRunState
    BY <1>28, cleanupRunStateIs DEF Filed, Truthful, Known, Own, OwnSession, Live, At, Cleaned,
        Ending, Deferring, Account, Going, Setting, Using, Stopping, Returned, Same, SameWay,
        SameSession, SameResult
<1>29. CASE finishEarlyFailure
    BY <1>29, earlyIs DEF Filed, Truthful, Known, Own, OwnSession, Live, At, Cleaned, Ending,
        Deferring, Released, SameWay, SameSession
<1>30. CASE ensureAcceptedFailureEvidence
    BY <1>30, ensureIs DEF Filed, Truthful, Known, Own, OwnSession, Live, At, Cleaned, Ending,
        Deferring, Same, SameWay, SameSession, SameResult
<1>31. CASE settleDeferred
    BY <1>31, deferredIs DEF Filed, Truthful, Known, Own, OwnSession, Live, At, Cleaned, Ending,
        Deferring, SameSession, SameResult
<1>32. CASE stopAfterUnsettled
    BY <1>32, stopUnsettledIs DEF Filed, Truthful, Known, Own, OwnSession, Live, At, Cleaned,
        Ending, Deferring, Answered, SameResult, Heard, Calmed, Sessions
<1>33. CASE stopAfterRunFailure
    BY <1>33, stopFailureIs DEF Filed, Truthful, Known, Own, OwnSession, Live, At, Cleaned,
        Ending, Deferring, Account, Going, Setting, Using, Stopping, Answered, SameResult, Heard,
        Calmed, Sessions
<1>34. CASE cleanupUnacceptedOwnership
    BY <1>34, unacceptIs DEF Filed, Truthful, Known, Own, OwnSession, Live, At, Cleaned, Ending,
        Deferring, SameWay, SameSession, SameResult
<1>35. CASE releaseHostLock
    BY <1>35, unlockIs DEF Filed, Truthful, Known, Own, OwnSession, Live, At, Cleaned, Ending,
        Deferring, Released, SameWay, SameSession, SameResult
<1>36. CASE updateTerminalFailureEvidence
    BY <1>36, outcomeIs DEF Filed, Truthful, Known, Own, OwnSession, Live, At, Cleaned, Ending,
        Deferring, Same, SameWay, SameSession, SameResult
<1>37. CASE finalizeRunLedger
    BY <1>37, finalizeIs, NoneIs DEF Filed, Truthful, Known, Own, OwnSession, Live, At, Cleaned,
        Ending, Deferring, Asked, Past, Emptied, Freed, SameSession, SameResult,
        terminalRunLedgerState
<1>38. CASE startHostLockHeartbeat
    BY <1>38, heartbeatIs DEF Filed, Truthful, Known, Own, OwnSession, Live, At, Cleaned, Ending,
        Deferring, Same, SameWay, SameSession, SameResult
<1>39. CASE Crash
    BY <1>39, CrashIs DEF Filed, Truthful, Known, Own, OwnSession, Live, At, Cleaned, Ending,
        Deferring, SameSession, SameResult
<1>40. CASE LateStart
    BY <1>40, OutsideIs, QuietIs DEF Outside, Filed, Truthful, Known, Own, OwnSession, Live, At, Cleaned,
        Ending, Deferring, Shown, LateStart, Fenced
<1>41. CASE LateStop
    BY <1>41, OutsideIs, QuietIs DEF Outside, Filed, Truthful, Known, Own, OwnSession, Live, At, Cleaned,
        Ending, Deferring, LateStop, CanStop
<1>42. CASE Cancel
    BY <1>42, OutsideIs DEF Outside, Filed, Truthful, Known, Own, OwnSession, Live, At, Cleaned, Ending,
        Deferring, Cancel
<1>43. CASE Expire
    BY <1>43, OutsideIs DEF Outside, Filed, Truthful, Known, Own, OwnSession, Live, At, Cleaned, Ending,
        Deferring, Expire
<1>44. CASE RivalTakes
    BY <1>44, OutsideIs DEF Outside, Filed, Truthful, Known, Own, OwnSession, Live, At, Cleaned, Ending,
        Deferring, RivalTakes
<1>45. CASE RivalStarts
    BY <1>45, OutsideIs DEF Outside, Filed, Truthful, Known, Own, OwnSession, Live, At, Cleaned, Ending,
        Deferring, RivalStarts
<1>46. CASE RivalLeaves
    BY <1>46, OutsideIs, QuietIs DEF Outside, Filed, Truthful, Known, Own, OwnSession, Live, At, Cleaned,
        Ending, Deferring, RivalLeaves
<1>47. ASSUME NEW s \in Stops,
             stopRun(s) \/ sweepKeptSessions(s) \/ StopSteps(s) \/ CrashStop(s)
      PROVE  Filed'
    <2>1. CASE stopRun(s) \/ sweepKeptSessions(s)
        BY <1>47, <2>1, askIs DEF Filed, Truthful, Known, Own, OwnSession, Live, At, Cleaned,
            Ending, Deferring, Others
    <2>2. CASE prepareRunLedgerForStop(s)
        BY <1>47, <2>2, prepareIs, NoneIs DEF Filed, Truthful, Known, Own, OwnSession, Live, At,
            Cleaned, Ending, Deferring, Moves, Others, Reconciles, CanReconcile, Unfinished,
            requireStaleSubmittedRunController, repoHostLockUsesActiveRun
    <2>3. CASE stopKeptRun(s)
        BY <1>47, <2>3, stopKeptRunIs, NoneIs DEF Filed, Truthful, Known, Own, OwnSession, Live,
            At, Cleaned, Ending, Deferring, Others, Moves, Refused, Reads, Recovers
    <2>4. CASE StopRetainedRun(s)
        BY <1>47, <2>4, StopRetainedRunIs DEF Filed, Truthful, Known, Own, OwnSession, Live, At,
            Cleaned, Ending, Deferring, Moves, Others, Refused, Stops1, Sessions
    <2>5. CASE removeRemotePath(s)
        BY <1>47, <2>5, removeRemotePathIs DEF Filed, Truthful, Known, Own, OwnSession, Live, At,
            Cleaned, Ending, Deferring, Moves, Others, Refused
    <2>6. CASE releaseHostSideLock(s)
        BY <1>47, <2>6, releaseHostSideIs DEF Filed, Truthful, Known, Own, OwnSession, Live, At,
            Cleaned, Ending, Deferring, Moves, Others, Refused
    <2>7. CASE removeRepoHostLockForRun(s)
        BY <1>47, <2>7, removeMirrorIs DEF Filed, Truthful, Known, Own, OwnSession, Live, At,
            Cleaned, Ending, Deferring, Moves, Others, Refused
    <2>8. CASE finishReleasedStopRun(s)
        <3>1. /\ raced' = raced /\ stop[s].pc \in Emptied
              /\ UNCHANGED <<run, manifest, lock, maya, workspace>>
            BY <1>47, <2>8, finishReleasedStopRunIs DEF Emptied, Freed
        <3>2. CASE ledger' = ledger /\ record' = record
            BY <3>1, <3>2 DEF Filed, Truthful, Known, Own, OwnSession, Live, At
        <3>3. CASE /\ record' = record \/ (record' \in Records /\ record' = stop'[s].rec)
                   /\ stop'[s].rec.session = stop[s].rec.session
                   /\ ledger # None /\ ledger' \in Ledgers /\ stop'[s].rec.phase = ledger'.phase
                   /\ \/ ledger'.phase = "broker-cleaned"
                      \/ stop[s].pc \in Freed /\ ledger'.phase = "host-lock-released"
            <4>1. SUFFICES ASSUME ~raced PROVE Filed'
                BY <3>1 DEF Filed
            <4>2. StopDone(s) /\ stop[s].rec.session \in {"", "ours"} /\ stop[s].pc \in Past
                BY <1>47, <2>8, <3>1, <4>1, RecIs DEF StopsDone, Past
            <4>3. /\ ~workspace /\ lock # "claimed" /\ At("ended") /\ (stop[s].pc \in Freed => ~Own)
                  /\ stop[s].rec.session = "" => ~Known
                  /\ stop[s].rec.session = "ours" => run.session = "ours" /\ ~OwnSession
                BY <3>1, <4>2 DEF StopDone, Emptied, Freed
            <4>4. Known' => Known \/ stop[s].rec.session = "ours"
                BY <3>1, <3>3 DEF Known
            <4>5. run.accepted
                BY <3>3 DEF Asked
            <4>6. /\ ~workspace' /\ lock' # "claimed" /\ (~OwnSession' \/ ~Known')
                  /\ (run'.session # "ours" => ~Known')
                BY <3>1, <4>2, <4>3, <4>4 DEF OwnSession
            <4>7. ledger'.phase = "host-lock-released" => ~Own'
                BY <3>1, <3>3, <4>3 DEF Own
            <4>8. record' # None /\ record'.phase = "host-lock-released" => ~Own'
                BY <3>1, <3>3, <4>1, <4>7 DEF Filed, Truthful, Own
            <4> QED
                BY <3>1, <4>3, <4>5, <4>6, <4>7, <4>8 DEF Filed, Truthful, At, Live, Cleaned
        <3> QED
            BY <1>47, <2>8, <3>2, <3>3, finishReleasedStopRunIs DEF Advanced, Freed
    <2>9. CASE cleanupStoppedRunState(s)
        BY <1>47, <2>9, cleanupStoppedIs DEF Filed, Truthful, Known, Own, OwnSession, Live, At,
            Cleaned, Ending, Deferring, StopsDone, StopDone, Past, Emptied, Freed, Moves, Others,
            Refused
    <2>10. CASE updateRunLedgerAfterStop(s)
        BY <1>47, <2>10, updateIs, NoneIs DEF Filed, Truthful, Known, Own, OwnSession, Live, At,
            Cleaned, Ending, Deferring, Asked, Past, Emptied, Freed, Rests, Others
    <2>11. CASE CrashStop(s)
        BY <1>47, <2>11, CrashStopIs DEF Filed, Truthful, Known, Own, OwnSession, Live, At,
            Cleaned, Ending, Deferring, Rests, Others
    <2> QED
        BY <1>47, <2>1, <2>2, <2>3, <2>4, <2>5, <2>6, <2>7, <2>8, <2>9, <2>10, <2>11 DEF StopSteps
<1> QED
    BY <1>1, <1>2, <1>3, <1>4, <1>5, <1>6, <1>7, <1>8, <1>9, <1>10, <1>11, <1>12, <1>13, <1>14,
        <1>15, <1>16, <1>17, <1>18, <1>19, <1>20, <1>21, <1>22, <1>23, <1>24, <1>25, <1>26, <1>27,
        <1>28, <1>29, <1>30, <1>31, <1>32, <1>33, <1>34, <1>35, <1>36, <1>37, <1>38, <1>39, <1>40,
        <1>41, <1>42, <1>43, <1>44, <1>45, <1>46, <1>47 DEF Next, Controller, Setup, SessionSteps,
        Settlement, Cleanup, Deferred, Environment, Outside

\* A stop past its checks has done what comes before its step, whatever the other
\* stops and the late calls do in between.
LEMMA StopsDoneStep ==
    ASSUME Typed, Account, Asked, Untouched, Shown, Filed, StopsDone, Next
    PROVE  StopsDone'
<1> SUFFICES ASSUME ~raced', NEW r \in Stops, stop'[r].pc \in Past PROVE StopDone(r)'
    BY DEF StopsDone, StopDone
<1>1. CASE accept
    BY <1>1, acceptIs, SubmittedIs DEF StopsDone, StopDone, Known, Own, OwnSession, At, Past,
        Emptied, Freed, FailsTo, SameWay, SameSession, SameResult
<1>2. CASE configureScenarioWorkspace
    BY <1>2, configureIs DEF StopsDone, StopDone, Known, Own, OwnSession, At, Past, Emptied,
        Freed, FailsTo, Heard, SameWay, SameSession, SameResult
<1>3. CASE selectHostForRunValidated
    BY <1>3, selectIs DEF StopsDone, StopDone, Known, Own, OwnSession, At, Past, Emptied, Freed,
        FailsTo, SameWay, SameSession, SameResult
<1>4. CASE probeHostReadiness
    BY <1>4, probeIs DEF StopsDone, StopDone, Known, Own, OwnSession, At, Past, Emptied, Freed,
        FailsTo, Heard, Same, SameWay, SameSession, SameResult
<1>5. CASE recordRunning
    BY <1>5, recordRunningIs, NoneIs DEF StopsDone, StopDone, Known, Own, OwnSession, At, Past,
        Emptied, Freed, FailsTo, Recorded, Same, SameWay, SameSession, SameResult
<1>6. CASE markActive
    BY <1>6, markActiveIs DEF StopsDone, StopDone, Known, Own, OwnSession, At, Past, Emptied,
        Freed, FailsTo, Marked, SameWay, SameSession, SameResult
<1>7. CASE StartFreshSession
    BY <1>7, StartFreshSessionIs DEF StopsDone, StopDone, Known, Own, OwnSession, At, Past,
        Emptied, Freed, FailsTo, Heard, SameWay, SameResult
<1>8. CASE startSessionWithCancellation
    BY <1>8, startWithCancellationIs DEF StopsDone, StopDone, Known, Own, OwnSession, At, Past,
        Emptied, Freed, FailsTo, Heard, SameWay, SameResult
<1>9. CASE renewHostLockNow
    BY <1>9, renewIs DEF StopsDone, StopDone, Known, Own, OwnSession, At, Past, Emptied, Freed,
        FailsTo, SameWay, SameSession, SameResult
<1>10. CASE bindSession
    BY <1>10, bindIs, BoundIs, NoneIs DEF StopsDone, StopDone, Known, Own, OwnSession, At, Past,
        Emptied, Freed, FailsTo, Rebound, Same, SameWay, SameSession, SameResult
<1>11. CASE stagePayloadWithCancellation
    BY <1>11, stageIs DEF StopsDone, StopDone, Known, Own, OwnSession, At, Past, Emptied, Freed,
        FailsTo, Heard, Same, SameWay, SameSession, SameResult
<1>12. CASE runBrokerScenario
    BY <1>12, runBrokerScenarioIs DEF StopsDone, StopDone, Known, Own, OwnSession, At, Past,
        Emptied, Freed, Same, SameWay, SameSession, SameResult
<1>13. CASE cancelBrokerScenario
    BY <1>13, cancelScenarioIs DEF StopsDone, StopDone, Known, Own, OwnSession, At, Past, Emptied,
        Freed, Answered, SameResult, Heard, Calmed, Sessions
<1>14. CASE recoverCompletedScenarioAfterBrokerFailure
    BY <1>14, recoverIs DEF StopsDone, StopDone, Known, Own, OwnSession, At, Past, Emptied, Freed,
        FailsTo, Heard, SameWay
<1>15. CASE settle
    BY <1>15, settleIs DEF StopsDone, StopDone, Known, Own, OwnSession, At, Past, Emptied, Freed,
        Heard, SameWay, SameSession, SameResult
<1>16. CASE finishStopped
    BY <1>16, finishStoppedIs DEF StopsDone, StopDone, Known, Own, OwnSession, At, Past, Emptied,
        Freed, Answered, SameResult, Heard, Calmed, Sessions, SameWay, SameSession
<1>17. CASE finishKept
    BY <1>17, finishKeptIs DEF StopsDone, StopDone, Known, Own, OwnSession, At, Past, Emptied,
        Freed, Same, SameWay, SameSession, SameResult
<1>18. CASE finishFailedRun
    BY <1>18, finishFailedRunIs DEF StopsDone, StopDone, Known, Own, OwnSession, At, Past,
        Emptied, Freed, SameWay, SameSession, SameResult
<1>19. CASE retainSession
    BY <1>19, retainSessionIs DEF StopsDone, StopDone, Known, Own, OwnSession, At, Past, Emptied,
        Freed, Marked, Same, SameWay, SameSession, SameResult
<1>20. CASE RetainRun
    BY <1>20, RetainRunIs, NoneIs DEF StopsDone, StopDone, Known, Own, OwnSession, At, Past,
        Emptied, Freed, Recorded, SameWay, SameSession, SameResult
<1>21. CASE syncEvidenceEvents
    BY <1>21, syncIs DEF StopsDone, StopDone, Known, Own, OwnSession, At, Past, Emptied, Freed,
        Heard, SameWay, SameSession, SameResult
<1>22. CASE preserveStoppedRunForCleanup
    BY <1>22, preserveIs, NoneIs DEF StopsDone, StopDone, Known, Own, OwnSession, At, Past,
        Emptied, Freed, Recorded, Same, SameWay, SameSession, SameResult
<1>23. CASE markKept
    BY <1>23, markKeptIs DEF StopsDone, StopDone, Known, Own, OwnSession, At, Past, Emptied,
        Freed, Returned, Same, SameWay, SameSession, SameResult, Marked
<1>24. CASE completeCleanupAfterRecoveryFailure
    BY <1>24, completeCleanupIs, NoneIs DEF StopsDone, StopDone, Known, Own, OwnSession, At, Past,
        Emptied, Freed, Returned, Same, SameWay, SameSession, SameResult, Advanced
<1>25. CASE CleanupRun
    BY <1>25, CleanupRunIs DEF StopsDone, StopDone, Known, Own, OwnSession, At, Past, Emptied,
        Freed, Returned, Same, SameWay, SameSession, SameResult
<1>26. CASE finishStoppedRunCleanup
    BY <1>26, finishStoppedRunCleanupIs, NoneIs DEF StopsDone, StopDone, Known, Own, OwnSession,
        At, Past, Emptied, Freed, Returned, Same, SameWay, SameSession, SameResult, Recorded,
        Advanced
<1>27. CASE releaseStoppedRun
    BY <1>27, releaseStoppedRunIs DEF StopsDone, StopDone, Known, Own, OwnSession, At, Past,
        Emptied, Freed, Returned, Same, SameWay, SameSession, SameResult, Released
<1>28. CASE cleanupRunState
    BY <1>28, cleanupRunStateIs DEF StopsDone, StopDone, Known, Own, OwnSession, At, Past,
        Emptied, Freed, Returned, Same, SameWay, SameSession, SameResult
<1>29. CASE finishEarlyFailure
    BY <1>29, earlyIs DEF StopsDone, StopDone, Known, Own, OwnSession, At, Past, Emptied, Freed,
        Released, SameWay, SameSession
<1>30. CASE ensureAcceptedFailureEvidence
    BY <1>30, ensureIs DEF StopsDone, StopDone, Known, Own, OwnSession, At, Past, Emptied, Freed,
        Same, SameWay, SameSession, SameResult
<1>31. CASE settleDeferred
    BY <1>31, deferredIs DEF StopsDone, StopDone, Known, Own, OwnSession, At, Past, Emptied,
        Freed, SameSession, SameResult
<1>32. CASE stopAfterUnsettled
    BY <1>32, stopUnsettledIs DEF StopsDone, StopDone, Known, Own, OwnSession, At, Past, Emptied,
        Freed, Answered, SameResult, Heard, Calmed, Sessions
<1>33. CASE stopAfterRunFailure
    BY <1>33, stopFailureIs DEF StopsDone, StopDone, Known, Own, OwnSession, At, Past, Emptied,
        Freed, Answered, SameResult, Heard, Calmed, Sessions
<1>34. CASE cleanupUnacceptedOwnership
    BY <1>34, unacceptIs DEF StopsDone, StopDone, Known, Own, OwnSession, At, Past, Emptied,
        Freed, SameWay, SameSession, SameResult
<1>35. CASE releaseHostLock
    BY <1>35, unlockIs DEF StopsDone, StopDone, Known, Own, OwnSession, At, Past, Emptied, Freed,
        Released, SameWay, SameSession, SameResult
<1>36. CASE updateTerminalFailureEvidence
    BY <1>36, outcomeIs DEF StopsDone, StopDone, Known, Own, OwnSession, At, Past, Emptied, Freed,
        Same, SameWay, SameSession, SameResult
<1>37. CASE finalizeRunLedger
    BY <1>37, finalizeIs, NoneIs DEF StopsDone, StopDone, Known, Own, OwnSession, At, Past,
        Emptied, Freed, SameSession, SameResult, terminalRunLedgerState
<1>38. CASE startHostLockHeartbeat
    BY <1>38, heartbeatIs DEF StopsDone, StopDone, Known, Own, OwnSession, At, Past, Emptied,
        Freed, Same, SameWay, SameSession, SameResult
<1>39. CASE Crash
    BY <1>39, CrashIs, ZenonT(60) DEF StopsDone, StopDone, Known, Own, OwnSession, At, Past, Emptied, Freed,
        Asked, SameSession, SameResult
<1>40. CASE LateStart
    <2>1. ~raced /\ run.session = "none" /\ stop' = stop /\ stop[r].pc \in Past
        BY <1>40, OutsideIs DEF Outside, LateStart, Shown
    <2>2. StopDone(r) /\ stop[r].rec.session = ""
        BY <2>1, RecIs DEF StopsDone, StopDone
    <2> QED
        BY <1>40, <2>1, <2>2, OutsideIs DEF Outside, LateStart, StopDone, Known, Own, OwnSession, At, Past, Emptied, Freed
<1>41. CASE LateStop
    BY <1>41, OutsideIs, QuietIs DEF Outside, StopsDone, StopDone, Known, Own, OwnSession, At, Past,
        Emptied, Freed, Asked, LateStop, CanStop
<1>42. CASE Cancel
    BY <1>42, OutsideIs DEF Outside, StopsDone, StopDone, Known, Own, OwnSession, At, Past, Emptied, Freed,
        Cancel
<1>43. CASE Expire
    BY <1>43, OutsideIs DEF Outside, StopsDone, StopDone, Known, Own, OwnSession, At, Past, Emptied, Freed,
        Asked, Expire
<1>44. CASE RivalTakes
    BY <1>44, OutsideIs DEF Outside, StopsDone, StopDone, Known, Own, OwnSession, At, Past, Emptied, Freed,
        Asked, RivalTakes
<1>45. CASE RivalStarts
    BY <1>45, OutsideIs DEF Outside, StopsDone, StopDone, Known, Own, OwnSession, At, Past, Emptied, Freed,
        Asked, RivalStarts
<1>46. CASE RivalLeaves
    BY <1>46, OutsideIs, QuietIs DEF Outside, StopsDone, StopDone, Known, Own, OwnSession, At, Past,
        Emptied, Freed, Asked, RivalLeaves
<1>47. ASSUME NEW s \in Stops,
             stopRun(s) \/ sweepKeptSessions(s) \/ StopSteps(s) \/ CrashStop(s)
      PROVE  StopDone(r)'
    <2>1. CASE stopRun(s) \/ sweepKeptSessions(s)
        BY <1>47, <2>1, askIs, ZenonT(60) DEF StopsDone, StopDone, Known, Own, OwnSession, At, Past, Emptied,
            Freed, Asked, Others
    <2>2. CASE prepareRunLedgerForStop(s)
        <3>1. /\ ~raced /\ Others(s) /\ stop'[s].pc \notin Past
              /\ UNCHANGED <<run, manifest, record, lock, maya, workspace>>
            BY <1>47, <2>2, prepareIs DEF Moves, Past, Emptied, Freed
        <3>2. r # s /\ stop'[r] = stop[r] /\ StopDone(r)
            BY <3>1 DEF Others, StopsDone
        <3> QED
            BY <3>1, <3>2 DEF Others, StopDone, Known, Own, OwnSession, At, Past, Emptied, Freed
    <2>3. CASE stopKeptRun(s)
        <3>1. /\ ~raced /\ Others(s) /\ stop[s].pc \notin Past
              /\ UNCHANGED <<run, manifest, lock, maya, workspace, ledger>>
            BY <1>47, <2>3, stopKeptRunIs DEF Moves, Refused, Past, Emptied, Freed
        <3>2. CASE stop'[s].pc \notin Past
            <4>1. r # s /\ stop'[r] = stop[r] /\ StopDone(r)
                BY <3>1, <3>2 DEF Others, StopsDone
            <4>2. record' = record \/ (record' = None /\ manifest = "none")
                BY <1>47, <2>3, stopKeptRunIs
            <4> QED
                BY <3>1, <3>2, <4>1, <4>2 DEF Others, StopDone, Known, Own, OwnSession, At, Past, Emptied, Freed
        <3>3. CASE stop'[s].pc \in Past
            <4>1. PICK q : q = stop'[s].rec
                OBVIOUS
            <4>2. /\ manifest # "none" /\ record \in Records /\ record' = record /\ ~Live
                  /\ q \in Records /\ Reads(q) /\ ledger \in Ledgers
                  /\ stop'[s].pc = (CASE q.phase = "host-lock-released" -> "mirror"
                                      [] q.phase = "broker-cleaned" -> "checkpoint"
                                      [] OTHER -> "broker")
                  /\ (q.phase = "" => lock \in {"active", "kept"})
                BY <1>47, <2>3, <3>3, <4>1, stopKeptRunIs DEF Moves, Refused, Past, Emptied, Freed
            <4>3. q.session \in {"", "ours"} /\ (q.session = "ours" <=> Known)
                BY <4>2, NoneIs DEF Reads, Known, Records
            <4>4. Truthful(q.phase)
                <5>1. q.phase = record.phase \/ q.phase = ledger.phase
                    BY <4>2 DEF Reads
                <5> QED
                    BY <3>1, <4>2, <5>1, NoneIs DEF Filed
            <4>5. lock # "claimed"
                BY <4>2, <4>4 DEF Truthful
            <4>6. run.session = "ours" \/ ~Known
                BY <3>1 DEF Filed
            <4>7. \A t \in Stops : stop[t].pc \in Past => StopDone(t) /\ stop[t].rec.session \in {"", "ours"}
                BY <3>1, RecIs DEF StopsDone
            <4>8. \A t \in Stops : stop'[t].pc \in Past /\ t # s => stop[t].pc \in Past /\ stop'[t] = stop[t]
                BY <3>1 DEF Others
            <4>9. \A t \in Stops : stop'[t].pc \in Past => (stop'[t].rec.session = "ours" <=> Known)
                               /\ stop'[t].rec.session \in {"", "ours"}
                BY <4>1, <4>2, <4>3, <4>7, <4>8 DEF StopDone
            <4>10. CASE r # s
                BY <3>1, <4>2, <4>7, <4>8, <4>9, <4>10 DEF StopDone, Known, Own, OwnSession, At, Past, Emptied, Freed
            <4>11. CASE r = s
                <5>1. /\ stop'[s].pc # "broker" => ~OwnSession \/ ~Known
                      /\ stop'[s].pc \in Emptied => ~workspace
                      /\ stop'[s].pc \in Freed => ~Own
                    BY <4>2, <4>4 DEF Truthful, Emptied, Freed
                <5> QED
                    BY <3>1, <4>2, <4>5, <4>6, <4>9, <4>11, <5>1 DEF Live, StopDone, Known, Own, OwnSession, At, Past, Emptied, Freed
            <4> QED
                BY <4>10, <4>11
        <3> QED
            BY <3>2, <3>3
    <2>4. CASE StopRetainedRun(s)
        <3>1. /\ ~raced /\ Others(s) /\ stop[s].pc = "broker" /\ stop'[s].rec = stop[s].rec
              /\ stop'[s].pc \in {"workspace", "update"}
              /\ UNCHANGED <<run, manifest, record, lock, workspace>>
              /\ (maya' = maya \/ (maya.id = "ours" /\ maya'.id = "ours" /\ ~maya'.alive))
              /\ (stop'[s].pc = "workspace" /\ stop[s].rec.session = "ours" =>
                    ~(maya'.id = "ours" /\ maya'.alive))
            BY <1>47, <2>4, StopRetainedRunIs DEF Moves, Refused, Stops1
        <3>2. stop[r].pc \in Past /\ stop'[r].rec = stop[r].rec /\ (r # s => stop'[r] = stop[r])
            BY <3>1 DEF Others, Past
        <3>3. StopDone(r) /\ stop[r].rec.session \in {"", "ours"}
            BY <3>1, <3>2, RecIs DEF StopsDone
        <3>4. \A t \in Stops : stop'[t].pc \in Past => stop[t].pc \in Past /\ stop'[t].rec = stop[t].rec
            BY <3>1 DEF Others, Past
        <3> QED
            BY <3>1, <3>2, <3>3, <3>4 DEF StopDone, Known, Own, OwnSession, At, Past, Emptied, Freed
    <2>5. CASE removeRemotePath(s)
        BY <1>47, <2>5, removeRemotePathIs, ZenonT(60) DEF StopsDone, StopDone, Known, Own, OwnSession, At,
            Past, Emptied, Freed, Asked, Moves, Others, Refused
    <2>6. CASE releaseHostSideLock(s)
        BY <1>47, <2>6, releaseHostSideIs, ZenonT(60) DEF StopsDone, StopDone, Known, Own, OwnSession, At,
            Past, Emptied, Freed, Asked, Moves, Others, Refused
    <2>7. CASE removeRepoHostLockForRun(s)
        BY <1>47, <2>7, removeMirrorIs, ZenonT(60) DEF StopsDone, StopDone, Known, Own, OwnSession, At, Past,
            Emptied, Freed, Asked, Moves, Others, Refused
    <2>8. CASE finishReleasedStopRun(s)
        <3>1. /\ ~raced /\ Others(s) /\ stop[s].pc \in Past
              /\ UNCHANGED <<run, manifest, lock, maya, workspace>>
              /\ record' = record \/ (record' \in Records /\ record'.session = stop[s].rec.session)
              /\ stop'[s].rec.session = stop[s].rec.session
              /\ \/ stop'[s].pc = "update"
                 \/ stop[s].pc = "checkpoint" /\ stop'[s].pc = "release"
                 \/ stop[s].pc = "released" /\ stop'[s].pc = "remove"
            BY <1>47, <2>8, finishReleasedStopRunIs DEF Refused, Past, Emptied, Freed
        <3>2. stop[r].pc \in Past /\ stop'[r].rec.session = stop[r].rec.session
            BY <3>1 DEF Others
        <3>3. /\ StopDone(r) /\ stop[r].rec.session \in {"", "ours"}
              /\ StopDone(s) /\ stop[s].rec.session \in {"", "ours"}
            BY <1>47, <3>1, <3>2, RecIs DEF StopsDone
        <3>4. \A t \in Stops : stop'[t].pc \in Past =>
                 stop[t].pc \in Past /\ stop'[t].rec.session = stop[t].rec.session
            BY <3>1 DEF Others
        <3>5. /\ stop[r].rec.session = "" => stop[s].rec.session = "" /\ ~Known
              /\ stop[r].rec.session = "ours" => stop[s].rec.session = "ours" /\ run.session = "ours"
            BY <3>1, <3>2, <3>3 DEF StopDone
        <3>6. /\ stop'[r].rec.session = "" => ~Known'
              /\ stop'[r].rec.session = "ours" => Known' \/ manifest' = "none"
            BY <3>1, <3>2, <3>3, <3>5, NoneIs DEF StopDone, Known
        <3>7. /\ (stop[r].pc \in Emptied <=> stop'[r].pc \in Emptied)
              /\ (stop[r].pc \in Freed <=> stop'[r].pc \in Freed)
              /\ (stop'[r].pc # "broker" => stop[r].pc # "broker")
            BY <3>1 DEF Others, Emptied, Freed, Past
        <3>8. /\ At("ended")' /\ lock' # "claimed"
              /\ stop'[r].rec.session = "ours" => run'.session = "ours"
              /\ stop'[r].rec.session = "" => \A t \in Stops : stop'[t].pc \in Past => stop'[t].rec.session = ""
            BY <3>1, <3>2, <3>3, <3>4 DEF StopDone, At
        <3>9. /\ stop'[r].pc # "broker" => ~OwnSession' \/ stop'[r].rec.session = ""
              /\ stop'[r].pc \in Emptied => ~workspace'
              /\ stop'[r].pc \in Freed => ~Own'
            BY <3>1, <3>2, <3>3, <3>7 DEF StopDone, Own, OwnSession, Others
        <3> QED
            BY <3>6, <3>8, <3>9 DEF StopDone
    <2>9. CASE cleanupStoppedRunState(s)
        BY <1>47, <2>9, cleanupStoppedIs, ZenonT(60) DEF StopsDone, StopDone, Known, Own, OwnSession, At,
            Past, Emptied, Freed, Asked, Moves, Others, Refused
    <2>10. CASE updateRunLedgerAfterStop(s)
        BY <1>47, <2>10, updateIs, NoneIs, ZenonT(60) DEF StopsDone, StopDone, Known, Own, OwnSession, At,
            Past, Emptied, Freed, Asked, Rests, Others
    <2>11. CASE CrashStop(s)
        BY <1>47, <2>11, CrashStopIs, ZenonT(60) DEF StopsDone, StopDone, Known, Own, OwnSession, At, Past,
            Emptied, Freed, Asked, Rests, Others
    <2> QED
        BY <1>47, <2>1, <2>2, <2>3, <2>4, <2>5, <2>6, <2>7, <2>8, <2>9, <2>10, <2>11 DEF StopSteps
<1> QED
    BY <1>1, <1>2, <1>3, <1>4, <1>5, <1>6, <1>7, <1>8, <1>9, <1>10, <1>11, <1>12, <1>13, <1>14,
        <1>15, <1>16, <1>17, <1>18, <1>19, <1>20, <1>21, <1>22, <1>23, <1>24, <1>25, <1>26, <1>27,
        <1>28, <1>29, <1>30, <1>31, <1>32, <1>33, <1>34, <1>35, <1>36, <1>37, <1>38, <1>39, <1>40,
        <1>41, <1>42, <1>43, <1>44, <1>45, <1>46, <1>47 DEF Next, Controller, Setup, SessionSteps,
        Settlement, Cleanup, Deferred, Environment, Outside

\* The controller never forgets its lock: it releases it, retains the session, or
\* reports an incomplete cleanup.
LEMMA GivesBackStep ==
    ASSUME Typed, Account, Failure, Asked, Untouched, Shown, Filed, GivesBack, Next
    PROVE  GivesBack'
<1>1. CASE accept
    BY <1>1, acceptIs, SubmittedIs DEF GivesBack, Own, At, Live, Deferring, Stopping, Cleaned,
        Shown, OwnSession, FailsTo, SameWay, SameSession, SameResult
<1>2. CASE configureScenarioWorkspace
    BY <1>2, configureIs DEF GivesBack, Own, At, Live, Deferring, Stopping, Cleaned, FailsTo,
        Heard, SameWay, SameSession, SameResult
<1>3. CASE selectHostForRunValidated
    BY <1>3, selectIs DEF GivesBack, Own, At, Live, Deferring, Stopping, Cleaned, Failure, Going,
        Setting, Using, Ending, Shown, OwnSession, FailsTo, SameWay, SameSession, SameResult
<1>4. CASE probeHostReadiness
    BY <1>4, probeIs DEF GivesBack, Own, At, Live, Deferring, Stopping, Cleaned, FailsTo, Heard,
        Same, SameWay, SameSession, SameResult
<1>5. CASE recordRunning
    BY <1>5, recordRunningIs, NoneIs DEF GivesBack, Own, At, Live, Deferring, Stopping, Cleaned,
        FailsTo, Recorded, Same, SameWay, SameSession, SameResult
<1>6. CASE markActive
    BY <1>6, markActiveIs DEF GivesBack, Own, At, Live, Deferring, Stopping, Cleaned, FailsTo,
        Marked, SameWay, SameSession, SameResult
<1>7. CASE StartFreshSession
    BY <1>7, StartFreshSessionIs DEF GivesBack, Own, At, Live, Deferring, Stopping, Cleaned,
        FailsTo, Heard, SameWay, SameResult
<1>8. CASE startSessionWithCancellation
    BY <1>8, startWithCancellationIs DEF GivesBack, Own, At, Live, Deferring, Stopping, Cleaned,
        FailsTo, Heard, SameWay, SameResult
<1>9. CASE renewHostLockNow
    BY <1>9, renewIs DEF GivesBack, Own, At, Live, Deferring, Stopping, Cleaned, FailsTo, SameWay,
        SameSession, SameResult
<1>10. CASE bindSession
    BY <1>10, bindIs, BoundIs, NoneIs DEF GivesBack, Own, At, Live, Deferring, Stopping, Cleaned,
        FailsTo, Rebound, Same, SameWay, SameSession, SameResult
<1>11. CASE stagePayloadWithCancellation
    BY <1>11, stageIs DEF GivesBack, Own, At, Live, Deferring, Stopping, Cleaned, FailsTo, Heard,
        Same, SameWay, SameSession, SameResult
<1>12. CASE runBrokerScenario
    BY <1>12, runBrokerScenarioIs DEF GivesBack, Own, At, Live, Deferring, Stopping, Cleaned,
        Same, SameWay, SameSession, SameResult
<1>13. CASE cancelBrokerScenario
    BY <1>13, cancelScenarioIs DEF GivesBack, Own, At, Live, Deferring, Stopping, Cleaned,
        Answered, SameResult, Heard, Calmed, Sessions
<1>14. CASE recoverCompletedScenarioAfterBrokerFailure
    BY <1>14, recoverIs DEF GivesBack, Own, At, Live, Deferring, Stopping, Cleaned, FailsTo,
        Heard, SameWay
<1>15. CASE settle
    BY <1>15, settleIs DEF GivesBack, Own, At, Live, Deferring, Stopping, Cleaned, Heard, SameWay,
        SameSession, SameResult
<1>16. CASE finishStopped
    BY <1>16, finishStoppedIs DEF GivesBack, Own, At, Live, Deferring, Stopping, Cleaned,
        Answered, SameResult, Heard, Calmed, Sessions, SameWay, SameSession
<1>17. CASE finishKept
    BY <1>17, finishKeptIs DEF GivesBack, Own, At, Live, Deferring, Stopping, Cleaned, Same,
        SameWay, SameSession, SameResult
<1>18. CASE finishFailedRun
    BY <1>18, finishFailedRunIs DEF GivesBack, Own, At, Live, Deferring, Stopping, Cleaned,
        SameWay, SameSession, SameResult
<1>19. CASE retainSession
    BY <1>19, retainSessionIs DEF GivesBack, Own, At, Live, Deferring, Stopping, Cleaned, Marked,
        Same, SameWay, SameSession, SameResult
<1>20. CASE RetainRun
    BY <1>20, RetainRunIs, NoneIs DEF GivesBack, Own, At, Live, Deferring, Stopping, Cleaned,
        Account, Going, Setting, Using, Ending, Recorded, SameWay, SameSession, SameResult,
        OwnSession
<1>21. CASE syncEvidenceEvents
    BY <1>21, syncIs DEF GivesBack, Own, At, Live, Deferring, Stopping, Cleaned, Heard, SameWay,
        SameSession, SameResult
<1>22. CASE preserveStoppedRunForCleanup
    BY <1>22, preserveIs, NoneIs DEF GivesBack, Own, At, Live, Deferring, Stopping, Cleaned,
        Recorded, Same, SameWay, SameSession, SameResult
<1>23. CASE markKept
    BY <1>23, markKeptIs DEF GivesBack, Own, At, Live, Deferring, Stopping, Cleaned, Account,
        Going, Setting, Using, Ending, Failure, Returned, Same, SameWay, SameSession, SameResult,
        Marked
<1>24. CASE completeCleanupAfterRecoveryFailure
    BY <1>24, completeCleanupIs, NoneIs DEF GivesBack, Own, At, Live, Deferring, Stopping,
        Cleaned, Account, Going, Setting, Using, Ending, Failure, Returned, Same, SameWay,
        SameSession, SameResult, Advanced
<1>25. CASE CleanupRun
    BY <1>25, CleanupRunIs DEF GivesBack, Own, At, Live, Deferring, Stopping, Cleaned, Account,
        Going, Setting, Using, Ending, Failure, Returned, Same, SameWay, SameSession, SameResult
<1>26. CASE finishStoppedRunCleanup
    BY <1>26, finishStoppedRunCleanupIs, NoneIs DEF GivesBack, Own, At, Live, Deferring, Stopping,
        Cleaned, Account, Going, Setting, Using, Ending, Failure, Returned, Same, SameWay,
        SameSession, SameResult, Recorded, Advanced
<1>27. CASE releaseStoppedRun
    BY <1>27, releaseStoppedRunIs DEF GivesBack, Own, At, Live, Deferring, Stopping, Cleaned,
        Account, Going, Setting, Using, Ending, Failure, Returned, Same, SameWay, SameSession,
        SameResult, Released
<1>28. CASE cleanupRunState
    BY <1>28, cleanupRunStateIs DEF GivesBack, Own, At, Live, Deferring, Stopping, Cleaned, Filed,
        Truthful, Known, OwnSession, Ending, Returned, Same, SameWay, SameSession, SameResult
<1>29. CASE finishEarlyFailure
    BY <1>29, earlyIs DEF GivesBack, Own, At, Live, Deferring, Stopping, Cleaned, Account, Going,
        Setting, Using, Ending, Failure, Released, SameWay, SameSession
<1>30. CASE ensureAcceptedFailureEvidence
    BY <1>30, ensureIs DEF GivesBack, Own, At, Live, Deferring, Stopping, Cleaned, Failure, Going,
        Setting, Using, Ending, Same, SameWay, SameSession, SameResult
<1>31. CASE settleDeferred
    BY <1>31, deferredIs DEF GivesBack, Own, At, Live, Deferring, Stopping, Cleaned, Failure,
        Going, Setting, Using, Ending, SameSession, SameResult, Typed, Controllers
<1>32. CASE stopAfterUnsettled
    BY <1>32, stopUnsettledIs DEF GivesBack, Own, At, Live, Deferring, Stopping, Cleaned, Account,
        Going, Setting, Using, Ending, Answered, SameResult, Heard, Calmed, Sessions
<1>33. CASE stopAfterRunFailure
    BY <1>33, stopFailureIs DEF GivesBack, Own, At, Live, Deferring, Stopping, Cleaned, Account,
        Going, Setting, Using, Ending, Answered, SameResult, Heard, Calmed, Sessions
<1>34. CASE cleanupUnacceptedOwnership
    BY <1>34, unacceptIs DEF GivesBack, Own, At, Live, Deferring, Stopping, Cleaned, SameWay,
        SameSession, SameResult
<1>35. CASE releaseHostLock
    BY <1>35, unlockIs DEF GivesBack, Own, At, Live, Deferring, Stopping, Cleaned, Released,
        SameWay, SameSession, SameResult
<1>36. CASE updateTerminalFailureEvidence
    <2>1. /\ run.failure \in {"none", "not-needed", "failed", "pending", "completed", "retained"}
          /\ run.pc = "outcome" /\ run'.pc = "finalize" /\ lock' = lock /\ raced' = raced
          /\ run'.accepted = run.accepted /\ run'.err = run.err
          /\ run'.retained = run.retained /\ run'.attempted = run.attempted
        BY <1>36, outcomeIs DEF Typed, Controllers, Same, SameWay, SameSession
    <2>2. \/ /\ run'.failure = run.failure /\ run'.policy = run.policy
             /\ ~(run.accepted /\ run.err) \/ run.failure \notin {"none", "pending"}
          \/ run'.policy = run.policy /\ run.retained /\ run'.failure = "retained"
          \/ run'.failure = "failed" /\ run'.policy = "unresolved"
          \/ /\ run'.failure = "completed" /\ run'.policy = "stopped" /\ ~run.incomplete
             /\ run.failure \in {"none", "pending"} /\ ~(run.policy = "kept" /\ run.retained)
        BY <1>36, outcomeIs DEF Same, SameResult
    <2>3. /\ run.failure # "retained" /\ (run.retained => run.policy = "kept")
          /\ (run.policy = "kept" => run.failure \notin {"not-needed", "failed", "completed"})
        BY <2>1 DEF Account, Failure
    <2>4. ASSUME ~raced, run.accepted
          PROVE  /\ ~run.err => ~Own \/ run.retained
                 /\ ~run.err /\ run.policy = "kept" => run.retained
                 /\ run.failure \in {"not-needed", "completed"} => ~Own
                 /\ ~Own \/ run.incomplete \/ run.retained \/ run.failure = "failed"
        BY <2>1, <2>4 DEF GivesBack, Live, At, Deferring
    <2> QED
        BY <2>1, <2>2, <2>3, <2>4 DEF GivesBack, Own, Live, At, Deferring, Stopping, Cleaned
<1>37. CASE finalizeRunLedger
    BY <1>37, finalizeIs, NoneIs DEF GivesBack, Own, At, Live, Deferring, Stopping, Cleaned,
        SameSession, SameResult, terminalRunLedgerState
<1>38. CASE startHostLockHeartbeat
    BY <1>38, heartbeatIs DEF GivesBack, Own, At, Live, Deferring, Stopping, Cleaned, Same,
        SameWay, SameSession, SameResult
<1>39. CASE Crash
    BY <1>39, CrashIs DEF GivesBack, Own, At, Live, Deferring, Stopping, Cleaned, SameSession,
        SameResult
<1>40. CASE LateStart
    BY <1>40, OutsideIs, QuietIs DEF Outside, GivesBack, Own, At, Live, Deferring, Stopping, Cleaned,
        LateStart, Fenced
<1>41. CASE LateStop
    BY <1>41, OutsideIs, QuietIs DEF Outside, GivesBack, Own, At, Live, Deferring, Stopping, Cleaned,
        LateStop, CanStop
<1>42. CASE Cancel
    BY <1>42, OutsideIs DEF Outside, GivesBack, Own, At, Live, Deferring, Stopping, Cleaned, Cancel
<1>43. CASE Expire
    BY <1>43, OutsideIs DEF Outside, GivesBack, Own, At, Live, Deferring, Stopping, Cleaned, Expire
<1>44. CASE RivalTakes
    BY <1>44, OutsideIs DEF Outside, GivesBack, Own, At, Live, Deferring, Stopping, Cleaned, RivalTakes
<1>45. CASE RivalStarts
    BY <1>45, OutsideIs DEF Outside, GivesBack, Own, At, Live, Deferring, Stopping, Cleaned, RivalStarts
<1>46. CASE RivalLeaves
    BY <1>46, OutsideIs, QuietIs DEF Outside, GivesBack, Own, At, Live, Deferring, Stopping, Cleaned,
        RivalLeaves
<1>47. ASSUME NEW s \in Stops,
             stopRun(s) \/ sweepKeptSessions(s) \/ StopSteps(s) \/ CrashStop(s)
      PROVE  GivesBack'
    <2>1. CASE stopRun(s) \/ sweepKeptSessions(s)
        BY <1>47, <2>1, askIs DEF GivesBack, Own, At, Live, Deferring, Stopping, Cleaned, Others
    <2>2. CASE prepareRunLedgerForStop(s)
        BY <1>47, <2>2, prepareIs, NoneIs DEF GivesBack, Own, At, Live, Deferring, Stopping,
            Cleaned, Moves, Others, Reconciles, CanReconcile, Unfinished,
            requireStaleSubmittedRunController, repoHostLockUsesActiveRun
    <2>3. CASE stopKeptRun(s)
        BY <1>47, <2>3, stopKeptRunIs, NoneIs DEF GivesBack, Own, At, Live, Deferring, Stopping,
            Cleaned, Others, Moves, Refused, Reads, Recovers
    <2>4. CASE StopRetainedRun(s)
        BY <1>47, <2>4, StopRetainedRunIs DEF GivesBack, Own, At, Live, Deferring, Stopping,
            Cleaned, Moves, Others, Refused, Stops1, Sessions
    <2>5. CASE removeRemotePath(s)
        BY <1>47, <2>5, removeRemotePathIs DEF GivesBack, Own, At, Live, Deferring, Stopping,
            Cleaned, Moves, Others, Refused
    <2>6. CASE releaseHostSideLock(s)
        BY <1>47, <2>6, releaseHostSideIs DEF GivesBack, Own, At, Live, Deferring, Stopping,
            Cleaned, Moves, Others, Refused, OwnSession
    <2>7. CASE removeRepoHostLockForRun(s)
        BY <1>47, <2>7, removeMirrorIs DEF GivesBack, Own, At, Live, Deferring, Stopping, Cleaned,
            Moves, Others, Refused
    <2>8. CASE finishReleasedStopRun(s)
        BY <1>47, <2>8, finishReleasedStopRunIs, NoneIs DEF GivesBack, Own, At, Live, Deferring,
            Stopping, Cleaned, Advanced, Others, Refused
    <2>9. CASE cleanupStoppedRunState(s)
        BY <1>47, <2>9, cleanupStoppedIs DEF GivesBack, Own, At, Live, Deferring, Stopping,
            Cleaned, Moves, Others, Refused
    <2>10. CASE updateRunLedgerAfterStop(s)
        BY <1>47, <2>10, updateIs, NoneIs DEF GivesBack, Own, At, Live, Deferring, Stopping,
            Cleaned, Rests, Others
    <2>11. CASE CrashStop(s)
        BY <1>47, <2>11, CrashStopIs DEF GivesBack, Own, At, Live, Deferring, Stopping, Cleaned,
            Rests, Others
    <2> QED
        BY <1>47, <2>1, <2>2, <2>3, <2>4, <2>5, <2>6, <2>7, <2>8, <2>9, <2>10, <2>11 DEF StopSteps
<1> QED
    BY <1>1, <1>2, <1>3, <1>4, <1>5, <1>6, <1>7, <1>8, <1>9, <1>10, <1>11, <1>12, <1>13, <1>14,
        <1>15, <1>16, <1>17, <1>18, <1>19, <1>20, <1>21, <1>22, <1>23, <1>24, <1>25, <1>26, <1>27,
        <1>28, <1>29, <1>30, <1>31, <1>32, <1>33, <1>34, <1>35, <1>36, <1>37, <1>38, <1>39, <1>40,
        <1>41, <1>42, <1>43, <1>44, <1>45, <1>46, <1>47 DEF Next, Controller, Setup, SessionSteps,
        Settlement, Cleanup, Deferred, Environment, Outside

\* A stop reports no error only after the lock was released.
LEMMA StopsFreeStep ==
    ASSUME Typed, Account, Asked, Untouched, Filed, StopsDone, StopsFree, Next
    PROVE  StopsFree'
<1>1. CASE accept
    BY <1>1, acceptIs, SubmittedIs DEF StopsFree, Own, Going, Setting, Using, FailsTo, SameWay,
        SameSession, SameResult
<1>2. CASE configureScenarioWorkspace
    BY <1>2, configureIs DEF StopsFree, Own, Going, Setting, Using, FailsTo, Heard, SameWay,
        SameSession, SameResult
<1>3. CASE selectHostForRunValidated
    BY <1>3, selectIs DEF StopsFree, Own, Going, Setting, Using, FailsTo, SameWay, SameSession,
        SameResult
<1>4. CASE probeHostReadiness
    BY <1>4, probeIs DEF StopsFree, Own, Going, Setting, Using, FailsTo, Heard, Same, SameWay,
        SameSession, SameResult
<1>5. CASE recordRunning
    BY <1>5, recordRunningIs, NoneIs DEF StopsFree, Own, Going, Setting, Using, FailsTo, Recorded,
        Same, SameWay, SameSession, SameResult
<1>6. CASE markActive
    BY <1>6, markActiveIs DEF StopsFree, Own, Going, Setting, Using, FailsTo, Marked, SameWay,
        SameSession, SameResult
<1>7. CASE StartFreshSession
    BY <1>7, StartFreshSessionIs DEF StopsFree, Own, Going, Setting, Using, FailsTo, Heard,
        SameWay, SameResult
<1>8. CASE startSessionWithCancellation
    BY <1>8, startWithCancellationIs DEF StopsFree, Own, Going, Setting, Using, FailsTo, Heard,
        SameWay, SameResult
<1>9. CASE renewHostLockNow
    BY <1>9, renewIs DEF StopsFree, Own, Going, Setting, Using, FailsTo, SameWay, SameSession,
        SameResult
<1>10. CASE bindSession
    BY <1>10, bindIs, BoundIs, NoneIs DEF StopsFree, Own, Going, Setting, Using, FailsTo, Rebound,
        Same, SameWay, SameSession, SameResult
<1>11. CASE stagePayloadWithCancellation
    BY <1>11, stageIs DEF StopsFree, Own, Going, Setting, Using, FailsTo, Heard, Same, SameWay,
        SameSession, SameResult
<1>12. CASE runBrokerScenario
    BY <1>12, runBrokerScenarioIs DEF StopsFree, Own, Going, Setting, Using, Same, SameWay,
        SameSession, SameResult
<1>13. CASE cancelBrokerScenario
    BY <1>13, cancelScenarioIs DEF StopsFree, Own, Going, Setting, Using, Answered, SameResult,
        Heard, Calmed, Sessions
<1>14. CASE recoverCompletedScenarioAfterBrokerFailure
    BY <1>14, recoverIs DEF StopsFree, Own, Going, Setting, Using, FailsTo, Heard, SameWay
<1>15. CASE settle
    BY <1>15, settleIs DEF StopsFree, Own, Going, Setting, Using, Heard, SameWay, SameSession,
        SameResult
<1>16. CASE finishStopped
    BY <1>16, finishStoppedIs DEF StopsFree, Own, Going, Setting, Using, Answered, SameResult,
        Heard, Calmed, Sessions, SameWay, SameSession
<1>17. CASE finishKept
    BY <1>17, finishKeptIs DEF StopsFree, Own, Going, Setting, Using, Same, SameWay, SameSession,
        SameResult
<1>18. CASE finishFailedRun
    BY <1>18, finishFailedRunIs DEF StopsFree, Own, Going, Setting, Using, SameWay, SameSession,
        SameResult
<1>19. CASE retainSession
    BY <1>19, retainSessionIs DEF StopsFree, Own, Going, Setting, Using, Marked, Same, SameWay,
        SameSession, SameResult
<1>20. CASE RetainRun
    BY <1>20, RetainRunIs, NoneIs DEF StopsFree, Own, Going, Setting, Using, Recorded, SameWay,
        SameSession, SameResult, OwnSession
<1>21. CASE syncEvidenceEvents
    BY <1>21, syncIs DEF StopsFree, Own, Going, Setting, Using, Heard, SameWay, SameSession,
        SameResult
<1>22. CASE preserveStoppedRunForCleanup
    BY <1>22, preserveIs, NoneIs DEF StopsFree, Own, Going, Setting, Using, Recorded, Same,
        SameWay, SameSession, SameResult
<1>23. CASE markKept
    BY <1>23, markKeptIs DEF StopsFree, Own, Going, Setting, Using, Returned, Same, SameWay,
        SameSession, SameResult, Marked
<1>24. CASE completeCleanupAfterRecoveryFailure
    BY <1>24, completeCleanupIs, NoneIs DEF StopsFree, Own, Going, Setting, Using, Returned, Same,
        SameWay, SameSession, SameResult, Advanced
<1>25. CASE CleanupRun
    BY <1>25, CleanupRunIs DEF StopsFree, Own, Going, Setting, Using, Returned, Same, SameWay,
        SameSession, SameResult
<1>26. CASE finishStoppedRunCleanup
    BY <1>26, finishStoppedRunCleanupIs, NoneIs DEF StopsFree, Own, Going, Setting, Using,
        Returned, Same, SameWay, SameSession, SameResult, Recorded, Advanced
<1>27. CASE releaseStoppedRun
    BY <1>27, releaseStoppedRunIs DEF StopsFree, Own, Going, Setting, Using, Returned, Same,
        SameWay, SameSession, SameResult, Released
<1>28. CASE cleanupRunState
    BY <1>28, cleanupRunStateIs DEF StopsFree, Own, Going, Setting, Using, Returned, Same,
        SameWay, SameSession, SameResult
<1>29. CASE finishEarlyFailure
    BY <1>29, earlyIs DEF StopsFree, Own, Going, Setting, Using, Released, SameWay, SameSession
<1>30. CASE ensureAcceptedFailureEvidence
    BY <1>30, ensureIs DEF StopsFree, Own, Going, Setting, Using, Same, SameWay, SameSession,
        SameResult
<1>31. CASE settleDeferred
    BY <1>31, deferredIs DEF StopsFree, Own, Going, Setting, Using, SameSession, SameResult
<1>32. CASE stopAfterUnsettled
    BY <1>32, stopUnsettledIs DEF StopsFree, Own, Going, Setting, Using, Answered, SameResult,
        Heard, Calmed, Sessions
<1>33. CASE stopAfterRunFailure
    BY <1>33, stopFailureIs DEF StopsFree, Own, Going, Setting, Using, Answered, SameResult,
        Heard, Calmed, Sessions
<1>34. CASE cleanupUnacceptedOwnership
    BY <1>34, unacceptIs DEF StopsFree, Own, Going, Setting, Using, SameWay, SameSession,
        SameResult
<1>35. CASE releaseHostLock
    BY <1>35, unlockIs DEF StopsFree, Own, Going, Setting, Using, Released, SameWay, SameSession,
        SameResult
<1>36. CASE updateTerminalFailureEvidence
    BY <1>36, outcomeIs DEF StopsFree, Own, Going, Setting, Using, Same, SameWay, SameSession,
        SameResult
<1>37. CASE finalizeRunLedger
    BY <1>37, finalizeIs, NoneIs DEF StopsFree, Own, Going, Setting, Using, SameSession,
        SameResult, terminalRunLedgerState
<1>38. CASE startHostLockHeartbeat
    BY <1>38, heartbeatIs DEF StopsFree, Own, Going, Setting, Using, Same, SameWay, SameSession,
        SameResult
<1>39. CASE Crash
    BY <1>39, CrashIs DEF StopsFree, Own, Going, Setting, Using, SameSession, SameResult
<1>40. CASE LateStart
    BY <1>40, OutsideIs, QuietIs DEF Outside, StopsFree, Own, Going, Setting, Using, LateStart, Fenced
<1>41. CASE LateStop
    BY <1>41, OutsideIs, QuietIs DEF Outside, StopsFree, Own, Going, Setting, Using, LateStop, CanStop
<1>42. CASE Cancel
    BY <1>42, OutsideIs DEF Outside, StopsFree, Own, Going, Setting, Using, Cancel
<1>43. CASE Expire
    BY <1>43, OutsideIs DEF Outside, StopsFree, Own, Going, Setting, Using, Expire
<1>44. CASE RivalTakes
    BY <1>44, OutsideIs DEF Outside, StopsFree, Own, Going, Setting, Using, RivalTakes
<1>45. CASE RivalStarts
    BY <1>45, OutsideIs DEF Outside, StopsFree, Own, Going, Setting, Using, RivalStarts
<1>46. CASE RivalLeaves
    BY <1>46, OutsideIs, QuietIs DEF Outside, StopsFree, Own, Going, Setting, Using, RivalLeaves
<1>47. ASSUME NEW s \in Stops,
             stopRun(s) \/ sweepKeptSessions(s) \/ StopSteps(s) \/ CrashStop(s)
      PROVE  StopsFree'
    <2>1. CASE stopRun(s) \/ sweepKeptSessions(s)
        BY <1>47, <2>1, askIs DEF StopsFree, Own, Going, Setting, Using, Others
    <2>2. CASE prepareRunLedgerForStop(s)
        BY <1>47, <2>2, prepareIs, NoneIs DEF StopsFree, Own, Going, Setting, Using, Moves,
            Others, Reconciles, CanReconcile, Unfinished, requireStaleSubmittedRunController,
            repoHostLockUsesActiveRun
    <2>3. CASE stopKeptRun(s)
        BY <1>47, <2>3, stopKeptRunIs, NoneIs DEF StopsFree, Own, Going, Setting, Using, Asked,
            Past, Emptied, Freed, Filed, Truthful, Known, OwnSession, Live, At, Cleaned, Ending,
            Deferring, Others, Moves, Refused, Reads, Recovers
    <2>4. CASE StopRetainedRun(s)
        BY <1>47, <2>4, StopRetainedRunIs DEF StopsFree, Own, Going, Setting, Using, Moves,
            Others, Refused, Stops1, Sessions
    <2>5. CASE removeRemotePath(s)
        BY <1>47, <2>5, removeRemotePathIs DEF StopsFree, Own, Going, Setting, Using, Moves,
            Others, Refused
    <2>6. CASE releaseHostSideLock(s)
        BY <1>47, <2>6, releaseHostSideIs DEF StopsFree, Own, Going, Setting, Using, Moves,
            Others, Refused, OwnSession
    <2>7. CASE removeRepoHostLockForRun(s)
        BY <1>47, <2>7, removeMirrorIs DEF StopsFree, Own, Going, Setting, Using, Moves, Others,
            Refused
    <2>8. CASE finishReleasedStopRun(s)
        BY <1>47, <2>8, finishReleasedStopRunIs, NoneIs DEF StopsFree, Own, Going, Setting, Using,
            Advanced, Others, Refused
    <2>9. CASE cleanupStoppedRunState(s)
        BY <1>47, <2>9, cleanupStoppedIs DEF StopsFree, Own, Going, Setting, Using, StopsDone,
            StopDone, Known, OwnSession, At, Past, Emptied, Freed, Moves, Others, Refused
    <2>10. CASE updateRunLedgerAfterStop(s)
        BY <1>47, <2>10, updateIs, NoneIs DEF StopsFree, Own, Going, Setting, Using, Rests, Others
    <2>11. CASE CrashStop(s)
        BY <1>47, <2>11, CrashStopIs DEF StopsFree, Own, Going, Setting, Using, Rests, Others
    <2> QED
        BY <1>47, <2>1, <2>2, <2>3, <2>4, <2>5, <2>6, <2>7, <2>8, <2>9, <2>10, <2>11 DEF StopSteps
<1> QED
    BY <1>1, <1>2, <1>3, <1>4, <1>5, <1>6, <1>7, <1>8, <1>9, <1>10, <1>11, <1>12, <1>13, <1>14,
        <1>15, <1>16, <1>17, <1>18, <1>19, <1>20, <1>21, <1>22, <1>23, <1>24, <1>25, <1>26, <1>27,
        <1>28, <1>29, <1>30, <1>31, <1>32, <1>33, <1>34, <1>35, <1>36, <1>37, <1>38, <1>39, <1>40,
        <1>41, <1>42, <1>43, <1>44, <1>45, <1>46, <1>47 DEF Next, Controller, Setup, SessionSteps,
        Settlement, Cleanup, Deferred, Environment, Outside

\* What a kept Run was promised is there until a stop has written how far it came.
LEMMA KeepsStep ==
    ASSUME Typed, Account, Asked, Untouched, Shown, Filed, StopsDone, GivesBack, Keeps, Next
    PROVE  Keeps'
<1>1. CASE accept
    BY <1>1, acceptIs, SubmittedIs DEF Keeps, Intact, Whole, At, Live, Freed, Account, Going,
        Setting, Using, Stopping, Cleaned, Ending, Deferring, Asked, Past, Emptied, FailsTo,
        SameWay, SameSession, SameResult
<1>2. CASE configureScenarioWorkspace
    BY <1>2, configureIs DEF Keeps, Intact, Whole, At, Live, Freed, Account, Going, Setting,
        Using, Stopping, Cleaned, Ending, Deferring, Asked, Past, Emptied, FailsTo, Heard,
        SameWay, SameSession, SameResult
<1>3. CASE selectHostForRunValidated
    BY <1>3, selectIs DEF Keeps, Intact, Whole, At, Live, Freed, Account, Going, Setting, Using,
        Stopping, Cleaned, Ending, Deferring, Asked, Past, Emptied, FailsTo, SameWay, SameSession,
        SameResult
<1>4. CASE probeHostReadiness
    BY <1>4, probeIs DEF Keeps, Intact, Whole, At, Live, Freed, Account, Going, Setting, Using,
        Stopping, Cleaned, Ending, Deferring, Asked, Past, Emptied, FailsTo, Heard, Same, SameWay,
        SameSession, SameResult
<1>5. CASE recordRunning
    BY <1>5, recordRunningIs, NoneIs DEF Keeps, Intact, Whole, At, Live, Freed, Untouched, Going,
        Setting, Using, Past, Emptied, FailsTo, Recorded, Same, SameWay, SameSession, SameResult
<1>6. CASE markActive
    BY <1>6, markActiveIs DEF Keeps, Intact, Whole, At, Live, Freed, Untouched, Going, Setting,
        Using, Past, Emptied, FailsTo, Marked, Own, SameWay, SameSession, SameResult
<1>7. CASE StartFreshSession
    BY <1>7, StartFreshSessionIs DEF Keeps, Intact, Whole, At, Live, Freed, Untouched, Going,
        Setting, Using, Past, Emptied, FailsTo, Heard, SameWay, SameResult, Own
<1>8. CASE startSessionWithCancellation
    BY <1>8, startWithCancellationIs DEF Keeps, Intact, Whole, At, Live, Freed, Untouched, Going,
        Setting, Using, Past, Emptied, FailsTo, Heard, SameWay, SameResult, Own
<1>9. CASE renewHostLockNow
    BY <1>9, renewIs DEF Keeps, Intact, Whole, At, Live, Freed, Account, Going, Setting, Using,
        Stopping, Cleaned, Ending, Deferring, Asked, Past, Emptied, FailsTo, SameWay, SameSession,
        SameResult
<1>10. CASE bindSession
    BY <1>10, bindIs, BoundIs, NoneIs DEF Keeps, Intact, Whole, At, Live, Freed, Untouched, Going,
        Setting, Using, Past, Emptied, FailsTo, Rebound, Same, SameWay, SameSession, SameResult,
        Own
<1>11. CASE stagePayloadWithCancellation
    BY <1>11, stageIs DEF Keeps, Intact, Whole, At, Live, Freed, Account, Going, Setting, Using,
        Stopping, Cleaned, Ending, Deferring, Asked, Past, Emptied, FailsTo, Heard, Same, SameWay,
        SameSession, SameResult, Own
<1>12. CASE runBrokerScenario
    BY <1>12, runBrokerScenarioIs DEF Keeps, Intact, Whole, At, Live, Freed, Account, Going,
        Setting, Using, Stopping, Cleaned, Ending, Deferring, Asked, Past, Emptied, Same, SameWay,
        SameSession, SameResult, Own
<1>13. CASE cancelBrokerScenario
    BY <1>13, cancelScenarioIs DEF Keeps, Intact, Whole, At, Live, Freed, Account, Going, Setting,
        Using, Stopping, Cleaned, Ending, Deferring, Asked, Past, Emptied, Answered, SameResult,
        Heard, Calmed, Sessions, Own
<1>14. CASE recoverCompletedScenarioAfterBrokerFailure
    BY <1>14, recoverIs DEF Keeps, Intact, Whole, At, Live, Freed, Account, Going, Setting, Using,
        Stopping, Cleaned, Ending, Deferring, Asked, Past, Emptied, FailsTo, Heard, SameWay, Own
<1>15. CASE settle
    BY <1>15, settleIs DEF Keeps, Intact, Whole, At, Live, Freed, Account, Going, Setting, Using,
        Stopping, Cleaned, Ending, Deferring, Asked, Past, Emptied, Heard, SameWay, SameSession,
        SameResult, Own
<1>16. CASE finishStopped
    BY <1>16, finishStoppedIs DEF Keeps, Intact, Whole, At, Live, Freed, Account, Going, Setting,
        Using, Stopping, Cleaned, Ending, Deferring, Asked, Past, Emptied, Answered, SameResult,
        Heard, Calmed, Sessions, SameWay, SameSession, Own
<1>17. CASE finishKept
    BY <1>17, finishKeptIs DEF Keeps, Intact, Whole, At, Live, Freed, Account, Going, Setting,
        Using, Stopping, Cleaned, Ending, Deferring, Asked, Past, Emptied, Same, SameWay,
        SameSession, SameResult
<1>18. CASE finishFailedRun
    BY <1>18, finishFailedRunIs DEF Keeps, Intact, Whole, At, Live, Freed, Account, Going,
        Setting, Using, Stopping, Cleaned, Ending, Deferring, Asked, Past, Emptied, SameWay,
        SameSession, SameResult
<1>19. CASE retainSession
    BY <1>19, retainSessionIs DEF Keeps, Intact, Whole, At, Live, Freed, Account, Going, Setting,
        Using, Stopping, Cleaned, Ending, Deferring, Asked, Past, Emptied, Untouched, Marked, Own,
        Same, SameWay, SameSession, SameResult
<1>20. CASE RetainRun
    BY <1>20, RetainRunIs, NoneIs DEF Keeps, Intact, Whole, At, Live, Freed, Asked, Past, Emptied,
        Filed, Truthful, Known, Own, OwnSession, Cleaned, Ending, Deferring, Recorded, SameWay,
        SameSession, SameResult
<1>21. CASE syncEvidenceEvents
    BY <1>21, syncIs DEF Keeps, Intact, Whole, At, Live, Freed, Account, Going, Setting, Using,
        Stopping, Cleaned, Ending, Deferring, Asked, Past, Emptied, Heard, SameWay, SameSession,
        SameResult
<1>22. CASE preserveStoppedRunForCleanup
    BY <1>22, preserveIs, NoneIs DEF Keeps, Intact, Whole, At, Live, Freed, Account, Going,
        Setting, Using, Stopping, Cleaned, Ending, Deferring, Asked, Past, Emptied, Filed,
        Truthful, Known, Own, OwnSession, Recorded, Same, SameWay, SameSession, SameResult
<1>23. CASE markKept
    BY <1>23, markKeptIs DEF Keeps, Intact, Whole, At, Live, Freed, Account, Going, Setting,
        Using, Stopping, Cleaned, Ending, Deferring, Asked, Past, Emptied, Shown, Own, OwnSession,
        Returned, Same, SameWay, SameSession, SameResult, Marked
<1>24. CASE completeCleanupAfterRecoveryFailure
    BY <1>24, completeCleanupIs, NoneIs DEF Keeps, Intact, Whole, At, Live, Freed, Account, Going,
        Setting, Using, Stopping, Cleaned, Ending, Deferring, Asked, Past, Emptied, Returned,
        Same, SameWay, SameSession, SameResult, Advanced
<1>25. CASE CleanupRun
    BY <1>25, CleanupRunIs DEF Keeps, Intact, Whole, At, Live, Freed, Account, Going, Setting,
        Using, Stopping, Cleaned, Ending, Deferring, Asked, Past, Emptied, Returned, Same,
        SameWay, SameSession, SameResult
<1>26. CASE finishStoppedRunCleanup
    BY <1>26, finishStoppedRunCleanupIs, NoneIs DEF Keeps, Intact, Whole, At, Live, Freed,
        Account, Going, Setting, Using, Stopping, Cleaned, Ending, Deferring, Asked, Past,
        Emptied, Filed, Truthful, Known, Own, OwnSession, Returned, Same, SameWay, SameSession,
        SameResult, Recorded, Advanced
<1>27. CASE releaseStoppedRun
    BY <1>27, releaseStoppedRunIs DEF Keeps, Intact, Whole, At, Live, Freed, Account, Going,
        Setting, Using, Stopping, Cleaned, Ending, Deferring, Asked, Past, Emptied, Returned,
        Same, SameWay, SameSession, SameResult, Released, Own
<1>28. CASE cleanupRunState
    BY <1>28, cleanupRunStateIs DEF Keeps, Intact, Whole, At, Live, Freed, Asked, Past, Emptied,
        Filed, Truthful, Known, Own, OwnSession, Cleaned, Ending, Deferring, Returned, Same,
        SameWay, SameSession, SameResult
<1>29. CASE finishEarlyFailure
    BY <1>29, earlyIs DEF Keeps, Intact, Whole, At, Live, Freed, Account, Going, Setting, Using,
        Stopping, Cleaned, Ending, Deferring, Asked, Past, Emptied, Released, Own, SameWay,
        SameSession
<1>30. CASE ensureAcceptedFailureEvidence
    BY <1>30, ensureIs DEF Keeps, Intact, Whole, At, Live, Freed, Account, Going, Setting, Using,
        Stopping, Cleaned, Ending, Deferring, Asked, Past, Emptied, Same, SameWay, SameSession,
        SameResult
<1>31. CASE settleDeferred
    BY <1>31, deferredIs DEF Keeps, Intact, Whole, At, Live, Freed, Account, Going, Setting,
        Using, Stopping, Cleaned, Ending, Deferring, Asked, Past, Emptied, SameSession, SameResult
<1>32. CASE stopAfterUnsettled
    BY <1>32, stopUnsettledIs DEF Keeps, Intact, Whole, At, Live, Freed, Account, Going, Setting,
        Using, Stopping, Cleaned, Ending, Deferring, Asked, Past, Emptied, Answered, SameResult,
        Heard, Calmed, Sessions
<1>33. CASE stopAfterRunFailure
    BY <1>33, stopFailureIs DEF Keeps, Intact, Whole, At, Live, Freed, Account, Going, Setting,
        Using, Stopping, Cleaned, Ending, Deferring, Asked, Past, Emptied, Answered, SameResult,
        Heard, Calmed, Sessions
<1>34. CASE cleanupUnacceptedOwnership
    BY <1>34, unacceptIs DEF Keeps, Intact, Whole, At, Live, Freed, Account, Going, Setting,
        Using, Stopping, Cleaned, Ending, Deferring, Asked, Past, Emptied, SameWay, SameSession,
        SameResult
<1>35. CASE releaseHostLock
    BY <1>35, unlockIs DEF Keeps, Intact, Whole, At, Live, Freed, Account, Going, Setting, Using,
        Stopping, Cleaned, Ending, Deferring, Asked, Past, Emptied, Released, Own, SameWay,
        SameSession, SameResult
<1>36. CASE updateTerminalFailureEvidence
    BY <1>36, outcomeIs DEF Keeps, Intact, Whole, At, Live, Freed, Account, Going, Setting, Using,
        Stopping, Cleaned, Ending, Deferring, Asked, Past, Emptied, Same, SameWay, SameSession,
        SameResult
<1>37. CASE finalizeRunLedger
    <2>1. /\ run.pc = "finalize" /\ run'.pc = "ended" /\ run'.retained = run.retained
          /\ UNCHANGED <<manifest, record, lock, mirror, stop, raced>>
          /\ \/ ledger' = ledger
             \/ /\ run.accepted /\ ledger # None /\ ledger' \in Ledgers /\ ledger'.phase = ledger.phase
                /\ ledger'.state = terminalRunLedgerState
        BY <1>37, finalizeIs DEF SameSession
    <2>2. SUFFICES ASSUME ~raced PROVE Keeps'
        BY <2>1 DEF Keeps
    <2>3. \A s \in Stops : stop[s].pc \notin {"release"} \cup Freed
        BY <2>1, <2>2 DEF StopsDone, StopDone, At, Past, Emptied
    <2>4. CASE ledger' = ledger
        BY <2>1, <2>2, <2>3, <2>4 DEF Keeps, Intact, Whole, At, Live
    <2>5. CASE /\ run.accepted /\ ledger # None /\ ledger' \in Ledgers /\ ledger'.phase = ledger.phase
               /\ ledger'.state = terminalRunLedgerState
        <3>1. run.retained => Intact /\ Whole
            BY <2>1, <2>2 DEF Keeps, Live, At
        <3>2. Whole => run.retained
            BY <2>1, <2>2 DEF Keeps, Live, At, Whole
        <3>3. ledger'.state = "kept" => run.retained
            BY <2>1, <2>2, <2>5 DEF GivesBack, Live, At, terminalRunLedgerState
        <3>4. ledger' # None /\ ledger'.state # "submitted"
            BY <2>5, NoneIs DEF terminalRunLedgerState
        <3>5. (Intact' <=> Intact) /\ (Whole' <=> Whole)
            BY <2>1, <2>5 DEF Intact, Whole
        <3>6. ledger'.state = "kept" => ledger'.phase = "" /\ Whole'
            BY <2>5, <3>1, <3>3, <3>5 DEF Whole
        <3> QED
            BY <2>1, <2>2, <2>3, <3>1, <3>2, <3>4, <3>5, <3>6 DEF Keeps, At, Live
    <2> QED
        BY <2>1, <2>4, <2>5
<1>38. CASE startHostLockHeartbeat
    BY <1>38, heartbeatIs DEF Keeps, Intact, Whole, At, Live, Freed, Same, SameWay, SameSession,
        SameResult, Own
<1>39. CASE Crash
    BY <1>39, CrashIs DEF Keeps, Intact, Whole, At, Live, Freed, Asked, Past, Emptied,
        SameSession, SameResult
<1>40. CASE LateStart
    BY <1>40, OutsideIs DEF Outside, Keeps, Intact, Whole, At, Live, Freed, LateStart
<1>41. CASE LateStop
    BY <1>41, OutsideIs DEF Outside, Keeps, Intact, Whole, At, Live, Freed, LateStop
<1>42. CASE Cancel
    BY <1>42, OutsideIs DEF Outside, Keeps, Intact, Whole, At, Live, Freed, Cancel
<1>43. CASE Expire
    BY <1>43, OutsideIs DEF Outside, Keeps, Intact, Whole, At, Live, Freed, Asked, Past, Emptied, Expire
<1>44. CASE RivalTakes
    BY <1>44, OutsideIs DEF Outside, Keeps, Intact, Whole, At, Live, Freed, Asked, Past, Emptied,
        RivalTakes
<1>45. CASE RivalStarts
    BY <1>45, OutsideIs DEF Outside, Keeps, Intact, Whole, At, Live, Freed, Asked, Past, Emptied,
        RivalStarts
<1>46. CASE RivalLeaves
    BY <1>46, OutsideIs DEF Outside, Keeps, Intact, Whole, At, Live, Freed, Asked, Past, Emptied,
        RivalLeaves
<1>47. ASSUME NEW s \in Stops,
             stopRun(s) \/ sweepKeptSessions(s) \/ StopSteps(s) \/ CrashStop(s)
      PROVE  Keeps'
    <2>1. CASE stopRun(s) \/ sweepKeptSessions(s)
        BY <1>47, <2>1, askIs DEF Keeps, Intact, Whole, At, Live, Freed, Others
    <2>2. CASE prepareRunLedgerForStop(s)
        <3>1. /\ raced' = raced /\ UNCHANGED <<run, manifest, record, lock, mirror>>
              /\ record \in Records \cup {None}
              /\ \A t \in Stops : stop'[t].pc \in {"release"} \cup Freed => stop'[t] = stop[t]
            BY <1>47, <2>2, prepareIs DEF Moves, Others, Freed, Typed, TypeOK
        <3>2. CASE ledger' = ledger
            BY <3>1, <3>2 DEF Keeps, Intact, Whole, At, Live
        <3>3. CASE ledger.state = "submitted" /\ Reconciles
            <4>1. SUFFICES ASSUME ~raced PROVE Keeps'
                BY <3>1 DEF Keeps
            <4>2. ledger # None /\ ledger.phase = ""
                BY <1>47, <2>2, <3>3, <4>1, prepareIs DEF Keeps, Asked
            <4>3. /\ ledger' \in Ledgers /\ ledger' # None /\ ledger'.state \in {"kept", "cleanup-failed"}
                  /\ ledger'.state = "kept" =>
                       /\ ledger'.phase = ""
                       /\ record # None => record.status = "kept" /\ record.phase = ""
                  /\ (record # None => ledger'.phase = record.phase) /\ (record = None => ledger'.phase = "")
                BY <3>1, <3>3, NoneIs DEF Reconciles, Records
            <4>4. Whole' => Whole
                BY <3>1, <4>2 DEF Whole
            <4>5. Whole => Whole' /\ Intact
                BY <3>1, <3>3, <4>1, <4>2, <4>3 DEF Whole, Keeps
            <4> QED
                BY <3>1, <3>3, <4>1, <4>2, <4>3, <4>4, <4>5 DEF Keeps, Intact, Whole, At, Live
        <3> QED
            BY <1>47, <2>2, <3>2, <3>3, prepareIs
    <2>3. CASE stopKeptRun(s)
        BY <1>47, <2>3, stopKeptRunIs, NoneIs DEF Keeps, Intact, Whole, At, Live, Freed, Asked,
            Past, Emptied, Filed, Truthful, Known, Own, OwnSession, Cleaned, Ending, Deferring,
            Others, Moves, Refused, Reads, Recovers
    <2>4. CASE StopRetainedRun(s)
        BY <1>47, <2>4, StopRetainedRunIs DEF Keeps, Intact, Whole, At, Live, Freed, Asked, Past,
            Emptied, Moves, Others, Refused, Stops1, Sessions
    <2>5. CASE removeRemotePath(s)
        BY <1>47, <2>5, removeRemotePathIs DEF Keeps, Intact, Whole, At, Live, Freed, Asked, Past,
            Emptied, Moves, Others, Refused
    <2>6. CASE releaseHostSideLock(s)
        BY <1>47, <2>6, releaseHostSideIs DEF Keeps, Intact, Whole, At, Live, Freed, Asked, Past,
            Emptied, StopsDone, StopDone, Known, Own, OwnSession, Moves, Others, Refused
    <2>7. CASE removeRepoHostLockForRun(s)
        BY <1>47, <2>7, removeMirrorIs DEF Keeps, Intact, Whole, At, Live, Freed, Asked, Past,
            Emptied, StopsDone, StopDone, Known, Own, OwnSession, Moves, Others, Refused
    <2>8. CASE finishReleasedStopRun(s)
        BY <1>47, <2>8, finishReleasedStopRunIs, NoneIs, ZenonT(60) DEF Keeps, Intact, Whole, At, Live, Freed,
            Asked, Past, Emptied, StopsDone, StopDone, Known, Own, OwnSession, Advanced, Others,
            Refused
    <2>9. CASE cleanupStoppedRunState(s)
        BY <1>47, <2>9, cleanupStoppedIs DEF Keeps, Intact, Whole, At, Live, Freed, Asked, Past,
            Emptied, StopsDone, StopDone, Known, Own, OwnSession, Moves, Others, Refused
    <2>10. CASE updateRunLedgerAfterStop(s)
        BY <1>47, <2>10, updateIs, NoneIs DEF Keeps, Intact, Whole, At, Live, Freed, Asked, Past,
            Emptied, Rests, Others
    <2>11. CASE CrashStop(s)
        BY <1>47, <2>11, CrashStopIs DEF Keeps, Intact, Whole, At, Live, Freed, Asked, Past,
            Emptied, Rests, Others
    <2> QED
        BY <1>47, <2>1, <2>2, <2>3, <2>4, <2>5, <2>6, <2>7, <2>8, <2>9, <2>10, <2>11 DEF StopSteps
<1> QED
    BY <1>1, <1>2, <1>3, <1>4, <1>5, <1>6, <1>7, <1>8, <1>9, <1>10, <1>11, <1>12, <1>13, <1>14,
        <1>15, <1>16, <1>17, <1>18, <1>19, <1>20, <1>21, <1>22, <1>23, <1>24, <1>25, <1>26, <1>27,
        <1>28, <1>29, <1>30, <1>31, <1>32, <1>33, <1>34, <1>35, <1>36, <1>37, <1>38, <1>39, <1>40,
        <1>41, <1>42, <1>43, <1>44, <1>45, <1>46, <1>47 DEF Next, Controller, Setup, SessionSteps,
        Settlement, Cleanup, Deferred, Environment, Outside

\* The last record of the ledger is written after the lock and the session are gone.
LEMMA FinishedIsFreeStep ==
    ASSUME Typed, Account, Asked, Untouched, OwnSessionHeld, GivesBack, StopsFree, FinishedIsFree,
        Next
    PROVE  FinishedIsFree'
<1>1. CASE accept
    BY <1>1, acceptIs, SubmittedIs DEF FinishedIsFree, Own, OwnSession, FailsTo, SameWay,
        SameSession, SameResult
<1>2. CASE configureScenarioWorkspace
    BY <1>2, configureIs DEF FinishedIsFree, Own, OwnSession, FailsTo, Heard, SameWay,
        SameSession, SameResult
<1>3. CASE selectHostForRunValidated
    BY <1>3, selectIs DEF FinishedIsFree, Own, OwnSession, Untouched, Going, Setting, Using, Past,
        Emptied, Freed, FailsTo, SameWay, SameSession, SameResult
<1>4. CASE probeHostReadiness
    BY <1>4, probeIs DEF FinishedIsFree, Own, OwnSession, FailsTo, Heard, Same, SameWay,
        SameSession, SameResult
<1>5. CASE recordRunning
    BY <1>5, recordRunningIs, NoneIs DEF FinishedIsFree, Own, OwnSession, FailsTo, Recorded, Same,
        SameWay, SameSession, SameResult
<1>6. CASE markActive
    BY <1>6, markActiveIs DEF FinishedIsFree, Own, OwnSession, FailsTo, Marked, SameWay,
        SameSession, SameResult
<1>7. CASE StartFreshSession
    BY <1>7, StartFreshSessionIs DEF FinishedIsFree, Own, OwnSession, FailsTo, Heard, SameWay,
        SameResult
<1>8. CASE startSessionWithCancellation
    BY <1>8, startWithCancellationIs DEF FinishedIsFree, Own, OwnSession, FailsTo, Heard, SameWay,
        SameResult
<1>9. CASE renewHostLockNow
    BY <1>9, renewIs DEF FinishedIsFree, Own, OwnSession, FailsTo, SameWay, SameSession,
        SameResult
<1>10. CASE bindSession
    BY <1>10, bindIs, BoundIs, NoneIs DEF FinishedIsFree, Own, OwnSession, FailsTo, Rebound, Same,
        SameWay, SameSession, SameResult
<1>11. CASE stagePayloadWithCancellation
    BY <1>11, stageIs DEF FinishedIsFree, Own, OwnSession, FailsTo, Heard, Same, SameWay,
        SameSession, SameResult
<1>12. CASE runBrokerScenario
    BY <1>12, runBrokerScenarioIs DEF FinishedIsFree, Own, OwnSession, Same, SameWay, SameSession,
        SameResult
<1>13. CASE cancelBrokerScenario
    BY <1>13, cancelScenarioIs DEF FinishedIsFree, Own, OwnSession, Answered, SameResult, Heard,
        Calmed, Sessions
<1>14. CASE recoverCompletedScenarioAfterBrokerFailure
    BY <1>14, recoverIs DEF FinishedIsFree, Own, OwnSession, FailsTo, Heard, SameWay
<1>15. CASE settle
    BY <1>15, settleIs DEF FinishedIsFree, Own, OwnSession, Heard, SameWay, SameSession,
        SameResult
<1>16. CASE finishStopped
    BY <1>16, finishStoppedIs DEF FinishedIsFree, Own, OwnSession, Answered, SameResult, Heard,
        Calmed, Sessions, SameWay, SameSession
<1>17. CASE finishKept
    BY <1>17, finishKeptIs DEF FinishedIsFree, Own, OwnSession, Same, SameWay, SameSession,
        SameResult
<1>18. CASE finishFailedRun
    BY <1>18, finishFailedRunIs DEF FinishedIsFree, Own, OwnSession, SameWay, SameSession,
        SameResult
<1>19. CASE retainSession
    BY <1>19, retainSessionIs DEF FinishedIsFree, Own, OwnSession, Marked, Same, SameWay,
        SameSession, SameResult
<1>20. CASE RetainRun
    BY <1>20, RetainRunIs, NoneIs DEF FinishedIsFree, Own, OwnSession, Recorded, SameWay,
        SameSession, SameResult
<1>21. CASE syncEvidenceEvents
    BY <1>21, syncIs DEF FinishedIsFree, Own, OwnSession, Heard, SameWay, SameSession, SameResult
<1>22. CASE preserveStoppedRunForCleanup
    BY <1>22, preserveIs, NoneIs DEF FinishedIsFree, Own, OwnSession, Recorded, Same, SameWay,
        SameSession, SameResult
<1>23. CASE markKept
    BY <1>23, markKeptIs DEF FinishedIsFree, Own, OwnSession, Returned, Same, SameWay,
        SameSession, SameResult, Marked
<1>24. CASE completeCleanupAfterRecoveryFailure
    BY <1>24, completeCleanupIs, NoneIs DEF FinishedIsFree, Own, OwnSession, Returned, Same,
        SameWay, SameSession, SameResult, Advanced
<1>25. CASE CleanupRun
    BY <1>25, CleanupRunIs DEF FinishedIsFree, Own, OwnSession, Returned, Same, SameWay,
        SameSession, SameResult
<1>26. CASE finishStoppedRunCleanup
    BY <1>26, finishStoppedRunCleanupIs, NoneIs DEF FinishedIsFree, Own, OwnSession, Returned,
        Same, SameWay, SameSession, SameResult, Recorded, Advanced
<1>27. CASE releaseStoppedRun
    BY <1>27, releaseStoppedRunIs DEF FinishedIsFree, Own, OwnSession, Returned, Same, SameWay,
        SameSession, SameResult, Released
<1>28. CASE cleanupRunState
    BY <1>28, cleanupRunStateIs DEF FinishedIsFree, Own, OwnSession, Returned, Same, SameWay,
        SameSession, SameResult
<1>29. CASE finishEarlyFailure
    BY <1>29, earlyIs DEF FinishedIsFree, Own, OwnSession, Released, SameWay, SameSession
<1>30. CASE ensureAcceptedFailureEvidence
    BY <1>30, ensureIs DEF FinishedIsFree, Own, OwnSession, Same, SameWay, SameSession, SameResult
<1>31. CASE settleDeferred
    BY <1>31, deferredIs DEF FinishedIsFree, Own, OwnSession, SameSession, SameResult
<1>32. CASE stopAfterUnsettled
    BY <1>32, stopUnsettledIs DEF FinishedIsFree, Own, OwnSession, Answered, SameResult, Heard,
        Calmed, Sessions
<1>33. CASE stopAfterRunFailure
    BY <1>33, stopFailureIs DEF FinishedIsFree, Own, OwnSession, Answered, SameResult, Heard,
        Calmed, Sessions
<1>34. CASE cleanupUnacceptedOwnership
    BY <1>34, unacceptIs DEF FinishedIsFree, Own, OwnSession, SameWay, SameSession, SameResult
<1>35. CASE releaseHostLock
    BY <1>35, unlockIs DEF FinishedIsFree, Own, OwnSession, Released, SameWay, SameSession,
        SameResult
<1>36. CASE updateTerminalFailureEvidence
    BY <1>36, outcomeIs DEF FinishedIsFree, Own, OwnSession, Same, SameWay, SameSession,
        SameResult
<1>37. CASE finalizeRunLedger
    BY <1>37, finalizeIs, NoneIs DEF FinishedIsFree, Own, OwnSession, Account, At, Live, Going,
        Setting, Using, Stopping, Cleaned, Ending, Deferring, OwnSessionHeld, GivesBack,
        SameSession, SameResult, terminalRunLedgerState
<1>38. CASE startHostLockHeartbeat
    BY <1>38, heartbeatIs DEF FinishedIsFree, Own, OwnSession, Same, SameWay, SameSession,
        SameResult
<1>39. CASE Crash
    BY <1>39, CrashIs DEF FinishedIsFree, Own, OwnSession, SameSession, SameResult
<1>40. CASE LateStart
    BY <1>40, OutsideIs, QuietIs DEF Outside, FinishedIsFree, Own, OwnSession, LateStart, Fenced
<1>41. CASE LateStop
    BY <1>41, OutsideIs, QuietIs DEF Outside, FinishedIsFree, Own, OwnSession, LateStop, CanStop
<1>42. CASE Cancel
    BY <1>42, OutsideIs DEF Outside, FinishedIsFree, Own, OwnSession, Cancel
<1>43. CASE Expire
    BY <1>43, OutsideIs DEF Outside, FinishedIsFree, Own, OwnSession, Expire
<1>44. CASE RivalTakes
    BY <1>44, OutsideIs DEF Outside, FinishedIsFree, Own, OwnSession, RivalTakes
<1>45. CASE RivalStarts
    BY <1>45, OutsideIs DEF Outside, FinishedIsFree, Own, OwnSession, RivalStarts
<1>46. CASE RivalLeaves
    BY <1>46, OutsideIs, QuietIs DEF Outside, FinishedIsFree, Own, OwnSession, RivalLeaves
<1>47. ASSUME NEW s \in Stops,
             stopRun(s) \/ sweepKeptSessions(s) \/ StopSteps(s) \/ CrashStop(s)
      PROVE  FinishedIsFree'
    <2>1. CASE stopRun(s) \/ sweepKeptSessions(s)
        BY <1>47, <2>1, askIs DEF FinishedIsFree, Own, OwnSession, Others
    <2>2. CASE prepareRunLedgerForStop(s)
        BY <1>47, <2>2, prepareIs, NoneIs DEF FinishedIsFree, Own, OwnSession, Moves, Others,
            Reconciles, CanReconcile, Unfinished, requireStaleSubmittedRunController,
            repoHostLockUsesActiveRun
    <2>3. CASE stopKeptRun(s)
        BY <1>47, <2>3, stopKeptRunIs, NoneIs DEF FinishedIsFree, Own, OwnSession, Others, Moves,
            Refused, Reads, Recovers, Live, At
    <2>4. CASE StopRetainedRun(s)
        BY <1>47, <2>4, StopRetainedRunIs DEF FinishedIsFree, Own, OwnSession, Moves, Others,
            Refused, Stops1, Sessions
    <2>5. CASE removeRemotePath(s)
        BY <1>47, <2>5, removeRemotePathIs DEF FinishedIsFree, Own, OwnSession, Moves, Others,
            Refused
    <2>6. CASE releaseHostSideLock(s)
        BY <1>47, <2>6, releaseHostSideIs DEF FinishedIsFree, Own, OwnSession, Moves, Others,
            Refused
    <2>7. CASE removeRepoHostLockForRun(s)
        BY <1>47, <2>7, removeMirrorIs DEF FinishedIsFree, Own, OwnSession, Moves, Others, Refused
    <2>8. CASE finishReleasedStopRun(s)
        BY <1>47, <2>8, finishReleasedStopRunIs, NoneIs DEF FinishedIsFree, Own, OwnSession,
            Advanced, Others, Refused
    <2>9. CASE cleanupStoppedRunState(s)
        BY <1>47, <2>9, cleanupStoppedIs DEF FinishedIsFree, Own, OwnSession, Moves, Others,
            Refused
    <2>10. CASE updateRunLedgerAfterStop(s)
        BY <1>47, <2>10, updateIs, NoneIs DEF FinishedIsFree, Own, OwnSession, OwnSessionHeld,
            StopsFree, Going, Setting, Using, Rests, Others
    <2>11. CASE CrashStop(s)
        BY <1>47, <2>11, CrashStopIs DEF FinishedIsFree, Own, OwnSession, Rests, Others
    <2> QED
        BY <1>47, <2>1, <2>2, <2>3, <2>4, <2>5, <2>6, <2>7, <2>8, <2>9, <2>10, <2>11 DEF StopSteps
<1> QED
    BY <1>1, <1>2, <1>3, <1>4, <1>5, <1>6, <1>7, <1>8, <1>9, <1>10, <1>11, <1>12, <1>13, <1>14,
        <1>15, <1>16, <1>17, <1>18, <1>19, <1>20, <1>21, <1>22, <1>23, <1>24, <1>25, <1>26, <1>27,
        <1>28, <1>29, <1>30, <1>31, <1>32, <1>33, <1>34, <1>35, <1>36, <1>37, <1>38, <1>39, <1>40,
        <1>41, <1>42, <1>43, <1>44, <1>45, <1>46, <1>47 DEF Next, Controller, Setup, SessionSteps,
        Settlement, Cleanup, Deferred, Environment, Outside

-----------------------------------------------------------------------------
(* The inductive invariant and what follows from it.                       *)

IInv == /\ Core
        /\ OwnSessionHeld /\ Filed /\ StopsDone /\ GivesBack /\ StopsFree /\ Keeps /\ FinishedIsFree

\* A Run that was not submitted yet has no files, no lock and no session.
LEMMA IInvInit == ASSUME Init PROVE IInv
<1>1. Core
    BY CoreInit
<1>2. /\ run = newFreshRun /\ manifest = "none" /\ record = None /\ ledger = None /\ lock = "none"
      /\ stop = [s \in Stops |-> Idle]
    BY DEF Init
<1>3. run.pc = "new" /\ ~run.accepted /\ ~run.attempted /\ ~run.retained /\ run.session = "none"
    BY <1>2 DEF newFreshRun
<1>4. \A s \in Stops : stop[s].pc = "idle"
    BY <1>2, StoppersIs
<1>5. maya.id # "ours"
    BY <1>1, <1>3 DEF Core, Shown, Failure
<1>6. OwnSessionHeld /\ FinishedIsFree /\ GivesBack
    BY <1>2, <1>3, <1>5 DEF OwnSessionHeld, OwnSession, FinishedIsFree, GivesBack
<1>7. Filed
    BY <1>2, <1>3 DEF Filed, Known, Cleaned
<1>8. StopsDone /\ StopsFree
    BY <1>4 DEF StopsDone, StopDone, StopsFree, Past, Emptied, Freed
<1>9. Keeps
    BY <1>2, <1>3, <1>4 DEF Keeps, At, Freed
<1> QED
    BY <1>1, <1>6, <1>7, <1>8, <1>9 DEF IInv

\* Every step of the controller, of a stop and of what is outside keeps the invariant.
LEMMA IInvStep == ASSUME IInv, [Next]_vars PROVE IInv'
<1>1. /\ Core /\ Typed /\ Account /\ Failure /\ Policy /\ Asked /\ Untouched /\ Shown
      /\ OwnSessionHeld /\ Filed /\ StopsDone /\ GivesBack /\ StopsFree /\ Keeps /\ FinishedIsFree
    BY DEF IInv, Core
<1>2. Core'
    BY <1>1, CoreStep
<1>3. CASE Next
    <2>1. OwnSessionHeld' /\ FinishedIsFree'
        BY <1>1, <1>3, OwnSessionHeldStep, FinishedIsFreeStep
    <2>2. Filed' /\ Keeps'
        BY <1>1, <1>3, FiledStep, KeepsStep
    <2>3. StopsDone' /\ GivesBack' /\ StopsFree'
        BY <1>1, <1>3, StopsDoneStep, GivesBackStep, StopsFreeStep
    <2> QED
        BY <1>2, <2>1, <2>2, <2>3 DEF IInv
<1>4. CASE UNCHANGED vars
    <2>1. UNCHANGED <<run, manifest, record, ledger, lock, mirror, maya, workspace, stop, blind, raced>>
        BY <1>4 DEF vars, runVars, fileVars, hostVars, tallyVars
    <2>2. OwnSessionHeld' /\ FinishedIsFree'
        BY <1>1, <2>1 DEF OwnSessionHeld, FinishedIsFree, Own, OwnSession
    <2>3. Filed'
        BY <1>1, <2>1 DEF Filed, Truthful, Known, Own, OwnSession, Live, At
    <2>4. Keeps'
        BY <1>1, <2>1 DEF Keeps, Intact, Whole, Live, At
    <2>5. StopsDone'
        BY <1>1, <2>1 DEF StopsDone, StopDone, Known, Own, OwnSession, At
    <2>6. GivesBack' /\ StopsFree'
        BY <1>1, <2>1 DEF GivesBack, StopsFree, Own, Live, At
    <2> QED
        BY <1>2, <2>2, <2>3, <2>4, <2>5, <2>6 DEF IInv
<1> QED
    BY <1>3, <1>4

\* The inductive invariant holds in every state of every behaviour.
THEOREM Invariant == Spec => []IInv
<1>1. Init => IInv
    BY IInvInit
<1>2. IInv /\ [Next]_vars => IInv'
    BY IInvStep
<1> QED
    BY <1>1, <1>2, PTL DEF Spec

\* A live Maya UI Session of the Run is under the Run's own Host Lock: neither
\* the cleanup of a stopped Run, nor the release of an early failure, nor the
\* deferred release of fresh_run.go, nor a stop gives the lock back before the
\* session is down, whatever fails or is killed in between.
THEOREM SessionIsHeld == Spec => []OwnSessionHeld
<1>1. IInv => OwnSessionHeld
    BY DEF IInv
<1> QED
    BY <1>1, Invariant, PTL

\* A ledger record that says completed or failed, written by finalizeRunLedger
\* or by updateRunLedgerAfterStop, is the record of a Run that has given back its
\* lock and stopped its session.
THEOREM FinishedFree == Spec => []FinishedIsFree
<1>1. IInv => FinishedIsFree
    BY DEF IInv
<1> QED
    BY <1>1, Invariant, PTL

\* A ledger record that says kept, while nobody stops the Run, goes with the
\* kept lock, its mirror, the manifest and the kept Run Record of the session
\* (RetainRun, reconciliation by prepareRunLedgerForStop), or with a Run that had
\* no Run Record and marked no lock.
THEOREM KeptReal == Spec => []KeptIsReal
<1>1. ASSUME IInv PROVE KeptIsReal
    <2>1. Keeps
        BY <1>1 DEF IInv
    <2> QED
        BY <2>1 DEF Keeps, Intact, Whole, KeptIsReal
<1> QED
    BY <1>1, Invariant, PTL

\* What has gone when the state directory goes.
Last == manifest # "none" /\ manifest' = "none" /\ run.attempted =>
          (~Own /\ ~workspace /\ ~OwnSession) \/ blind \/ raced

\* Only the two cleanups and an unaccepted Run remove the state directory.
LEMMA LastStep == ASSUME IInv, Next PROVE Last
<1>1. /\ Typed /\ Account /\ Failure /\ Asked /\ Untouched /\ Shown
      /\ OwnSessionHeld /\ Filed /\ StopsDone
    BY DEF IInv, Core
<1>2. CASE cleanupRunState
    <2>1. run.pc = "remove"
        BY <1>1, <1>2, cleanupRunStateIs
    <2>2. ~raced => ~workspace /\ ~Own
        BY <1>1, <2>1 DEF Filed, Cleaned
    <2>3. run.settled /\ ~run.retained
        BY <1>1, <2>1 DEF Account, Stopping, Cleaned, Ending, Deferring
    <2> QED
        BY <1>1, <2>2, <2>3 DEF Shown, Last
<1>3. ASSUME NEW s \in Stops, cleanupStoppedRunState(s) PROVE Last
    <2>1. stop[s].pc = "remove"
        BY <1>1, <1>3, cleanupStoppedIs
    <2>2. ~raced => ~workspace /\ ~Own
        BY <1>1, <1>3, <2>1 DEF StopsDone, StopDone, Past, Emptied, Freed
    <2> QED
        BY <1>1, <2>2 DEF OwnSessionHeld, Last
<1>4. CASE cleanupUnacceptedOwnership
    BY <1>1, <1>4, unacceptIs DEF Account, Last
<1>5. CASE accept
    BY <1>1, <1>5, acceptIs DEF Last
<1>6. CASE bindSession
    BY <1>1, <1>6, bindIs, BoundIs DEF Last
<1>7. CASE manifest' = manifest
    BY <1>7 DEF Last
<1> QED
    BY <1>1, <1>2, <1>3, <1>4, <1>5, <1>6, <1>7, OutsideIs,
        configureIs, selectIs, probeIs, recordRunningIs, markActiveIs, StartFreshSessionIs,
            startWithCancellationIs, renewIs, stageIs, runBrokerScenarioIs, cancelScenarioIs,
            recoverIs, settleIs, finishStoppedIs, finishKeptIs, finishFailedRunIs,
            retainSessionIs, RetainRunIs, syncIs, preserveIs, markKeptIs, completeCleanupIs,
            CleanupRunIs, finishStoppedRunCleanupIs, releaseStoppedRunIs, earlyIs, ensureIs,
            deferredIs, stopUnsettledIs, stopFailureIs, unlockIs, outcomeIs, finalizeIs,
            heartbeatIs, CrashIs, askIs, prepareIs, stopKeptRunIs, StopRetainedRunIs,
            removeRemotePathIs, releaseHostSideIs, removeMirrorIs, finishReleasedStopRunIs,
            updateIs, CrashStopIs
        DEF Next, Controller, Setup, SessionSteps, Settlement, Cleanup, Deferred, Environment, Outside, StopSteps

\* The state directory is the last to go: cleanupRunState and
\* cleanupStoppedRunState remove it after the session, the remote workspace and
\* the lock, so that until then a stop can read what is left to do.
THEOREM StateLast == Spec => StateGoesLast
<1>1. IInv /\ [Next]_vars => [Last]_vars
    BY LastStep
<1> QED
    BY <1>1, Invariant, PTL DEF Spec, StateGoesLast, Last

=============================================================================
