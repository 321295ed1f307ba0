--------------------------- MODULE FreshRunEffects --------------------------
(***************************************************************************)
(* What every action of FreshRun does, field by field of the record it     *)
(* changes, for any number of stopping processes and any bound on faults   *)
(* and crashes: the lemmas ...Is, one for each action and for each         *)
(* operator the actions share.  The proofs that an action keeps an         *)
(* invariant use these lemmas and never the action's definition.  The      *)
(* parts of the inductive invariant that describe the controller, its lock *)
(* and its session come first, because some effects need them; that every  *)
(* step keeps them is shown in FreshRunProofs.                             *)
(***************************************************************************)
EXTENDS FreshRun, TLAPS

-----------------------------------------------------------------------------
(* The inductive invariant, as far as it is about the controller.          *)

\* The steps of the controller: before it has a lock to use, with the session,
\* after the session was stopped, and in the deferred block.
Setting == {"new", "configure", "select", "prepare", "record", "activate"}
Using == {"start", "bind", "stage", "execute", "broken", "settle", "finish", "retain"}
Going == Setting \cup Using \cup {"failed", "early"}
Cleaned == {"cleaned", "free", "freed", "remove"}
Stopping == {"sync", "preserve", "mark", "checkpoint", "clean"} \cup Cleaned
Deferring == {"evidence", "defer", "laststop", "failstop", "unaccept", "unlock", "outcome", "finalize"}
Ending == Deferring \cup {"ended"}
Pcs == Going \cup {"retained"} \cup Stopping \cup Ending

\* The steps of a stop that has got past its checks.
Freed == {"mirror", "released", "remove"}
Emptied == {"checkpoint", "release"} \cup Freed
Past == {"broker", "workspace"} \cup Emptied

Controllers ==
  [pc : Pcs, accepted : BOOLEAN, early : BOOLEAN, attempted : BOOLEAN,
   session : {"none", "blank", "ours"}, started : BOOLEAN, settled : BOOLEAN,
   stopTried : BOOLEAN, unsettled : BOOLEAN, retained : BOOLEAN, release : BOOLEAN,
   beat : {"off", "ok", "error", "spent"}, err : BOOLEAN, status : {"", "passed", "failed"},
   policy : {"stopped", "kept", "unresolved"},
   failure : {"none", "not-needed", "failed", "pending", "completed", "retained"},
   incomplete : BOOLEAN, cleaning : {"no", "settle", "defer"}, recovering : BOOLEAN,
   only : BOOLEAN, dead : BOOLEAN]
Stoppers == [pc : {"idle", "prepare", "read", "update"} \cup Past,
             rec : Records \cup {None}, err : BOOLEAN]

\* Every variable has its type, the records of the processes field by field.
Typed == /\ TypeOK
         /\ run \in Controllers /\ stop \in [Stops -> Stoppers]
         /\ blind \in BOOLEAN /\ raced \in BOOLEAN

\* What the controller says of its session at which step.
Account ==
  /\ run.accepted => ~At("new")
  /\ run.pc \in Going \ {"new", "failed", "early"} => run.accepted
  /\ run.attempted => run.accepted /\ run.pc \notin Setting \cup {"early", "start"}
  /\ run.started => run.attempted
  /\ run.started <=> run.session # "none"
  /\ run.settled => run.session = "ours" /\ (run.stopTried \/ run.retained)
  /\ run.retained => /\ run.settled /\ run.policy = "kept" /\ ~run.release
                     /\ run.pc \in Ending \ {"laststop", "failstop"}
  /\ run.pc \in Using \ {"start"} => run.started
  /\ run.pc \in Stopping => run.settled
  /\ run.early /\ run.attempted => run.pc \in Ending \cup Stopping
  /\ run.early /\ run.pc \in Going =>
       run.pc \in {"select", "prepare", "record", "activate", "failed", "early"}
  /\ run.pc \in {"retain", "retained"} => run.policy = "kept"
  /\ run.pc \in {"laststop", "failstop"} => run.started
  /\ At("laststop") => ~run.release /\ run.incomplete
  /\ At("failstop") => ~run.settled
  /\ At("settle") => run.status = "passed"
  /\ Live => ~run.dead

\* How a failure is accounted for.
Failure ==
  /\ run.policy = "kept" => run.started
  /\ run.pc \in Going \cup Stopping \cup {"retained"} => run.policy # "unresolved"
  /\ run.pc \in (Going \ {"early"}) \cup {"retained", "evidence"} => run.failure = "none"
  /\ run.pc \in {"select", "prepare", "record", "activate"} => run.early
  /\ run.pc \in Stopping =>
       \/ run.cleaning = "settle" /\ run.failure = "none" /\ run.policy = "stopped" /\ ~run.early
       \/ run.cleaning = "defer" /\ run.failure \in {"none", "pending"}
  /\ run.failure \in {"not-needed", "failed", "completed"} /\ run.pc \notin {"finalize", "ended"} =>
       ~run.attempted
  /\ run.failure = "retained" => run.pc \in {"finalize", "ended"}
  /\ run.pc \in {"failed", "evidence"} /\ run.accepted => ~run.early
  /\ At("defer") /\ run.failure = "none" /\ run.accepted => ~run.err
  /\ run.pc \in {"failed", "early"} => run.err
  /\ run.unsettled => run.attempted
  /\ run.policy = "unresolved" /\ run.attempted => run.pc \in {"finalize", "ended"}
  /\ run.release /\ run.pc \in {"unaccept", "unlock"} => ~run.started /\ ~run.unsettled

\* Only a Run that stops its session in any case can be cancelled.
Policy ==
  /\ cancelled # "never" => stopAfter = "always"
  /\ run.unsettled => stopAfter = "always"
  /\ run.policy = "kept" => stopAfter # "always"

\* Who stops the Run has found its ledger record, and then its Run Record.
Asked ==
  /\ run.accepted <=> ledger # None
  /\ \A s \in Stops : stop[s].pc # "idle" => ledger # None
  /\ \A s \in Stops : stop[s].pc \in Past => stop[s].rec # None

\* As long as the Run is going nobody can stop it.
Untouched ==
  run.pc \in Going =>
    /\ \A s \in Stops : stop[s].pc \notin Past
    /\ record # None => record.status = "running" /\ record.phase = ""
    /\ ledger # None => ledger.state = "submitted" /\ ledger.phase = ""
    /\ mirror # "kept" /\ lock # "kept"
    /\ run.attempted \/ run.pc \in Using \cup {"activate"} => record # None
    /\ record = None => bundle = "none"

\* Whose session the Host shows, and under which lock.
Shown ==
  /\ maya.id = "other" /\ maya.alive => lock = "other"
  /\ "start" \in inflight => run.unsettled /\ run.session = "none"
  /\ run.session = "none" /\ ~run.unsettled => maya.id # "ours"
  /\ run.settled /\ ~run.retained => ~OwnSession
  /\ run.pc \in {"new", "configure", "select"} => ~Own
  /\ run.attempted \/ At("start") => lock # "claimed"

-----------------------------------------------------------------------------
(* Records are described by their fields from here on.                     *)

SameWay(a, b) == /\ a.accepted = b.accepted /\ a.early = b.early
                 /\ a.cleaning = b.cleaning /\ a.dead = b.dead
SameSession(a, b) == /\ a.attempted = b.attempted /\ a.session = b.session
                     /\ a.started = b.started /\ a.settled = b.settled
                     /\ a.stopTried = b.stopTried /\ a.unsettled = b.unsettled
                     /\ a.retained = b.retained
SameResult(a, b) == a.status = b.status /\ a.policy = b.policy /\ a.failure = b.failure
Same(a, b) == /\ SameWay(a, b) /\ SameSession(a, b) /\ SameResult(a, b)
              /\ a.release = b.release /\ a.err = b.err /\ a.incomplete = b.incomplete

\* None is no Run Record and no ledger record.
LEMMA NoneIs == None \notin Records /\ None \notin Ledgers
    BY NoneAssumption

\* The bound on faults holds after a call.
LEMMA TryIs == ASSUME NEW ok, faults \in 0..MaxFaults, Try(ok) PROVE faults' \in 0..MaxFaults
<1>1. MaxFaults \in Nat
    BY BoundAssumption
<1>2. CASE ok
    BY <1>2 DEF Try
<1>3. CASE ~ok
    <2>1. faults' = faults + 1
        BY <1>3 DEF Try
    <2>2. faults < MaxFaults
        BY <1>3 DEF Try
    <2> QED
        BY <1>1, <2>1, <2>2
<1> QED
    BY <1>2, <1>3

\* A move of the controller changes nothing else of it.
LEMMA GoIs ==
    ASSUME NEW k \in Controllers, NEW p \in Pcs, Go(k, p)
    PROVE  run' \in Controllers /\ run'.pc = p /\ Same(run', k)
<1>1. run' \in Controllers
    BY DEF Go, Controllers
<1> QED
    BY <1>1 DEF Go, Same, SameWay, SameSession, SameResult, Controllers

\* A failure sets the error, and moves to finishEarlyFailure or finishFailedRun.
LEMMA FailIs ==
    ASSUME NEW k \in Controllers, Fail(k)
    PROVE  /\ run' \in Controllers /\ run'.pc = FailsTo(k) /\ run'.err
           /\ SameWay(run', k) /\ SameSession(run', k) /\ SameResult(run', k)
           /\ run'.release = k.release /\ run'.incomplete = k.incomplete
<1>1. PICK j : j = [k EXCEPT !.err = TRUE]
    OBVIOUS
<1>2. j \in Controllers
    BY <1>1 DEF Controllers
<1>3. /\ SameWay(j, k) /\ SameSession(j, k) /\ SameResult(j, k)
      /\ j.release = k.release /\ j.incomplete = k.incomplete /\ j.err
    BY <1>1 DEF SameWay, SameSession, SameResult, Controllers
<1>4. Go(j, FailsTo(k))
    BY <1>1 DEF Fail
<1>5. FailsTo(k) \in Pcs
    BY DEF FailsTo, Pcs, Going, Setting, Using
<1> QED
    BY <1>2, <1>3, <1>4, <1>5, GoIs DEF Same, SameWay, SameSession, SameResult

\* Giving up sets the error and moves to the deferred block.
LEMMA GiveUpIs ==
    ASSUME NEW k \in Controllers, GiveUp(k)
    PROVE  /\ run' \in Controllers /\ run'.pc = "evidence" /\ run'.err
           /\ SameWay(run', k) /\ SameSession(run', k) /\ SameResult(run', k)
           /\ run'.release = k.release /\ run'.incomplete = k.incomplete
<1>1. PICK j : j = [k EXCEPT !.err = TRUE]
    OBVIOUS
<1>2. j \in Controllers
    BY <1>1 DEF Controllers
<1>3. /\ SameWay(j, k) /\ SameSession(j, k) /\ SameResult(j, k)
      /\ j.release = k.release /\ j.incomplete = k.incomplete /\ j.err
    BY <1>1 DEF SameWay, SameSession, SameResult, Controllers
<1>4. Go(j, "evidence")
    BY <1>1 DEF GiveUp
<1>5. "evidence" \in Pcs
    BY DEF Pcs, Ending, Deferring
<1> QED
    BY <1>2, <1>3, <1>4, <1>5, GoIs DEF Same, SameWay, SameSession, SameResult

\* What the cleanup of a stopped Run returns: without the lock to release, and
\* an error that was or is now met stays; one met for the deferred block counts
\* as an incomplete cleanup.
Returned(ok) ==
  /\ run'.pc = (IF run.cleaning = "settle" THEN "evidence" ELSE "unaccept")
  /\ ~run'.release
  /\ (run.err \/ ~ok => run'.err) /\ (run.incomplete => run'.incomplete)
  /\ (~ok /\ run.cleaning = "defer" => run'.incomplete)
  /\ SameWay(run', run) /\ SameSession(run', run) /\ SameResult(run', run)

\* The cleanup returns to settle or to the deferred block as described above.
LEMMA ReturnsIs ==
    ASSUME run \in Controllers, NEW ok \in BOOLEAN, CleanupReturns(run, ok)
    PROVE  run' \in Controllers /\ Returned(ok)
<1>1. PICK e \in BOOLEAN : e = (~ok \/ run.only \/ run.recovering)
    OBVIOUS
<1>0. PICK f \in BOOLEAN : f = (e /\ run.cleaning = "defer")
    OBVIOUS
<1>2. PICK a \in BOOLEAN, b \in BOOLEAN : a = (run.err \/ e) /\ b = (run.incomplete \/ f)
    OBVIOUS
<1>3. a \in BOOLEAN /\ b \in BOOLEAN
    BY <1>2
<1>4. PICK j : j = [run EXCEPT !.err = a, !.release = FALSE, !.incomplete = b]
    OBVIOUS
<1>5. j \in Controllers
    BY <1>3, <1>4, ZenonT(60) DEF Controllers
<1>6. /\ SameWay(j, run) /\ SameSession(j, run) /\ SameResult(j, run) /\ ~j.release
      /\ j.err = a /\ j.incomplete = b
    BY <1>3, <1>4 DEF SameWay, SameSession, SameResult, Controllers
<1>7. PICK p : p = IF run.cleaning = "settle" THEN "evidence" ELSE "unaccept"
    OBVIOUS
<1>8. Go(j, p)
    BY <1>0, <1>1, <1>2, <1>4, <1>7 DEF CleanupReturns
<1>9. p \in Pcs
    BY <1>7 DEF Pcs, Ending, Deferring
<1>10. run' \in Controllers /\ run'.pc = p /\ Same(run', j)
    BY <1>5, <1>8, <1>9, GoIs
<1>11. (run.err \/ ~ok => a) /\ (run.incomplete => b) /\ (~ok /\ run.cleaning = "defer" => b)
    BY <1>0, <1>1, <1>2
<1> QED
    BY <1>6, <1>7, <1>10, <1>11 DEF Returned, Same, SameWay, SameSession, SameResult

\* A cancellation that was not possible does not arrive.
Heard == cancelled' \in {cancelled, "seen"} /\ (cancelled = "never" => cancelled' = "never")

\* Who notices a cancellation only turns an open one into one that was seen.
LEMMA SeenIs == ASSUME Seen PROVE Heard
    BY DEF Seen, Heard, Cancelling

Sessions == [id : {"none", "standing", "ours", "other"}, alive : BOOLEAN]

\* The session on the Host as it is, or our own one stopped.
Calmed == \/ maya' = maya
          \/ /\ run.session = "ours" /\ maya.id = "ours" /\ maya'.id = "ours" /\ ~maya'.alive
             /\ maya' \in Sessions

\* A session that is taken down keeps its name.
LEMMA NoSessionIs ==
    ASSUME maya \in Sessions
    PROVE  NoSession \in Sessions /\ NoSession.id = maya.id /\ ~NoSession.alive
    BY DEF NoSession, Sessions

\* What the controller j knows after it has tried to stop the session.
Answered(j) ==
  /\ j.stopTried /\ (run.settled => j.settled)
  /\ (j.settled => run.settled \/ (run.session = "ours" /\ maya'.id = "ours" /\ ~maya'.alive))
  /\ (run.unsettled => j.unsettled) /\ (j.unsettled => run.unsettled \/ cancelled # "never")
  /\ j.accepted = run.accepted /\ j.early = run.early /\ j.dead = run.dead
  /\ j.attempted = run.attempted /\ j.session = run.session /\ j.started = run.started
  /\ j.retained = run.retained /\ SameResult(j, run)

\* A stop of the session by its Run: no session but its own is stopped, and a
\* stop that counts as settled has stopped it.
LEMMA StopSessionIs ==
    ASSUME Typed, NEW renewed \in BOOLEAN, NEW ok \in BOOLEAN,
           NEW way \in {"done", "canceled", "timeout"},
           way = "done" \/ Cancelling \/ cancelled = "seen",
           stopSession(renewed, ok, way), NEW k, k = AfterStop(renewed, ok, way)
    PROVE  /\ k \in Controllers /\ faults' \in 0..MaxFaults /\ Heard /\ Calmed
           /\ inflight' \in {inflight, inflight \cup {"stop"}}
           /\ Answered(k) /\ k.cleaning = run.cleaning
           /\ k.release = run.release /\ k.incomplete = run.incomplete
           /\ (Stopped(renewed, ok, way) => k.settled /\ k.err = run.err)
           /\ (~Stopped(renewed, ok, way) => k.err)
<1>1. run \in Controllers /\ faults \in 0..MaxFaults /\ maya \in Sessions
    BY DEF Typed, TypeOK, Sessions
<1>2. PICK t : t = Settled(renewed, ok, way)
    OBVIOUS
<1>3. PICK d : d = Stopped(renewed, ok, way)
    OBVIOUS
<1>4. PICK u : u = (way = "timeout")
    OBVIOUS
<1>5. k = [run EXCEPT !.stopTried = TRUE, !.settled = @ \/ t, !.unsettled = @ \/ u, !.err = @ \/ ~d]
    BY <1>2, <1>3, <1>4 DEF AfterStop
<1>6. k \in Controllers
    BY <1>1, <1>5, ZenonT(60) DEF Controllers
<1>7. /\ k.pc = run.pc /\ k.stopTried /\ k.settled = (run.settled \/ t)
      /\ k.unsettled = (run.unsettled \/ u) /\ k.err = (run.err \/ ~d)
      /\ SameWay(k, run) /\ SameResult(k, run)
      /\ k.attempted = run.attempted /\ k.session = run.session /\ k.started = run.started
      /\ k.retained = run.retained /\ k.release = run.release /\ k.incomplete = run.incomplete
    BY <1>1, <1>5 DEF SameWay, SameResult, Controllers
<1>8. faults' \in 0..MaxFaults
    BY <1>1, TryIs DEF stopSession
<1>9. Heard /\ inflight' \in {inflight, inflight \cup {"stop"}}
    BY DEF stopSession, Heard, Cancelling
<1>10. /\ t => ok /\ CanStop(renewed) /\ way # "timeout"
       /\ d => t
    BY <1>2, <1>3 DEF Settled, Stopped
<1>11. Calmed
    BY <1>1, NoSessionIs DEF Calmed, stopSession, stopSessiondSession, CanStop
<1>12. t => run.session = "ours" /\ maya'.id = "ours" /\ ~maya'.alive
    BY <1>1, <1>10, NoSessionIs DEF stopSession, stopSessiondSession, CanStop
<1>13. u => cancelled # "never"
    BY <1>4 DEF Cancelling
<1>14. (run.settled => k.settled)
           /\ (k.settled => run.settled \/ (run.session = "ours" /\ maya'.id = "ours" /\ ~maya'.alive))
    BY <1>7, <1>12
<1>15. (run.unsettled => k.unsettled) /\ (k.unsettled => run.unsettled \/ cancelled # "never")
    BY <1>7, <1>13
<1>16. run.err \in BOOLEAN /\ d \in BOOLEAN /\ t \in BOOLEAN
    BY <1>1, <1>2, <1>3 DEF Controllers, Settled, Stopped
<1>17. Stopped(renewed, ok, way) => k.settled /\ k.err = run.err
    BY <1>3, <1>7, <1>10, <1>16
<1>18. ~Stopped(renewed, ok, way) => k.err
    BY <1>3, <1>7
<1> QED
    BY <1>6, <1>7, <1>8, <1>9, <1>11, <1>14, <1>15, <1>17, <1>18 DEF Answered, SameWay

\* A mark of the lock and its mirror with the Run's name.
Marked(state) == /\ lock' \in {lock, state} /\ mirror' \in {mirror, state}
                 /\ (~Own => lock' = lock) /\ (mirror' # mirror => lock' = state)

\* Marking touches the lock and its mirror with the given state only; a mark that
\* succeeds found the lock to be the Run's own.
LEMMA MarkIs ==
    ASSUME NEW state, NEW ok \in BOOLEAN, Mark(state, ok)
    PROVE  Marked(state) /\ (Marks(ok) => Own /\ lock' = state /\ mirror' = state)
    BY DEF Mark, Marks, Marked

\* host.release frees no lock but the Run's own.
Released == /\ lock' = lock \/ (Own /\ lock' = "none")
            /\ mirror' \in {mirror, "none"}

\* A release that succeeds leaves no lock of the Run, whatever it found.
LEMMA ReleaseIs ==
    ASSUME NEW ok \in BOOLEAN, release(ok)
    PROVE  /\ Released
           /\ (Releases(ok) => lock' \notin {"claimed", "active", "kept"})
    BY DEF release, Releases, Released, Own

\* The Run Record of a retention.
Recorded(status, phase) ==
  /\ record' \in Records /\ record'.status = status /\ record'.phase = phase
  /\ record'.session = IF run.session = "ours" THEN "ours" ELSE ""

\* The record that RecordRunning and RetainRun write has the identity of the session
\* the controller was given.
LEMMA RecordIs ==
    ASSUME NEW status \in {"running", "kept"},
           NEW phase \in {"", "session-stopped", "broker-cleaned", "host-lock-released"},
           record' = newRunRetentionRecord(status, phase)
    PROVE  Recorded(status, phase)
    BY DEF newRunRetentionRecord, Recorded, Records

\* A stop phase in the ledger.
Advanced(phase) == /\ ledger # None /\ ledger' \in Ledgers
                   /\ ledger'.state = "cleanup-failed" /\ ledger'.phase = phase

\* A checkpoint writes the phase into the ledger, or nothing at all.
LEMMA CheckpointIs ==
    ASSUME Typed, NEW ok \in BOOLEAN,
           NEW phase \in {"session-stopped", "broker-cleaned", "host-lock-released"},
           checkpointRunLedgerStopPhase(ok, phase)
    PROVE  IF CanCheckpoint(ok) THEN Advanced(phase) ELSE ledger' = ledger
<1>1. CASE CanCheckpoint(ok)
    <2>1. ledger \in Ledgers /\ bundle \in {"none", "passed", "failed"}
        BY <1>1 DEF CanCheckpoint, Typed, TypeOK
    <2>2. PICK st : st = IF ledger.status = "" THEN bundle ELSE ledger.status
        OBVIOUS
    <2>3. st \in {"", "passed", "failed"}
        BY <1>1, <2>1, <2>2 DEF CanCheckpoint, Ledgers
    <2>4. ledger' = [state |-> "cleanup-failed", phase |-> phase, status |-> st]
        BY <1>1, <2>2 DEF checkpointRunLedgerStopPhase, Checkpointed
    <2> QED
        BY <1>1, <2>3, <2>4 DEF CanCheckpoint, Advanced, Ledgers
<1>2. CASE ~CanCheckpoint(ok)
    BY <1>2 DEF checkpointRunLedgerStopPhase
<1> QED
    BY <1>1, <1>2

\* The Run Record with the identity the broker returned.
Rebound == /\ record' \in Records
           /\ record'.status = record.status /\ record'.phase = record.phase
           /\ record'.session = IF run.session = "ours" THEN "ours" ELSE ""

\* The lost-lease error of the heartbeat is there or not.
LEMMA BeatIs == BeatError \in BOOLEAN
    BY DEF BeatError

-----------------------------------------------------------------------------
(* What every action does.                                                 *)

\* A Run that is accepted has its ledger record.
LEMMA acceptIs ==
    ASSUME Typed, accept
    PROVE  /\ run' \in Controllers /\ faults' \in 0..MaxFaults
           /\ run.pc = "new" /\ manifest' = "plain"
           /\ UNCHANGED <<stopAfter, inflight, cancelled, record, bundle, lock, expired, mirror,
                          maya, workspace, stop, crashes, blind, raced>>
           /\ \/ /\ ledger' = Submitted /\ run'.pc = "configure" /\ run'.accepted
                 /\ run'.early = run.early /\ run'.cleaning = run.cleaning
                 /\ run'.dead = run.dead /\ SameSession(run', run) /\ SameResult(run', run)
                 /\ run'.release = run.release /\ run'.err = run.err
                 /\ run'.incomplete = run.incomplete
              \/ /\ ledger' = None /\ run'.pc = FailsTo(run') /\ run'.err /\ SameWay(run', run)
                 /\ SameSession(run', run) /\ SameResult(run', run)
                 /\ run'.release = run.release /\ run'.incomplete = run.incomplete
              \/ /\ ledger' = Submitted /\ run'.pc = FailsTo(run') /\ run'.accepted /\ run'.err
                 /\ run'.early = run.early /\ run'.cleaning = run.cleaning
                 /\ run'.dead = run.dead /\ SameSession(run', run) /\ SameResult(run', run)
                 /\ run'.release = run.release /\ run'.incomplete = run.incomplete
<1>1. run \in Controllers /\ faults \in 0..MaxFaults
    BY DEF Typed, TypeOK
<1>2. /\ run.pc = "new" /\ manifest' = "plain"
    BY DEF accept, At
<1>3. UNCHANGED <<stopAfter, inflight, cancelled, record, bundle, lock, expired, mirror, maya,
            workspace, stop, crashes, blind, raced>>
    BY DEF accept, fileVars, hostVars, tallyVars
<1>4. PICK ok \in BOOLEAN :
        /\ Try(ok)
        /\ \/ /\ ledger' = Submitted /\ Go([run EXCEPT !.accepted = TRUE], "configure")
           \/ /\ ledger' = None /\ Fail(run)
           \/ /\ ledger' = Submitted /\ Fail([run EXCEPT !.accepted = TRUE])
    BY DEF accept
<1>5. faults' \in 0..MaxFaults
    BY <1>1, <1>4, TryIs
<1>6. CASE /\ ledger' = Submitted /\ Go([run EXCEPT !.accepted = TRUE], "configure")
    <2>1. PICK j : j = [run EXCEPT !.accepted = TRUE]
        OBVIOUS
    <2>2. j \in Controllers
        BY <1>1, <2>1 DEF Controllers
    <2>3. /\ j.accepted /\ j.early = run.early /\ j.cleaning = run.cleaning /\ j.dead = run.dead
          /\ SameSession(j, run) /\ SameResult(j, run) /\ j.release = run.release
          /\ j.err = run.err /\ j.incomplete = run.incomplete
        BY <1>1, <2>1 DEF Controllers, Same, SameWay, SameSession, SameResult
    <2>4. Go(j, "configure")
        BY <2>1, <1>6
    <2>5. "configure" \in Pcs
        BY DEF Pcs, Going, Setting, Using, Stopping, Cleaned, Ending, Deferring
    <2> QED
        BY <1>1, <1>2, <1>3, <1>5, <1>6, <2>2, <2>3, <2>4, <2>5, GoIs DEF Same, SameWay,
            SameSession, SameResult
<1>7. CASE /\ ledger' = None /\ Fail(run)
    <2> QED
        BY <1>1, <1>2, <1>3, <1>5, <1>7, FailIs DEF Same, SameWay, SameSession, SameResult,
            FailsTo
<1>8. CASE /\ ledger' = Submitted /\ Fail([run EXCEPT !.accepted = TRUE])
    <2>1. PICK j : j = [run EXCEPT !.accepted = TRUE]
        OBVIOUS
    <2>2. j \in Controllers
        BY <1>1, <2>1 DEF Controllers
    <2>3. /\ j.accepted /\ j.early = run.early /\ j.cleaning = run.cleaning /\ j.dead = run.dead
          /\ SameSession(j, run) /\ SameResult(j, run) /\ j.release = run.release
          /\ j.err = run.err /\ j.incomplete = run.incomplete
        BY <1>1, <2>1 DEF Controllers, Same, SameWay, SameSession, SameResult
    <2>4. Fail(j)
        BY <2>1, <1>8
    <2> QED
        BY <1>1, <1>2, <1>3, <1>5, <1>8, <2>2, <2>3, <2>4, FailIs DEF Same, SameWay, SameSession,
            SameResult, FailsTo
<1> QED
    BY <1>4, <1>6, <1>7, <1>8

\* The workspace is configured, or the Run fails; either way nothing was claimed.
LEMMA configureIs ==
    ASSUME Typed, configureScenarioWorkspace
    PROVE  /\ run' \in Controllers /\ faults' \in 0..MaxFaults
           /\ run.pc = "configure" /\ Heard
           /\ UNCHANGED <<stopAfter, inflight, manifest, record, bundle, ledger, lock, expired,
                          mirror, maya, workspace, stop, crashes, blind, raced>>
           /\ \/ /\ run'.pc = FailsTo(run') /\ run'.err /\ SameWay(run', run)
                 /\ SameSession(run', run) /\ SameResult(run', run)
                 /\ run'.release = run.release /\ run'.incomplete = run.incomplete
              \/ /\ run'.pc = "select" /\ run'.early /\ run'.accepted = run.accepted
                 /\ run'.cleaning = run.cleaning /\ run'.dead = run.dead
                 /\ SameSession(run', run) /\ SameResult(run', run)
                 /\ run'.release = run.release /\ run'.err = run.err
                 /\ run'.incomplete = run.incomplete
              \/ /\ run'.pc = FailsTo(run') /\ run'.early /\ run'.err
                 /\ run'.accepted = run.accepted /\ run'.cleaning = run.cleaning
                 /\ run'.dead = run.dead /\ SameSession(run', run) /\ SameResult(run', run)
                 /\ run'.release = run.release /\ run'.incomplete = run.incomplete
<1>1. run \in Controllers /\ faults \in 0..MaxFaults
    BY DEF Typed, TypeOK
<1>2. /\ run.pc = "configure" /\ Heard
    BY SeenIs DEF configureScenarioWorkspace, At
<1>3. UNCHANGED <<stopAfter, inflight, manifest, record, bundle, ledger, lock, expired, mirror,
            maya, workspace, stop, crashes, blind, raced>>
    BY DEF configureScenarioWorkspace, fileVars, hostVars, tallyVars
<1>4. PICK ok \in BOOLEAN :
        /\ Try(ok)
        /\ \/ /\ Fail(run)
           \/ /\ Go([run EXCEPT !.early = TRUE], "select")
           \/ /\ Fail([run EXCEPT !.early = TRUE])
    BY DEF configureScenarioWorkspace
<1>5. faults' \in 0..MaxFaults
    BY <1>1, <1>4, TryIs
<1>6. CASE /\ Fail(run)
    <2> QED
        BY <1>1, <1>2, <1>3, <1>5, <1>6, FailIs DEF Same, SameWay, SameSession, SameResult,
            FailsTo
<1>7. CASE /\ Go([run EXCEPT !.early = TRUE], "select")
    <2>1. PICK j : j = [run EXCEPT !.early = TRUE]
        OBVIOUS
    <2>2. j \in Controllers
        BY <1>1, <2>1 DEF Controllers
    <2>3. /\ j.early /\ j.accepted = run.accepted /\ j.cleaning = run.cleaning
          /\ j.dead = run.dead /\ SameSession(j, run) /\ SameResult(j, run)
          /\ j.release = run.release /\ j.err = run.err /\ j.incomplete = run.incomplete
        BY <1>1, <2>1 DEF Controllers, Same, SameWay, SameSession, SameResult
    <2>4. Go(j, "select")
        BY <2>1, <1>7
    <2>5. "select" \in Pcs
        BY DEF Pcs, Going, Setting, Using, Stopping, Cleaned, Ending, Deferring
    <2> QED
        BY <1>1, <1>2, <1>3, <1>5, <1>7, <2>2, <2>3, <2>4, <2>5, GoIs DEF Same, SameWay,
            SameSession, SameResult
<1>8. CASE /\ Fail([run EXCEPT !.early = TRUE])
    <2>1. PICK j : j = [run EXCEPT !.early = TRUE]
        OBVIOUS
    <2>2. j \in Controllers
        BY <1>1, <2>1 DEF Controllers
    <2>3. /\ j.early /\ j.accepted = run.accepted /\ j.cleaning = run.cleaning
          /\ j.dead = run.dead /\ SameSession(j, run) /\ SameResult(j, run)
          /\ j.release = run.release /\ j.err = run.err /\ j.incomplete = run.incomplete
        BY <1>1, <2>1 DEF Controllers, Same, SameWay, SameSession, SameResult
    <2>4. Fail(j)
        BY <2>1, <1>8
    <2> QED
        BY <1>1, <1>2, <1>3, <1>5, <1>8, <2>2, <2>3, <2>4, FailIs DEF Same, SameWay, SameSession,
            SameResult, FailsTo
<1> QED
    BY <1>4, <1>6, <1>7, <1>8

\* A free lock is claimed with its mirror; a failed claim leaves the lock as it was or
\* says that its cleanup failed.
LEMMA selectIs ==
    ASSUME Typed, selectHostForRunValidated
    PROVE  /\ run' \in Controllers /\ faults' \in 0..MaxFaults
           /\ run.pc = "select" /\ expired' = FALSE
           /\ UNCHANGED <<stopAfter, inflight, cancelled, manifest, record, bundle, ledger, maya,
                          workspace, stop, crashes, blind, raced>>
           /\ \/ /\ lock = "none" /\ lock' = "claimed" /\ mirror' = "claimed"
                 /\ run'.pc = "prepare" /\ run'.release /\ SameWay(run', run)
                 /\ SameSession(run', run) /\ SameResult(run', run) /\ run'.err = run.err
                 /\ run'.incomplete = run.incomplete
              \/ /\ lock' = lock /\ mirror' = mirror /\ run'.pc = FailsTo(run')
                 /\ run'.failure = "not-needed" /\ run'.err /\ SameWay(run', run)
                 /\ SameSession(run', run) /\ run'.status = run.status
                 /\ run'.policy = run.policy /\ run'.release = run.release
                 /\ run'.incomplete = run.incomplete
              \/ /\ lock = "none" /\ lock' = "claimed" /\ mirror' \in {"none", "claimed"}
                 /\ run'.pc = FailsTo(run') /\ run'.failure = "failed" /\ run'.err
                 /\ SameWay(run', run) /\ SameSession(run', run) /\ run'.status = run.status
                 /\ run'.policy = run.policy /\ run'.release = run.release
                 /\ run'.incomplete = run.incomplete
<1>1. run \in Controllers /\ faults \in 0..MaxFaults
    BY DEF Typed, TypeOK
<1>2. /\ run.pc = "select" /\ expired' = FALSE
    BY DEF selectHostForRunValidated, At
<1>3. UNCHANGED <<stopAfter, inflight, cancelled, manifest, record, bundle, ledger, maya,
            workspace, stop, crashes, blind, raced>>
    BY DEF selectHostForRunValidated, fileVars, hostVars, tallyVars
<1>4. PICK ok \in BOOLEAN :
        /\ Try(ok)
        /\ \/ /\ lock = "none" /\ lock' = "claimed" /\ mirror' = "claimed"
              /\ Go([run EXCEPT !.release = TRUE, !.beat = "ok"], "prepare")
           \/ /\ lock' = lock /\ mirror' = mirror /\ Fail([run EXCEPT !.failure = "not-needed"])
           \/ /\ lock = "none" /\ lock' = "claimed" /\ mirror' \in {"none", "claimed"}
              /\ Fail([run EXCEPT !.failure = "failed"])
    BY DEF selectHostForRunValidated
<1>5. faults' \in 0..MaxFaults
    BY <1>1, <1>4, TryIs
<1>6. CASE /\ lock = "none" /\ lock' = "claimed" /\ mirror' = "claimed"
           /\ Go([run EXCEPT !.release = TRUE, !.beat = "ok"], "prepare")
    <2>1. PICK j : j = [run EXCEPT !.release = TRUE, !.beat = "ok"]
        OBVIOUS
    <2>2. j \in Controllers
        BY <1>1, <2>1 DEF Controllers
    <2>3. /\ j.release /\ SameWay(j, run) /\ SameSession(j, run) /\ SameResult(j, run)
          /\ j.err = run.err /\ j.incomplete = run.incomplete
        BY <1>1, <2>1 DEF Controllers, Same, SameWay, SameSession, SameResult
    <2>4. Go(j, "prepare")
        BY <2>1, <1>6
    <2>5. "prepare" \in Pcs
        BY DEF Pcs, Going, Setting, Using, Stopping, Cleaned, Ending, Deferring
    <2> QED
        BY <1>1, <1>2, <1>3, <1>5, <1>6, <2>2, <2>3, <2>4, <2>5, GoIs DEF Same, SameWay,
            SameSession, SameResult
<1>7. CASE /\ lock' = lock /\ mirror' = mirror /\ Fail([run EXCEPT !.failure = "not-needed"])
    <2>1. PICK j : j = [run EXCEPT !.failure = "not-needed"]
        OBVIOUS
    <2>2. j \in Controllers
        BY <1>1, <2>1 DEF Controllers
    <2>3. /\ j.failure = "not-needed" /\ SameWay(j, run) /\ SameSession(j, run)
          /\ j.status = run.status /\ j.policy = run.policy /\ j.release = run.release
          /\ j.err = run.err /\ j.incomplete = run.incomplete
        BY <1>1, <2>1 DEF Controllers, Same, SameWay, SameSession, SameResult
    <2>4. Fail(j)
        BY <2>1, <1>7
    <2> QED
        BY <1>1, <1>2, <1>3, <1>5, <1>7, <2>2, <2>3, <2>4, FailIs DEF Same, SameWay, SameSession,
            SameResult, FailsTo
<1>8. CASE /\ lock = "none" /\ lock' = "claimed" /\ mirror' \in {"none", "claimed"}
           /\ Fail([run EXCEPT !.failure = "failed"])
    <2>1. PICK j : j = [run EXCEPT !.failure = "failed"]
        OBVIOUS
    <2>2. j \in Controllers
        BY <1>1, <2>1 DEF Controllers
    <2>3. /\ j.failure = "failed" /\ SameWay(j, run) /\ SameSession(j, run)
          /\ j.status = run.status /\ j.policy = run.policy /\ j.release = run.release
          /\ j.err = run.err /\ j.incomplete = run.incomplete
        BY <1>1, <2>1 DEF Controllers, Same, SameWay, SameSession, SameResult
    <2>4. Fail(j)
        BY <2>1, <1>8
    <2> QED
        BY <1>1, <1>2, <1>3, <1>5, <1>8, <2>2, <2>3, <2>4, FailIs DEF Same, SameWay, SameSession,
            SameResult, FailsTo
<1> QED
    BY <1>4, <1>6, <1>7, <1>8

\* The probe of the Host changes nothing but the step.
LEMMA probeIs ==
    ASSUME Typed, probeHostReadiness
    PROVE  /\ run' \in Controllers /\ faults' \in 0..MaxFaults
           /\ run.pc = "prepare" /\ Heard
           /\ UNCHANGED <<stopAfter, inflight, manifest, record, bundle, ledger, lock, expired,
                          mirror, maya, workspace, stop, crashes, blind, raced>>
           /\ \/ /\ run'.pc = "record" /\ Same(run', run)
              \/ /\ run'.pc = FailsTo(run') /\ run'.err /\ SameWay(run', run)
                 /\ SameSession(run', run) /\ SameResult(run', run)
                 /\ run'.release = run.release /\ run'.incomplete = run.incomplete
<1>1. run \in Controllers /\ faults \in 0..MaxFaults
    BY DEF Typed, TypeOK
<1>2. /\ run.pc = "prepare" /\ Heard
    BY SeenIs DEF probeHostReadiness, At
<1>3. UNCHANGED <<stopAfter, inflight, manifest, record, bundle, ledger, lock, expired, mirror,
            maya, workspace, stop, crashes, blind, raced>>
    BY DEF probeHostReadiness, fileVars, hostVars, tallyVars
<1>4. PICK ok \in BOOLEAN :
        /\ Try(ok)
        /\ \/ /\ Go(run, "record")
           \/ /\ Fail(run)
    BY DEF probeHostReadiness
<1>5. faults' \in 0..MaxFaults
    BY <1>1, <1>4, TryIs
<1>6. CASE /\ Go(run, "record")
    <2>1. "record" \in Pcs
        BY DEF Pcs, Going, Setting, Using, Stopping, Cleaned, Ending, Deferring
    <2> QED
        BY <1>1, <1>2, <1>3, <1>5, <1>6, <2>1, GoIs DEF Same, SameWay, SameSession, SameResult
<1>7. CASE /\ Fail(run)
    <2> QED
        BY <1>1, <1>2, <1>3, <1>5, <1>7, FailIs DEF Same, SameWay, SameSession, SameResult,
            FailsTo
<1> QED
    BY <1>4, <1>6, <1>7

\* The running Run Record is written, or the Run fails.
LEMMA recordRunningIs ==
    ASSUME Typed, recordRunning
    PROVE  /\ run' \in Controllers /\ faults' \in 0..MaxFaults
           /\ run.pc = "record"
           /\ UNCHANGED <<stopAfter, inflight, cancelled, manifest, bundle, ledger, lock, expired,
                          mirror, maya, workspace, stop, crashes, blind, raced>>
           /\ \/ /\ Recorded("running", "") /\ run'.pc = "activate" /\ Same(run', run)
              \/ /\ record' = record /\ run'.pc = FailsTo(run') /\ run'.err
                 /\ SameWay(run', run) /\ SameSession(run', run) /\ SameResult(run', run)
                 /\ run'.release = run.release /\ run'.incomplete = run.incomplete
<1>1. run \in Controllers /\ faults \in 0..MaxFaults
    BY DEF Typed, TypeOK
<1>2. /\ run.pc = "record"
    BY DEF recordRunning, At
<1>3. UNCHANGED <<stopAfter, inflight, cancelled, manifest, bundle, ledger, lock, expired,
            mirror, maya, workspace, stop, crashes, blind, raced>>
    BY DEF recordRunning, fileVars, hostVars, tallyVars
<1>4. PICK ok \in BOOLEAN :
        /\ Try(ok)
        /\ \/ /\ record' = newRunRetentionRecord("running", "") /\ Go(run, "activate")
           \/ /\ record' = record /\ Fail(run)
    BY DEF recordRunning
<1>5. faults' \in 0..MaxFaults
    BY <1>1, <1>4, TryIs
<1>6. CASE /\ record' = newRunRetentionRecord("running", "") /\ Go(run, "activate")
    <2>1. "activate" \in Pcs
        BY DEF Pcs, Going, Setting, Using, Stopping, Cleaned, Ending, Deferring
    <2>2. /\ Recorded("running", "")
        BY <1>1, <1>2, <1>3, <1>6, RecordIs DEF Recorded
    <2> QED
        BY <1>1, <1>2, <1>3, <1>5, <1>6, <2>1, <2>2, GoIs DEF Same, SameWay, SameSession,
            SameResult
<1>7. CASE /\ record' = record /\ Fail(run)
    <2> QED
        BY <1>1, <1>2, <1>3, <1>5, <1>7, FailIs DEF Same, SameWay, SameSession, SameResult,
            FailsTo
<1> QED
    BY <1>4, <1>6, <1>7

\* The lock is marked active, which ends the early part, or the Run fails.
LEMMA markActiveIs ==
    ASSUME Typed, markActive
    PROVE  /\ run' \in Controllers /\ faults' \in 0..MaxFaults
           /\ run.pc = "activate" /\ expired' = FALSE
           /\ UNCHANGED <<stopAfter, inflight, cancelled, manifest, record, bundle, ledger, maya,
                          workspace, stop, crashes, blind, raced>>
           /\ \/ /\ Own /\ lock' = "active" /\ mirror' = "active" /\ run'.pc = "start"
                 /\ ~run'.early /\ run'.accepted = run.accepted /\ run'.cleaning = run.cleaning
                 /\ run'.dead = run.dead /\ SameSession(run', run) /\ SameResult(run', run)
                 /\ run'.release = run.release /\ run'.err = run.err
                 /\ run'.incomplete = run.incomplete
              \/ /\ Marked("active") /\ run'.pc = FailsTo(run') /\ run'.err
                 /\ SameWay(run', run) /\ SameSession(run', run) /\ SameResult(run', run)
                 /\ run'.release = run.release /\ run'.incomplete = run.incomplete
<1>1. run \in Controllers /\ faults \in 0..MaxFaults
    BY DEF Typed, TypeOK
<1>2. /\ run.pc = "activate" /\ expired' = FALSE
    BY DEF markActive, At
<1>3. UNCHANGED <<stopAfter, inflight, cancelled, manifest, record, bundle, ledger, maya,
            workspace, stop, crashes, blind, raced>>
    BY DEF markActive, fileVars, hostVars, tallyVars
<1>4. PICK ok \in BOOLEAN :
        /\ Try(ok)
        /\ \/ /\ Mark("active", ok) /\ Marks(ok) /\ Go([run EXCEPT !.early = FALSE], "start")
           \/ /\ Mark("active", ok) /\ Fail(run)
    BY DEF markActive
<1>5. faults' \in 0..MaxFaults
    BY <1>1, <1>4, TryIs
<1>6. CASE /\ Mark("active", ok) /\ Marks(ok) /\ Go([run EXCEPT !.early = FALSE], "start")
    <2>1. PICK j : j = [run EXCEPT !.early = FALSE]
        OBVIOUS
    <2>2. j \in Controllers
        BY <1>1, <2>1 DEF Controllers
    <2>3. /\ ~j.early /\ j.accepted = run.accepted /\ j.cleaning = run.cleaning
          /\ j.dead = run.dead /\ SameSession(j, run) /\ SameResult(j, run)
          /\ j.release = run.release /\ j.err = run.err /\ j.incomplete = run.incomplete
        BY <1>1, <2>1 DEF Controllers, Same, SameWay, SameSession, SameResult
    <2>4. Go(j, "start")
        BY <2>1, <1>6
    <2>5. "start" \in Pcs
        BY DEF Pcs, Going, Setting, Using, Stopping, Cleaned, Ending, Deferring
    <2>6. /\ Own /\ lock' = "active" /\ mirror' = "active"
        BY <1>1, <1>2, <1>3, <1>6, MarkIs
    <2> QED
        BY <1>1, <1>2, <1>3, <1>5, <1>6, <2>2, <2>3, <2>4, <2>5, <2>6, GoIs DEF Same, SameWay,
            SameSession, SameResult
<1>7. CASE /\ Mark("active", ok) /\ Fail(run)
    <2>1. /\ Marked("active")
        BY <1>1, <1>2, <1>3, <1>7, MarkIs
    <2> QED
        BY <1>1, <1>2, <1>3, <1>5, <1>7, <2>1, FailIs DEF Same, SameWay, SameSession, SameResult,
            FailsTo
<1> QED
    BY <1>4, <1>6, <1>7

\* A start shows our session, or leaves what was there stopped or as it was; an
\* identity without id comes with an error.
LEMMA StartFreshSessionIs ==
    ASSUME Typed, StartFreshSession
    PROVE  /\ run' \in Controllers /\ faults' \in 0..MaxFaults
           /\ run.pc = "start" /\ Own /\ Heard /\ expired' \in {expired, FALSE}
           /\ UNCHANGED <<stopAfter, inflight, manifest, record, ledger, lock, mirror, workspace,
                          stop, crashes, blind, raced>>
           /\ \/ /\ maya' = Ours /\ bundle' = bundle /\ run'.pc = "bind" /\ run'.session = "ours"
                 /\ run'.started
              \/ /\ maya' \in {NoSession, Ours} /\ bundle' = bundle /\ run'.pc = "bind"
                 /\ run'.session = "blank" /\ run'.started /\ run'.err
              \/ /\ maya' \in {maya, NoSession} /\ bundle' = "failed"
                 /\ run'.pc = FailsTo(run') /\ run'.session = "none" /\ ~run'.started /\ run'.err
           /\ run'.attempted /\ run'.settled = run.settled /\ run'.stopTried = run.stopTried
           /\ run'.unsettled = run.unsettled /\ run'.retained = run.retained
           /\ SameWay(run', run) /\ SameResult(run', run)
           /\ run'.release = run.release /\ run'.incomplete = run.incomplete
<1>1. run \in Controllers /\ faults \in 0..MaxFaults
    BY DEF Typed, TypeOK
<1>2. run.pc = "start" /\ Own /\ Heard /\ expired' \in {expired, FALSE}
    BY SeenIs DEF StartFreshSession, At, Renews, Renewed
<1>3. UNCHANGED <<stopAfter, inflight, manifest, record, ledger, lock, mirror, workspace,
                  stop, crashes, blind, raced>>
    BY DEF StartFreshSession, tallyVars
<1>4. PICK ok \in BOOLEAN : 
        /\ Try(ok)
        /\ \E result \in IF ok THEN {Started} ELSE StartFailures :
             LET k == [run EXCEPT !.attempted = TRUE, !.session = result.session,
                                  !.started = result.session # "none",
                                  !.release = @ /\ (result.ok => result.session = "ours"),
                                  !.err = ~result.ok \/ Cancelling]
             IN /\ maya' = result.maya
                /\ bundle' = IF k.started THEN bundle ELSE "failed"
                /\ IF k.started THEN Go(k, "bind") ELSE Fail(k)
    BY DEF StartFreshSession
<1>5. faults' \in 0..MaxFaults
    BY <1>1, <1>4, TryIs
<1>6. PICK result \in IF ok THEN {Started} ELSE StartFailures :
        LET k == [run EXCEPT !.attempted = TRUE, !.session = result.session,
                             !.started = result.session # "none",
                             !.release = @ /\ (result.ok => result.session = "ours"),
                             !.err = ~result.ok \/ Cancelling]
        IN /\ maya' = result.maya
           /\ bundle' = IF k.started THEN bundle ELSE "failed"
           /\ IF k.started THEN Go(k, "bind") ELSE Fail(k)
    BY <1>4
<1>7. PICK se \in {"none", "blank", "ours"} : se = result.session
    BY <1>6 DEF Started, StartFailures, stopInheritedSession, restartSessionBrokerTask,
                awaitFreshSession, probeMayaToolReadiness, Failed
<1>8. PICK e \in BOOLEAN : e = (~result.ok \/ Cancelling)
    OBVIOUS
<1>9. PICK st \in BOOLEAN : st = (result.session # "none")
    OBVIOUS
<1>10. PICK r \in BOOLEAN : r = (run.release /\ (result.ok => result.session = "ours"))
    OBVIOUS
<1>30. \/ result.session = "ours" /\ result.maya = Ours
       \/ result.session = "blank" /\ result.maya \in {NoSession, Ours} /\ ~result.ok
       \/ result.session = "none" /\ result.maya \in {maya, NoSession} /\ ~result.ok
    BY <1>6 DEF Started, StartFailures, stopInheritedSession, restartSessionBrokerTask,
                awaitFreshSession, probeMayaToolReadiness, Failed
<1>11. \/ se = "ours" /\ result.maya = Ours
       \/ se = "blank" /\ result.maya \in {NoSession, Ours} /\ e
       \/ se = "none" /\ result.maya \in {maya, NoSession} /\ e
    BY <1>7, <1>8, <1>30
<1>12. result.ok => result.session = "ours"
    BY DEF Started, StartFailures, stopInheritedSession, restartSessionBrokerTask,
           awaitFreshSession, probeMayaToolReadiness, Failed
<1>13. run.release \in BOOLEAN
    BY <1>1 DEF Controllers
<1>14. r = run.release
    BY <1>10, <1>12, <1>13
<1>15. PICK j : j = [run EXCEPT !.attempted = TRUE, !.session = se, !.started = st,
                                !.release = r, !.err = e]
    OBVIOUS
<1>16. j \in Controllers
    <2>1. se \in {"none", "blank", "ours"} /\ e \in BOOLEAN /\ st \in BOOLEAN /\ r \in BOOLEAN
        BY <1>7, <1>8, <1>9, <1>10
    <2>2. PICK i : i = [run EXCEPT !.attempted = TRUE, !.session = se, !.started = st]
        OBVIOUS
    <2>3. i \in Controllers
        BY <1>1, <2>1, <2>2 DEF Controllers
    <2>4. j = [i EXCEPT !.release = r, !.err = e]
        BY <1>15, <2>2
    <2> QED
        BY <2>1, <2>3, <2>4 DEF Controllers
<1>17. /\ j.attempted /\ j.session = se /\ j.started = st /\ j.err = e /\ j.release = run.release
       /\ j.settled = run.settled /\ j.stopTried = run.stopTried
       /\ j.unsettled = run.unsettled /\ j.retained = run.retained
       /\ SameWay(j, run) /\ SameResult(j, run) /\ j.incomplete = run.incomplete
    BY <1>1, <1>14, <1>15 DEF Controllers, SameWay, SameResult
<1>18. /\ bundle' = IF j.started THEN bundle ELSE "failed"
       /\ IF j.started THEN Go(j, "bind") ELSE Fail(j)
    BY <1>6, <1>7, <1>8, <1>9, <1>10, <1>15
<1>19. maya' = result.maya
    BY <1>6
<1>20. "bind" \in Pcs
    BY DEF Pcs, Going, Using
<1>21. /\ run' \in Controllers /\ run'.pc = IF j.started THEN "bind" ELSE FailsTo(j)
       /\ SameWay(run', j) /\ SameSession(run', j) /\ SameResult(run', j)
       /\ run'.release = j.release /\ run'.incomplete = j.incomplete
       /\ (j.err => run'.err)
    BY <1>16, <1>18, <1>20, GoIs, FailIs DEF Same
<1> QED
    BY <1>2, <1>3, <1>5, <1>7, <1>9, <1>11, <1>17, <1>18, <1>19, <1>21
       DEF SameWay, SameSession, SameResult, FailsTo

\* A start that is cancelled stays behind in flight; its session is unsettled.
LEMMA startWithCancellationIs ==
    ASSUME Typed, startSessionWithCancellation
    PROVE  /\ run' \in Controllers /\ faults' \in 0..MaxFaults
           /\ run.pc = "start" /\ Own /\ Heard /\ cancelled # "never"
           /\ expired' \in {expired, FALSE} /\ inflight' = inflight \cup {"start"}
           /\ UNCHANGED <<stopAfter, manifest, record, ledger, lock, mirror, maya, workspace,
                          stop, crashes, blind, raced>>
           /\ bundle' = "failed" /\ run'.pc = FailsTo(run') /\ run'.attempted /\ run'.unsettled
           /\ ~run'.release /\ run'.err /\ SameWay(run', run) /\ run'.session = run.session
           /\ run'.started = run.started /\ run'.settled = run.settled
           /\ run'.stopTried = run.stopTried /\ run'.retained = run.retained
           /\ SameResult(run', run) /\ run'.incomplete = run.incomplete
<1>1. run \in Controllers /\ faults \in 0..MaxFaults
    BY DEF Typed, TypeOK
<1>2. /\ run.pc = "start" /\ Own /\ Heard /\ cancelled # "never"
      /\ expired' \in {expired, FALSE} /\ inflight' = inflight \cup {"start"}
    BY SeenIs DEF startSessionWithCancellation, At, Renews, Renewed, Cancelling
<1>3. UNCHANGED <<stopAfter, manifest, record, ledger, lock, mirror, maya, workspace, stop,
            crashes, blind, raced>>
    BY DEF startSessionWithCancellation, fileVars, hostVars, tallyVars
<1>4. /\ bundle' = "failed"
      /\ Fail([run EXCEPT !.attempted = TRUE, !.unsettled = TRUE, !.release = FALSE])
    BY DEF startSessionWithCancellation
<1>5. faults' \in 0..MaxFaults
    BY <1>1, TryIs DEF startSessionWithCancellation
<1> QED
    <2>1. PICK j : j = [run EXCEPT !.attempted = TRUE, !.unsettled = TRUE, !.release = FALSE]
        OBVIOUS
    <2>2. j \in Controllers
        BY <1>1, <2>1 DEF Controllers
    <2>3. /\ j.attempted /\ j.unsettled /\ ~j.release /\ SameWay(j, run)
          /\ j.session = run.session /\ j.started = run.started /\ j.settled = run.settled
          /\ j.stopTried = run.stopTried /\ j.retained = run.retained /\ SameResult(j, run)
          /\ j.err = run.err /\ j.incomplete = run.incomplete
        BY <1>1, <2>1 DEF Controllers, Same, SameWay, SameSession, SameResult
    <2>4. Fail(j)
        BY <2>1, <1>4
    <2> QED
        BY <1>1, <1>2, <1>3, <1>5, <1>4, <2>2, <2>3, <2>4, FailIs DEF Same, SameWay, SameSession,
            SameResult, FailsTo

\* A lease that cannot be renewed fails the Run, or ends it when it was settling.
LEMMA renewIs ==
    ASSUME Typed, renewHostLockNow
    PROVE  /\ run' \in Controllers /\ faults' \in 0..MaxFaults
           /\ UNCHANGED <<stopAfter, inflight, cancelled, manifest, record, bundle, ledger, lock,
                          expired, mirror, maya, workspace, stop, crashes, blind, raced>>
           /\ \/ /\ run.pc \in {"start", "stage", "execute", "broken"}
                 /\ run'.pc = FailsTo(run') /\ run'.err /\ SameWay(run', run)
                 /\ SameSession(run', run) /\ SameResult(run', run)
                 /\ run'.release = run.release /\ run'.incomplete = run.incomplete
              \/ /\ run.pc \in {"settle", "finish"} /\ run'.pc = "evidence" /\ run'.err
                 /\ SameWay(run', run) /\ SameSession(run', run) /\ SameResult(run', run)
                 /\ run'.release = run.release /\ run'.incomplete = run.incomplete
<1>1. run \in Controllers /\ faults \in 0..MaxFaults
    BY DEF Typed, TypeOK
<1>2. UNCHANGED <<stopAfter, inflight, cancelled, manifest, record, bundle, ledger, lock,
            expired, mirror, maya, workspace, stop, crashes, blind, raced>>
    BY DEF renewHostLockNow, fileVars, hostVars, tallyVars
<1>3.
        \/ /\ run.pc \in {"start", "stage", "execute", "broken"} /\ Fail(run)
        \/ /\ run.pc \in {"settle", "finish"} /\ GiveUp(run)
    BY DEF renewHostLockNow, At
<1>4. faults' \in 0..MaxFaults
    BY <1>1, TryIs DEF renewHostLockNow
<1>5. CASE /\ run.pc \in {"start", "stage", "execute", "broken"} /\ Fail(run)
    <2> QED
        BY <1>1, <1>2, <1>4, <1>5, FailIs DEF Same, SameWay, SameSession, SameResult, FailsTo
<1>6. CASE /\ run.pc \in {"settle", "finish"} /\ GiveUp(run)
    <2> QED
        BY <1>1, <1>2, <1>4, <1>6, GiveUpIs DEF Same, SameWay, SameSession, SameResult
<1> QED
    BY <1>3, <1>5, <1>6

\* The identity of the session is bound to the manifest and to the Run Record; only a
\* Run that still has its lock goes on.
LEMMA bindIs ==
    ASSUME Typed, record \in Records, bindSession
    PROVE  /\ run' \in Controllers /\ faults' \in 0..MaxFaults
           /\ run.pc = "bind" /\ workspace' = TRUE /\ bundle' \in {bundle, "failed"}
           /\ (manifest' = manifest \/ (run.session = "ours" /\ manifest' = "session"))
           /\ (record' = record \/ Rebound)
           /\ UNCHANGED <<stopAfter, inflight, cancelled, ledger, lock, expired, mirror, maya,
                          stop, crashes, blind, raced>>
           /\ \/ /\ Own /\ ~run.err /\ run'.pc = "stage" /\ Same(run', run)
              \/ /\ run'.pc = FailsTo(run') /\ run'.err /\ SameWay(run', run)
                 /\ SameSession(run', run) /\ SameResult(run', run)
                 /\ run'.release = run.release /\ run'.incomplete = run.incomplete
<1>1. run \in Controllers /\ faults \in 0..MaxFaults
    BY DEF Typed, TypeOK
<1>2. /\ run.pc = "bind" /\ workspace' = TRUE /\ bundle' \in {bundle, "failed"}
      /\ (manifest' = manifest \/ (run.session = "ours" /\ manifest' = "session"))
      /\ (record' = record \/ Rebound)
    BY DEF bindSession, At, Rebound, Records
<1>3. UNCHANGED <<stopAfter, inflight, cancelled, ledger, lock, expired, mirror, maya, stop,
            crashes, blind, raced>>
    BY DEF bindSession, fileVars, hostVars, tallyVars
<1>4. PICK ok \in BOOLEAN :
        /\ Try(ok)
        /\ \/ /\ Own /\ ~run.err /\ Go(run, "stage")
           \/ /\ Fail(run)
    BY DEF bindSession
<1>5. faults' \in 0..MaxFaults
    BY <1>1, <1>4, TryIs
<1>6. CASE /\ Own /\ ~run.err /\ Go(run, "stage")
    <2>1. "stage" \in Pcs
        BY DEF Pcs, Going, Setting, Using, Stopping, Cleaned, Ending, Deferring
    <2> QED
        BY <1>1, <1>2, <1>3, <1>5, <1>6, <2>1, GoIs DEF Same, SameWay, SameSession, SameResult
<1>7. CASE /\ Fail(run)
    <2> QED
        BY <1>1, <1>2, <1>3, <1>5, <1>7, FailIs DEF Same, SameWay, SameSession, SameResult,
            FailsTo
<1> QED
    BY <1>4, <1>6, <1>7

\* The payload is staged, or the Run fails, its session unsettled when it was cancelled.
LEMMA stageIs ==
    ASSUME Typed, stagePayloadWithCancellation
    PROVE  /\ run' \in Controllers /\ faults' \in 0..MaxFaults
           /\ run.pc = "stage" /\ Own /\ Heard /\ workspace' = TRUE
           /\ expired' \in {expired, FALSE}
           /\ UNCHANGED <<stopAfter, inflight, manifest, record, bundle, ledger, lock, mirror,
                          maya, stop, crashes, blind, raced>>
           /\ \/ /\ run'.pc = "execute" /\ Same(run', run)
              \/ /\ run'.pc = FailsTo(run') /\ run'.err
                 /\ (run.unsettled => run'.unsettled) /\ (run'.unsettled => run.unsettled \/ cancelled # "never")
                 /\ SameWay(run', run) /\ run'.attempted = run.attempted
                 /\ run'.session = run.session /\ run'.started = run.started
                 /\ run'.settled = run.settled /\ run'.stopTried = run.stopTried
                 /\ run'.retained = run.retained /\ SameResult(run', run)
                 /\ run'.release = run.release /\ run'.incomplete = run.incomplete
<1>1. run \in Controllers /\ faults \in 0..MaxFaults
    BY DEF Typed, TypeOK
<1>2. /\ run.pc = "stage" /\ Own /\ Heard /\ workspace' = TRUE /\ expired' \in {expired, FALSE}
    BY SeenIs DEF stagePayloadWithCancellation, At, Renews, Renewed, runPostSessionOperation,
        StagePayload
<1>3. UNCHANGED <<stopAfter, inflight, manifest, record, bundle, ledger, lock, mirror, maya,
            stop, crashes, blind, raced>>
    BY DEF stagePayloadWithCancellation, fileVars, hostVars, tallyVars
<1>4. PICK ok \in BOOLEAN, u \in BOOLEAN :
        /\ Try(ok)
        /\ \/ /\ Go(run, "execute")
           \/ /\ (u => cancelled # "never")
              /\ (Go([run EXCEPT !.err = TRUE, !.unsettled = @ \/ u], FailsTo(run)))
    BY DEF stagePayloadWithCancellation, runPostSessionOperation, Cancelling
<1>5. faults' \in 0..MaxFaults
    BY <1>1, <1>4, TryIs
<1>6. CASE /\ Go(run, "execute")
    <2>1. "execute" \in Pcs
        BY DEF Pcs, Going, Setting, Using, Stopping, Cleaned, Ending, Deferring
    <2> QED
        BY <1>1, <1>2, <1>3, <1>5, <1>6, <2>1, GoIs DEF Same, SameWay, SameSession, SameResult
<1>7. CASE /\ (u => cancelled # "never")
           /\ (Go([run EXCEPT !.err = TRUE, !.unsettled = @ \/ u], FailsTo(run)))
    <2>1. PICK a \in BOOLEAN : a = (run.unsettled \/ u)
        OBVIOUS
    <2>2. a \in BOOLEAN
        BY <2>1
    <2>3. PICK j : j = [run EXCEPT !.err = TRUE, !.unsettled = a]
        OBVIOUS
    <2>4. j \in Controllers
        BY <1>1, <2>3, <2>2 DEF Controllers
    <2>5. /\ j.err /\ j.unsettled = a /\ SameWay(j, run) /\ j.attempted = run.attempted
          /\ j.session = run.session /\ j.started = run.started /\ j.settled = run.settled
          /\ j.stopTried = run.stopTried /\ j.retained = run.retained /\ SameResult(j, run)
          /\ j.release = run.release /\ j.incomplete = run.incomplete
        BY <1>1, <2>3, <2>2 DEF Controllers, Same, SameWay, SameSession, SameResult
    <2>6. /\ (run.unsettled => j.unsettled) /\ (j.unsettled => run.unsettled \/ cancelled # "never")
        BY <1>7, <2>5, <2>1
    <2>7. Go(j, FailsTo(run))
        BY <2>3, <1>7, <2>1
    <2>8. FailsTo(run) \in Pcs
        BY DEF FailsTo, Pcs, Going, Setting, Using, Stopping, Cleaned, Ending, Deferring
    <2> QED
        BY <1>1, <1>2, <1>3, <1>5, <1>7, <2>4, <2>5, <2>6, <2>7, <2>8, GoIs DEF Same, SameWay,
            SameSession, SameResult, FailsTo
<1> QED
    BY <1>4, <1>6, <1>7

\* The broker passes the scenario, or its answer is lost.
LEMMA runBrokerScenarioIs ==
    ASSUME Typed, runBrokerScenario
    PROVE  /\ run' \in Controllers /\ faults' \in 0..MaxFaults
           /\ run.pc = "execute" /\ Own /\ expired' \in {expired, FALSE}
           /\ UNCHANGED <<stopAfter, inflight, cancelled, manifest, record, bundle, ledger, lock,
                          mirror, maya, workspace, stop, crashes, blind, raced>>
           /\ \/ /\ run'.pc = "settle" /\ run'.status = "passed" /\ SameWay(run', run)
                 /\ SameSession(run', run) /\ run'.policy = run.policy
                 /\ run'.failure = run.failure /\ run'.release = run.release
                 /\ run'.err = run.err /\ run'.incomplete = run.incomplete
              \/ /\ run'.pc = "broken" /\ Same(run', run)
<1>1. run \in Controllers /\ faults \in 0..MaxFaults
    BY DEF Typed, TypeOK
<1>2. /\ run.pc = "execute" /\ Own /\ expired' \in {expired, FALSE}
    BY DEF runBrokerScenario, At, Renews, Renewed
<1>3. UNCHANGED <<stopAfter, inflight, cancelled, manifest, record, bundle, ledger, lock,
            mirror, maya, workspace, stop, crashes, blind, raced>>
    BY DEF runBrokerScenario, fileVars, hostVars, tallyVars
<1>4. PICK ok \in BOOLEAN :
        /\ Try(ok)
        /\ \/ /\ Go([run EXCEPT !.status = "passed"], "settle")
           \/ /\ Go(run, "broken")
    BY DEF runBrokerScenario
<1>5. faults' \in 0..MaxFaults
    BY <1>1, <1>4, TryIs
<1>6. CASE /\ Go([run EXCEPT !.status = "passed"], "settle")
    <2>1. PICK j : j = [run EXCEPT !.status = "passed"]
        OBVIOUS
    <2>2. j \in Controllers
        BY <1>1, <2>1 DEF Controllers
    <2>3. /\ j.status = "passed" /\ SameWay(j, run) /\ SameSession(j, run)
          /\ j.policy = run.policy /\ j.failure = run.failure /\ j.release = run.release
          /\ j.err = run.err /\ j.incomplete = run.incomplete
        BY <1>1, <2>1 DEF Controllers, Same, SameWay, SameSession, SameResult
    <2>4. Go(j, "settle")
        BY <2>1, <1>6
    <2>5. "settle" \in Pcs
        BY DEF Pcs, Going, Setting, Using, Stopping, Cleaned, Ending, Deferring
    <2> QED
        BY <1>1, <1>2, <1>3, <1>5, <1>6, <2>2, <2>3, <2>4, <2>5, GoIs DEF Same, SameWay,
            SameSession, SameResult
<1>7. CASE /\ Go(run, "broken")
    <2>1. "broken" \in Pcs
        BY DEF Pcs, Going, Setting, Using, Stopping, Cleaned, Ending, Deferring
    <2> QED
        BY <1>1, <1>2, <1>3, <1>5, <1>7, <2>1, GoIs DEF Same, SameWay, SameSession, SameResult
<1> QED
    BY <1>4, <1>6, <1>7

\* A scenario whose answer was lost has passed, by its preserved result, or has failed.
LEMMA recoverIs ==
    ASSUME Typed, recoverCompletedScenarioAfterBrokerFailure
    PROVE  /\ run' \in Controllers /\ faults' \in 0..MaxFaults
           /\ run.pc = "broken" /\ Own /\ Heard /\ bundle' \in {bundle, "failed"}
           /\ expired' \in {expired, FALSE}
           /\ UNCHANGED <<stopAfter, inflight, manifest, record, ledger, lock, mirror, maya,
                          workspace, stop, crashes, blind, raced>>
           /\ \/ /\ run'.pc = "settle" /\ run'.status = "passed"
                 /\ (run.unsettled => run'.unsettled) /\ (run'.unsettled => run.unsettled \/ cancelled # "never")
                 /\ SameWay(run', run) /\ run'.attempted = run.attempted
                 /\ run'.session = run.session /\ run'.started = run.started
                 /\ run'.settled = run.settled /\ run'.stopTried = run.stopTried
                 /\ run'.retained = run.retained /\ run'.policy = run.policy
                 /\ run'.failure = run.failure /\ run'.release = run.release
                 /\ run'.err = run.err /\ run'.incomplete = run.incomplete
              \/ /\ run'.pc = FailsTo(run') /\ run'.status = "failed"
                 /\ (run.unsettled => run'.unsettled) /\ (run'.unsettled => run.unsettled \/ cancelled # "never")
                 /\ run'.err /\ SameWay(run', run) /\ run'.attempted = run.attempted
                 /\ run'.session = run.session /\ run'.started = run.started
                 /\ run'.settled = run.settled /\ run'.stopTried = run.stopTried
                 /\ run'.retained = run.retained /\ run'.policy = run.policy
                 /\ run'.failure = run.failure /\ run'.release = run.release
                 /\ run'.incomplete = run.incomplete
<1>1. run \in Controllers /\ faults \in 0..MaxFaults
    BY DEF Typed, TypeOK
<1>2. /\ run.pc = "broken" /\ Own /\ Heard /\ bundle' \in {bundle, "failed"}
      /\ expired' \in {expired, FALSE}
    BY SeenIs DEF recoverCompletedScenarioAfterBrokerFailure, At, Renews, Renewed,
        writeEvidenceBundle
<1>3. UNCHANGED <<stopAfter, inflight, manifest, record, ledger, lock, mirror, maya, workspace,
            stop, crashes, blind, raced>>
    BY DEF recoverCompletedScenarioAfterBrokerFailure, fileVars, hostVars, tallyVars
<1>4. PICK ok \in BOOLEAN, u \in BOOLEAN :
        /\ Try(ok)
        /\ \/ /\ (u => cancelled # "never")
              /\ (Go([[run EXCEPT !.unsettled = @ \/ u] EXCEPT !.status = "passed"], "settle"))
           \/ /\ (u => cancelled # "never")
              /\ (Fail([[run EXCEPT !.unsettled = @ \/ u] EXCEPT !.status = "failed"]))
    BY DEF recoverCompletedScenarioAfterBrokerFailure, Cancelling
<1>5. faults' \in 0..MaxFaults
    BY <1>1, <1>4, TryIs
<1>6. CASE /\ (u => cancelled # "never")
           /\ (Go([[run EXCEPT !.unsettled = @ \/ u] EXCEPT !.status = "passed"], "settle"))
    <2>1. PICK a \in BOOLEAN : a = (run.unsettled \/ u)
        OBVIOUS
    <2>2. a \in BOOLEAN
        BY <2>1
    <2>3. PICK j : j = [run EXCEPT !.unsettled = a, !.status = "passed"]
        OBVIOUS
    <2>4. j \in Controllers
        BY <1>1, <2>3, <2>2 DEF Controllers
    <2>5. /\ j.status = "passed" /\ j.unsettled = a /\ SameWay(j, run)
          /\ j.attempted = run.attempted /\ j.session = run.session /\ j.started = run.started
          /\ j.settled = run.settled /\ j.stopTried = run.stopTried /\ j.retained = run.retained
          /\ j.policy = run.policy /\ j.failure = run.failure /\ j.release = run.release
          /\ j.err = run.err /\ j.incomplete = run.incomplete
        BY <1>1, <2>3, <2>2 DEF Controllers, Same, SameWay, SameSession, SameResult
    <2>6. /\ (run.unsettled => j.unsettled) /\ (j.unsettled => run.unsettled \/ cancelled # "never")
        BY <1>6, <2>5, <2>1
    <2>7. Go(j, "settle")
        BY <2>3, <1>6, <2>1
    <2>8. "settle" \in Pcs
        BY DEF Pcs, Going, Setting, Using, Stopping, Cleaned, Ending, Deferring
    <2> QED
        BY <1>1, <1>2, <1>3, <1>5, <1>6, <2>4, <2>5, <2>6, <2>7, <2>8, GoIs DEF Same, SameWay,
            SameSession, SameResult
<1>7. CASE /\ (u => cancelled # "never")
           /\ (Fail([[run EXCEPT !.unsettled = @ \/ u] EXCEPT !.status = "failed"]))
    <2>1. PICK a \in BOOLEAN : a = (run.unsettled \/ u)
        OBVIOUS
    <2>2. a \in BOOLEAN
        BY <2>1
    <2>3. PICK j : j = [run EXCEPT !.unsettled = a, !.status = "failed"]
        OBVIOUS
    <2>4. j \in Controllers
        BY <1>1, <2>3, <2>2 DEF Controllers
    <2>5. /\ j.status = "failed" /\ j.unsettled = a /\ SameWay(j, run)
          /\ j.attempted = run.attempted /\ j.session = run.session /\ j.started = run.started
          /\ j.settled = run.settled /\ j.stopTried = run.stopTried /\ j.retained = run.retained
          /\ j.policy = run.policy /\ j.failure = run.failure /\ j.release = run.release
          /\ j.err = run.err /\ j.incomplete = run.incomplete
        BY <1>1, <2>3, <2>2 DEF Controllers, Same, SameWay, SameSession, SameResult
    <2>6. /\ (run.unsettled => j.unsettled) /\ (j.unsettled => run.unsettled \/ cancelled # "never")
        BY <1>7, <2>5, <2>1
    <2>7. Fail(j)
        BY <2>3, <1>7, <2>1
    <2> QED
        BY <1>1, <1>2, <1>3, <1>5, <1>7, <2>4, <2>5, <2>6, <2>7, FailIs DEF Same, SameWay,
            SameSession, SameResult, FailsTo
<1> QED
    BY <1>4, <1>6, <1>7

\* A cancelled scenario tries to stop the session.
LEMMA cancelScenarioIs ==
    ASSUME Typed, cancelBrokerScenario
    PROVE  /\ run' \in Controllers /\ faults' \in 0..MaxFaults
           /\ run.pc = "execute" /\ Own /\ cancelled # "never" /\ expired' \in {expired, FALSE}
           /\ Heard /\ Calmed /\ inflight' \in {inflight, inflight \cup {"stop"}}
           /\ UNCHANGED <<stopAfter, manifest, record, bundle, ledger, lock, mirror, workspace,
                          stop, crashes, blind, raced>>
           /\ run'.pc = "broken" /\ Answered(run') /\ run'.cleaning = run.cleaning
           /\ run'.release = run.release /\ run'.err = run.err
           /\ run'.incomplete = run.incomplete
<1>1. run \in Controllers /\ faults \in 0..MaxFaults
    BY DEF Typed, TypeOK
<1>2. /\ run.pc = "execute" /\ Own /\ cancelled # "never" /\ expired' \in {expired, FALSE}
    BY DEF cancelBrokerScenario, At, Renews, Renewed, Cancelling
<1>3. UNCHANGED <<stopAfter, manifest, record, bundle, ledger, lock, mirror, workspace, stop,
            crashes, blind, raced>>
    BY DEF cancelBrokerScenario, fileVars, hostVars, tallyVars
<1>4. PICK renewed \in BOOLEAN, ok \in BOOLEAN, way \in {"canceled", "timeout"} :
        /\ stopSession(renewed, ok, way)
        /\ Go([AfterStop(renewed, ok, way) EXCEPT !.err = run.err], "broken")
    BY DEF cancelBrokerScenario
<1>5. PICK k : k = AfterStop(renewed, ok, way)
    OBVIOUS
<1>6. way \in {"done", "canceled", "timeout"} /\ (way = "done" \/ Cancelling \/ cancelled = "seen")
    BY <1>4 DEF cancelBrokerScenario
<1>7. /\ k \in Controllers /\ faults' \in 0..MaxFaults /\ Heard /\ Calmed
      /\ inflight' \in {inflight, inflight \cup {"stop"}}
      /\ Answered(k) /\ k.cleaning = run.cleaning
      /\ k.release = run.release /\ k.incomplete = run.incomplete
      /\ (Stopped(renewed, ok, way) => k.settled /\ k.err = run.err)
      /\ (~Stopped(renewed, ok, way) => k.err)
    BY <1>4, <1>5, <1>6, StopSessionIs
<1>8. k \in Controllers
    BY <1>7
<1> QED
    <2>1. Go([k EXCEPT !.err = run.err], "broken")
        BY <1>4, <1>5
    <2>2. PICK j : j = [k EXCEPT !.err = run.err]
        OBVIOUS
    <2>3. j \in Controllers
        BY <1>1, <1>8, <2>2 DEF Controllers
    <2>4. /\ j.err = run.err /\ j.cleaning = k.cleaning /\ j.release = k.release
          /\ j.incomplete = k.incomplete /\ j.accepted = k.accepted /\ j.early = k.early
          /\ j.dead = k.dead /\ SameSession(j, k) /\ SameResult(j, k)
        BY <1>8, <2>2 DEF Controllers, SameSession, SameResult
    <2>5. Answered(j)
        BY <1>7, <2>4 DEF Answered, SameSession, SameResult
    <2>6. Go(j, "broken")
        BY <2>1, <2>2
    <2>7. "broken" \in Pcs
        BY DEF Pcs, Going, Setting, Using, Stopping, Cleaned, Ending, Deferring
    <2>8. run' \in Controllers /\ run'.pc = "broken" /\ Same(run', j)
        BY <1>8, <2>3, <2>4, <2>5, <2>6, <2>7, GoIs
    <2>9. Answered(run')
        BY <1>7, <2>8, <2>5 DEF Answered, Same, SameWay, SameSession, SameResult
    <2> QED
        BY <1>2, <1>3, <1>7, <2>4, <2>8, <2>9 DEF Answered, Same, SameWay, SameSession, SameResult

\* The last stop of an unsettled session leaves the cleanup incomplete.
LEMMA stopUnsettledIs ==
    ASSUME Typed, stopAfterUnsettled
    PROVE  /\ run' \in Controllers /\ faults' \in 0..MaxFaults
           /\ run.pc = "laststop" /\ Heard /\ Calmed
           /\ inflight' \in {inflight, inflight \cup {"stop"}}
           /\ UNCHANGED <<stopAfter, manifest, record, bundle, ledger, lock, expired, mirror,
                          workspace, stop, crashes, blind, raced>>
           /\ run'.pc = "unaccept" /\ Answered(run') /\ run'.cleaning = run.cleaning
           /\ run'.release = run.release /\ (run.err => run'.err)
           /\ run'.incomplete = run.incomplete
<1>1. run \in Controllers /\ faults \in 0..MaxFaults
    BY DEF Typed, TypeOK
<1>2. /\ run.pc = "laststop"
    BY DEF stopAfterUnsettled, At
<1>3. UNCHANGED <<stopAfter, manifest, record, bundle, ledger, lock, expired, mirror, workspace,
            stop, crashes, blind, raced>>
    BY DEF stopAfterUnsettled, fileVars, hostVars, tallyVars
<1>4. PICK renewed \in BOOLEAN, ok \in BOOLEAN, way \in StopWays :
        /\ stopSession(renewed, ok, way)
        /\ Go(AfterStop(renewed, ok, way), "unaccept")
    BY DEF stopAfterUnsettled
<1>5. PICK k : k = AfterStop(renewed, ok, way)
    OBVIOUS
<1>6. way \in {"done", "canceled", "timeout"} /\ (way = "done" \/ Cancelling \/ cancelled = "seen")
    BY <1>4 DEF StopWays
<1>7. /\ k \in Controllers /\ faults' \in 0..MaxFaults /\ Heard /\ Calmed
      /\ inflight' \in {inflight, inflight \cup {"stop"}}
      /\ Answered(k) /\ k.cleaning = run.cleaning
      /\ k.release = run.release /\ k.incomplete = run.incomplete
      /\ (Stopped(renewed, ok, way) => k.settled /\ k.err = run.err)
      /\ (~Stopped(renewed, ok, way) => k.err)
    BY <1>4, <1>5, <1>6, StopSessionIs
<1>8. k \in Controllers
    BY <1>7
<1> QED
    <2>1. Go(k, "unaccept")
        BY <1>4, <1>5
    <2>2. "unaccept" \in Pcs
        BY DEF Pcs, Going, Setting, Using, Stopping, Cleaned, Ending, Deferring
    <2>3. run' \in Controllers /\ run'.pc = "unaccept" /\ Same(run', k)
        BY <1>8, <2>1, <2>2, GoIs
    <2>4. Answered(run')
        BY <1>7, <2>3 DEF Answered, Same, SameWay, SameSession, SameResult
    <2> QED
        BY <1>2, <1>3, <1>7, <2>3, <2>4 DEF Answered, Same, SameWay, SameSession, SameResult

\* The stop of a failed Run goes on to its cleanup when the session is down, and leaves
\* the lock and an incomplete cleanup when it is not.
LEMMA stopFailureIs ==
    ASSUME Typed, stopAfterRunFailure
    PROVE  /\ run' \in Controllers /\ faults' \in 0..MaxFaults
           /\ run.pc = "failstop" /\ Heard /\ Calmed
           /\ inflight' \in {inflight, inflight \cup {"stop"}}
           /\ UNCHANGED <<stopAfter, manifest, record, bundle, ledger, lock, expired, mirror,
                          workspace, stop, crashes, blind, raced>>
           /\ \/ /\ run'.pc = "sync" /\ Answered(run') /\ run'.settled
                 /\ run'.cleaning = "defer" /\ run'.release = run.release /\ run'.err = run.err
                 /\ run'.incomplete = run.incomplete
              \/ /\ run'.pc = "unaccept" /\ Answered(run') /\ run'.err
                 /\ run'.cleaning = run.cleaning /\ ~run'.release /\ run'.incomplete
<1>1. run \in Controllers /\ faults \in 0..MaxFaults
    BY DEF Typed, TypeOK
<1>2. /\ run.pc = "failstop"
    BY DEF stopAfterRunFailure, At
<1>3. UNCHANGED <<stopAfter, manifest, record, bundle, ledger, lock, expired, mirror, workspace,
            stop, crashes, blind, raced>>
    BY DEF stopAfterRunFailure, fileVars, hostVars, tallyVars
<1>4. PICK renewed \in BOOLEAN, ok \in BOOLEAN, way \in StopWays :
        /\ stopSession(renewed, ok, way)
        /\ IF Stopped(renewed, ok, way) THEN Go([AfterStop(renewed, ok, way) EXCEPT !.cleaning = "defer"], "sync")
           ELSE Go([AfterStop(renewed, ok, way) EXCEPT !.release = FALSE, !.incomplete = TRUE], "unaccept")
    BY DEF stopAfterRunFailure
<1>5. PICK k : k = AfterStop(renewed, ok, way)
    OBVIOUS
<1>6. way \in {"done", "canceled", "timeout"} /\ (way = "done" \/ Cancelling \/ cancelled = "seen")
    BY <1>4 DEF StopWays
<1>7. /\ k \in Controllers /\ faults' \in 0..MaxFaults /\ Heard /\ Calmed
      /\ inflight' \in {inflight, inflight \cup {"stop"}}
      /\ Answered(k) /\ k.cleaning = run.cleaning
      /\ k.release = run.release /\ k.incomplete = run.incomplete
      /\ (Stopped(renewed, ok, way) => k.settled /\ k.err = run.err)
      /\ (~Stopped(renewed, ok, way) => k.err)
    BY <1>4, <1>5, <1>6, StopSessionIs
<1>8. k \in Controllers
    BY <1>7
<1>9. CASE Stopped(renewed, ok, way)
    <2>1. Go([k EXCEPT !.cleaning = "defer"], "sync")
        BY <1>4, <1>5, <1>9
    <2>2. PICK j : j = [k EXCEPT !.cleaning = "defer"]
        OBVIOUS
    <2>3. j \in Controllers
        BY <1>8, <2>2 DEF Controllers
    <2>4. /\ j.cleaning = "defer" /\ j.release = k.release /\ j.err = k.err
          /\ j.incomplete = k.incomplete /\ j.accepted = k.accepted /\ j.early = k.early
          /\ j.dead = k.dead /\ SameSession(j, k) /\ SameResult(j, k)
        BY <1>8, <2>2 DEF Controllers, SameSession, SameResult
    <2>5. Answered(j)
        BY <1>7, <2>4 DEF Answered, SameSession, SameResult
    <2>6. Go(j, "sync")
        BY <2>1, <2>2
    <2>7. "sync" \in Pcs
        BY DEF Pcs, Going, Setting, Using, Stopping, Cleaned, Ending, Deferring
    <2>8. run' \in Controllers /\ run'.pc = "sync" /\ Same(run', j)
        BY <1>8, <2>3, <2>4, <2>5, <2>6, <2>7, GoIs
    <2>9. Answered(run')
        BY <1>7, <2>8, <2>5 DEF Answered, Same, SameWay, SameSession, SameResult
    <2> QED
        BY <1>2, <1>3, <1>7, <1>9, <2>4, <2>8, <2>9 DEF Answered, Same, SameWay, SameSession,
            SameResult
<1>10. CASE ~Stopped(renewed, ok, way)
    <2>1. Go([k EXCEPT !.release = FALSE, !.incomplete = TRUE], "unaccept")
        BY <1>4, <1>5, <1>10
    <2>2. PICK j : j = [k EXCEPT !.release = FALSE, !.incomplete = TRUE]
        OBVIOUS
    <2>3. j \in Controllers
        BY <1>8, <2>2 DEF Controllers
    <2>4. /\ ~j.release /\ j.incomplete /\ j.cleaning = k.cleaning /\ j.err = k.err
          /\ j.accepted = k.accepted /\ j.early = k.early /\ j.dead = k.dead
          /\ SameSession(j, k) /\ SameResult(j, k)
        BY <1>8, <2>2 DEF Controllers, SameSession, SameResult
    <2>5. Answered(j)
        BY <1>7, <2>4 DEF Answered, SameSession, SameResult
    <2>6. Go(j, "unaccept")
        BY <2>1, <2>2
    <2>7. "unaccept" \in Pcs
        BY DEF Pcs, Going, Setting, Using, Stopping, Cleaned, Ending, Deferring
    <2>8. run' \in Controllers /\ run'.pc = "unaccept" /\ Same(run', j)
        BY <1>8, <2>3, <2>4, <2>5, <2>6, <2>7, GoIs
    <2>9. Answered(run')
        BY <1>7, <2>8, <2>5 DEF Answered, Same, SameWay, SameSession, SameResult
    <2> QED
        BY <1>2, <1>3, <1>7, <1>10, <2>4, <2>8, <2>9 DEF Answered, Same, SameWay, SameSession,
            SameResult
<1> QED
    BY <1>9, <1>10

\* The result is written and the Stop Policy decided, or the Run ends with an error.
LEMMA settleIs ==
    ASSUME Typed, Account, settle
    PROVE  /\ run' \in Controllers /\ faults' \in 0..MaxFaults
           /\ run.pc = "settle" /\ Own /\ Heard /\ expired' \in {expired, FALSE}
           /\ UNCHANGED <<stopAfter, inflight, manifest, record, ledger, lock, mirror, maya,
                          workspace, stop, crashes, blind, raced>>
           /\ \/ /\ run'.pc = "finish" /\ run'.status \in {"passed", "failed"} /\ bundle' = run'.status
                 /\ run'.policy = "stopped" \/ (run'.policy = "kept" /\ stopAfter # "always")
                 /\ run'.failure = run.failure /\ SameWay(run', run) /\ SameSession(run', run)
                 /\ run'.release = run.release /\ run'.err = run.err
                 /\ run'.incomplete = run.incomplete
              \/ /\ run'.pc = "evidence" /\ run'.err /\ bundle' = bundle
                 /\ (run.unsettled => run'.unsettled)
                 /\ (run'.unsettled => run.unsettled \/ cancelled # "never")
                 /\ SameWay(run', run) /\ SameResult(run', run)
                 /\ run'.attempted = run.attempted /\ run'.session = run.session
                 /\ run'.started = run.started /\ run'.settled = run.settled
                 /\ run'.stopTried = run.stopTried /\ run'.retained = run.retained
                 /\ run'.release = run.release /\ run'.incomplete = run.incomplete
<1>1. run \in Controllers /\ faults \in 0..MaxFaults
    BY DEF Typed, TypeOK
<1>2. run.pc = "settle" /\ Own /\ Heard /\ expired' \in {expired, FALSE}
    BY SeenIs DEF settle, runPostSessionOperation, At, Renews, Renewed
<1>3. UNCHANGED <<stopAfter, inflight, manifest, record, ledger, lock, mirror, maya,
                  workspace, stop, crashes, blind, raced>>
    BY DEF settle, tallyVars
<1>4. PICK ok \in BOOLEAN, doc \in Documents, invalid \in BOOLEAN :
        /\ Try(ok)
        /\ LET done == ok /\ ~Cancelling
               status == validateRunOutputs(resultStatus(doc), invalid)
               k == [run EXCEPT !.status = status,
                                !.policy = IF shouldStopAfter(status) THEN "stopped" ELSE "kept"]
           IN /\ runPostSessionOperation(IF done THEN k ELSE run, ok, "finish", "evidence")
              /\ writeEvidenceBundle(done, status)
    BY DEF settle
<1>5. faults' \in 0..MaxFaults
    BY <1>1, <1>4, TryIs
<1>6. PICK status \in {"passed", "failed"} : status = validateRunOutputs(resultStatus(doc), invalid)
    BY <1>2, <1>4 DEF Account, At, validateRunOutputs, resultStatus, Documents
<1>7. PICK policy : policy = IF shouldStopAfter(status) THEN "stopped" ELSE "kept"
    OBVIOUS
<1>8. policy = "stopped" \/ (policy = "kept" /\ stopAfter # "always")
    BY <1>7 DEF shouldStopAfter
<1>9. PICK j : j = [run EXCEPT !.status = status, !.policy = policy]
    OBVIOUS
<1>10. j \in Controllers
    BY <1>1, <1>6, <1>8, <1>9 DEF Controllers
<1>11. /\ j.status = status /\ j.policy = policy /\ j.failure = run.failure
       /\ SameWay(j, run) /\ SameSession(j, run) /\ j.release = run.release /\ j.err = run.err
       /\ j.incomplete = run.incomplete
    BY <1>1, <1>6, <1>8, <1>9 DEF Controllers, SameWay, SameSession
<1>12. /\ runPostSessionOperation(IF ok /\ ~Cancelling THEN j ELSE run, ok, "finish", "evidence")
       /\ writeEvidenceBundle(ok /\ ~Cancelling, status)
    BY <1>4, <1>6, <1>7, <1>9
<1>13. CASE ok /\ ~Cancelling
    <2>1. Go(j, "finish") /\ bundle' = status
        BY <1>12, <1>13 DEF runPostSessionOperation, writeEvidenceBundle
    <2>2. "finish" \in Pcs
        BY DEF Pcs, Going, Using
    <2> QED
        BY <1>2, <1>3, <1>5, <1>6, <1>8, <1>10, <1>11, <2>1, <2>2, GoIs
           DEF Same, SameWay, SameSession, SameResult
<1>14. CASE ~(ok /\ ~Cancelling)
    <2>1. PICK u \in BOOLEAN : /\ (u => Cancelling) /\ bundle' = bundle
                               /\ Go([run EXCEPT !.err = TRUE, !.unsettled = @ \/ u], "evidence")
        BY <1>12, <1>14 DEF runPostSessionOperation, writeEvidenceBundle
    <2>2. PICK i : i = [run EXCEPT !.err = TRUE, !.unsettled = @ \/ u]
        OBVIOUS
    <2>3. i \in Controllers
        BY <1>1, <2>2 DEF Controllers
    <2>4. /\ i.err /\ (run.unsettled => i.unsettled) /\ (i.unsettled => run.unsettled \/ u)
          /\ SameWay(i, run) /\ SameResult(i, run)
          /\ i.attempted = run.attempted /\ i.session = run.session
          /\ i.started = run.started /\ i.settled = run.settled
          /\ i.stopTried = run.stopTried /\ i.retained = run.retained
          /\ i.release = run.release /\ i.incomplete = run.incomplete
        BY <1>1, <2>2 DEF Controllers, SameWay, SameResult
    <2>5. u => cancelled # "never"
        BY <2>1 DEF Cancelling
    <2>6. Go(i, "evidence") /\ bundle' = bundle
        BY <2>1, <2>2
    <2>7. "evidence" \in Pcs
        BY DEF Pcs, Ending, Deferring
    <2> QED
        BY <1>2, <1>3, <1>5, <2>3, <2>4, <2>5, <2>6, <2>7, GoIs
           DEF Same, SameWay, SameSession, SameResult
<1> QED
    BY <1>13, <1>14

\* The session of a Run that keeps nothing is stopped before its cleanup begins.
LEMMA finishStoppedIs ==
    ASSUME Typed, finishStopped
    PROVE  /\ run' \in Controllers /\ faults' \in 0..MaxFaults
           /\ run.pc = "finish" /\ run.policy = "stopped" /\ Own /\ Heard /\ Calmed
           /\ expired' \in {expired, FALSE} /\ inflight' \in {inflight, inflight \cup {"stop"}}
           /\ UNCHANGED <<stopAfter, manifest, record, bundle, ledger, lock, mirror, workspace,
                          stop, crashes, blind, raced>>
           /\ \/ /\ run'.pc = "evidence" /\ run'.err /\ maya' = maya
                 /\ SameWay(run', run) /\ SameSession(run', run) /\ SameResult(run', run)
                 /\ run'.release = run.release /\ run'.incomplete = run.incomplete
              \/ /\ run'.pc = "sync" /\ run'.cleaning = "settle" /\ run.settled /\ maya' = maya
                 /\ run'.accepted = run.accepted /\ run'.early = run.early /\ run'.dead = run.dead
                 /\ SameSession(run', run) /\ SameResult(run', run)
                 /\ run'.release = run.release /\ run'.incomplete = run.incomplete
                 /\ run'.err = run.err
              \/ /\ run'.pc = "sync" /\ run'.cleaning = "settle" /\ run'.settled
                 /\ Answered(run') /\ run'.release = run.release /\ run'.err = run.err
                 /\ run'.incomplete = run.incomplete
              \/ /\ run'.pc = "evidence" /\ run'.err /\ Answered(run')
                 /\ run'.cleaning = run.cleaning /\ run'.release = run.release
                 /\ run'.incomplete = run.incomplete
<1>1. run \in Controllers /\ faults \in 0..MaxFaults
    BY DEF Typed, TypeOK
<1>2. /\ run.pc = "finish" /\ run.policy = "stopped" /\ Own /\ expired' \in {expired, FALSE}
      /\ UNCHANGED <<stopAfter, manifest, record, bundle, ledger, lock, mirror, workspace,
                     stop, crashes, blind, raced>>
    BY DEF finishStopped, At, Renews, Renewed, fileVars, tallyVars
<1>3. "sync" \in Pcs
    BY DEF Pcs, Stopping
<1>4. CASE Cancelling \/ run.settled
    <2>1. /\ Heard /\ Calmed /\ maya' = maya /\ inflight' = inflight /\ faults' = faults
          /\ \/ GiveUp(run)
             \/ run.settled /\ Go([run EXCEPT !.cleaning = "settle"], "sync")
        BY <1>4, SeenIs DEF finishStopped, Calmed
    <2>2. PICK j : j = [run EXCEPT !.cleaning = "settle"]
        OBVIOUS
    <2>3. j \in Controllers
        BY <1>1, <2>2 DEF Controllers
    <2>4. /\ j.cleaning = "settle" /\ j.accepted = run.accepted /\ j.early = run.early
          /\ j.dead = run.dead /\ SameSession(j, run) /\ SameResult(j, run)
          /\ j.release = run.release /\ j.incomplete = run.incomplete /\ j.err = run.err
        BY <1>1, <2>2 DEF Controllers, SameSession, SameResult
    <2>5. CASE GiveUp(run)
        BY <1>1, <1>2, <2>1, <2>5, GiveUpIs
    <2>6. CASE run.settled /\ Go(j, "sync")
        BY <1>1, <1>2, <1>3, <2>1, <2>3, <2>4, <2>6, GoIs DEF Same, SameWay, SameSession, SameResult
    <2> QED
        BY <2>1, <2>2, <2>5, <2>6
<1>5. CASE ~(Cancelling \/ run.settled)
    <2>1. PICK renewed \in BOOLEAN, ok \in BOOLEAN, way \in StopWays :
            /\ stopSession(renewed, ok, way)
            /\ IF Stopped(renewed, ok, way)
               THEN Go([AfterStop(renewed, ok, way) EXCEPT !.cleaning = "settle"], "sync")
               ELSE GiveUp(AfterStop(renewed, ok, way))
        BY <1>5 DEF finishStopped
    <2>2. PICK k : k = AfterStop(renewed, ok, way)
        OBVIOUS
    <2>3. way \in {"done", "canceled", "timeout"} /\ (way = "done" \/ Cancelling \/ cancelled = "seen")
        BY <2>1 DEF StopWays
    <2>4. /\ k \in Controllers /\ faults' \in 0..MaxFaults /\ Heard /\ Calmed
          /\ inflight' \in {inflight, inflight \cup {"stop"}}
          /\ Answered(k) /\ k.cleaning = run.cleaning
          /\ k.release = run.release /\ k.incomplete = run.incomplete
          /\ (Stopped(renewed, ok, way) => k.settled /\ k.err = run.err)
          /\ (~Stopped(renewed, ok, way) => k.err)
        BY <2>1, <2>2, <2>3, StopSessionIs
    <2>5. k \in Controllers
        BY <2>4
    <2>6. CASE Stopped(renewed, ok, way)
        <3>1. Go([k EXCEPT !.cleaning = "settle"], "sync")
            BY <2>1, <2>2, <2>6
        <3>2. PICK j : j = [k EXCEPT !.cleaning = "settle"]
            OBVIOUS
        <3>3. j \in Controllers
            BY <2>5, <3>2 DEF Controllers
        <3>4. /\ j.cleaning = "settle" /\ j.accepted = k.accepted /\ j.early = k.early
              /\ j.dead = k.dead /\ SameSession(j, k) /\ SameResult(j, k)
              /\ j.release = k.release /\ j.incomplete = k.incomplete /\ j.err = k.err
            BY <2>5, <3>2 DEF Controllers, SameSession, SameResult
        <3>5. Answered(j)
            BY <2>4, <3>4 DEF Answered, SameSession, SameResult
        <3>6. Go(j, "sync")
            BY <3>1, <3>2
        <3>7. run' \in Controllers /\ run'.pc = "sync" /\ Same(run', j)
            BY <1>3, <3>3, <3>6, GoIs
        <3>8. Answered(run')
            BY <3>5, <3>7 DEF Answered, Same, SameWay, SameSession, SameResult
        <3>9. /\ run'.cleaning = "settle" /\ run'.settled /\ run'.release = run.release
              /\ run'.err = run.err /\ run'.incomplete = run.incomplete
            BY <2>4, <2>6, <3>4, <3>7 DEF Same, SameWay, SameSession
        <3> QED
            BY <1>2, <2>4, <3>7, <3>8, <3>9
    <2>7. CASE ~Stopped(renewed, ok, way)
        <3>1. GiveUp(k)
            BY <2>1, <2>2, <2>7
        <3> QED
            BY <1>2, <2>4, <2>7, <3>1, GiveUpIs DEF Answered, SameWay, SameSession, SameResult
    <2> QED
        BY <2>6, <2>7
<1> QED
    BY <1>4, <1>5

\* A Run whose policy keeps the session goes on to retain it.
LEMMA finishKeptIs ==
    ASSUME Typed, finishKept
    PROVE  /\ run' \in Controllers /\ faults' \in 0..MaxFaults
           /\ run.pc = "finish" /\ run.policy = "kept"
           /\ UNCHANGED <<stopAfter, inflight, cancelled, manifest, record, bundle, ledger, lock,
                          expired, mirror, maya, workspace, stop, crashes, blind, raced>>
           /\ \/ /\ run'.pc = "evidence" /\ run'.err /\ SameWay(run', run)
                 /\ SameSession(run', run) /\ SameResult(run', run)
                 /\ run'.release = run.release /\ run'.incomplete = run.incomplete
              \/ /\ run'.pc = "retain" /\ Same(run', run)
<1>1. run \in Controllers /\ faults \in 0..MaxFaults
    BY DEF Typed, TypeOK
<1>2. /\ run.pc = "finish" /\ run.policy = "kept"
    BY DEF finishKept, At
<1>3. UNCHANGED <<stopAfter, inflight, cancelled, manifest, record, bundle, ledger, lock,
            expired, mirror, maya, workspace, stop, crashes, blind, raced>>
    BY DEF finishKept, fileVars, hostVars, tallyVars
<1>4.
        \/ /\ GiveUp(run)
        \/ /\ Go(run, "retain")
    BY DEF finishKept, At
<1>5. faults' \in 0..MaxFaults
    BY <1>1, TryIs DEF finishKept
<1>6. CASE /\ GiveUp(run)
    <2> QED
        BY <1>1, <1>2, <1>3, <1>5, <1>6, GiveUpIs DEF Same, SameWay, SameSession, SameResult
<1>7. CASE /\ Go(run, "retain")
    <2>1. "retain" \in Pcs
        BY DEF Pcs, Going, Setting, Using, Stopping, Cleaned, Ending, Deferring
    <2> QED
        BY <1>1, <1>2, <1>3, <1>5, <1>7, <2>1, GoIs DEF Same, SameWay, SameSession, SameResult
<1> QED
    BY <1>4, <1>6, <1>7

\* A failed Run whose Stop Policy keeps the session goes on to retain it, with evidence
\* of the failure; every other one ends with its error.
LEMMA finishFailedRunIs ==
    ASSUME Typed, finishFailedRun
    PROVE  /\ run' \in Controllers /\ faults' \in 0..MaxFaults
           /\ run.pc = "failed" /\ bundle' \in {bundle, "failed"}
           /\ UNCHANGED <<stopAfter, inflight, cancelled, manifest, record, ledger, lock, expired,
                          mirror, maya, workspace, stop, crashes, blind, raced>>
           /\ \/ /\ bundle' = bundle /\ run'.pc = "evidence" /\ run'.err /\ SameWay(run', run)
                 /\ SameSession(run', run) /\ SameResult(run', run)
                 /\ run'.release = run.release /\ run'.incomplete = run.incomplete
              \/ /\ stopAfter # "always" /\ run.started /\ run'.pc = "retain"
                 /\ run'.policy = "kept" /\ SameWay(run', run) /\ SameSession(run', run)
                 /\ run'.failure = run.failure /\ run'.release = run.release
                 /\ run'.err = run.err /\ run'.incomplete = run.incomplete
              \/ /\ run'.pc = "evidence" /\ run'.err /\ SameWay(run', run)
                 /\ SameSession(run', run) /\ SameResult(run', run)
                 /\ run'.release = run.release /\ run'.incomplete = run.incomplete
<1>1. run \in Controllers /\ faults \in 0..MaxFaults
    BY DEF Typed, TypeOK
<1>2. /\ run.pc = "failed" /\ bundle' \in {bundle, "failed"}
    BY DEF finishFailedRun, At
<1>3. UNCHANGED <<stopAfter, inflight, cancelled, manifest, record, ledger, lock, expired,
            mirror, maya, workspace, stop, crashes, blind, raced>>
    BY DEF finishFailedRun, fileVars, hostVars, tallyVars
<1>4.
        \/ /\ bundle' = bundle /\ GiveUp(run)
        \/ /\ stopAfter # "always" /\ run.started
           /\ Go([run EXCEPT !.policy = "kept", !.status = IF @ = "" THEN "failed" ELSE @], "retain")
        \/ /\ GiveUp(run)
    BY DEF finishFailedRun, shouldStopAfter
<1>5. faults' \in 0..MaxFaults
    BY <1>1, TryIs DEF finishFailedRun
<1>6. CASE /\ bundle' = bundle /\ GiveUp(run)
    <2> QED
        BY <1>1, <1>2, <1>3, <1>5, <1>6, GiveUpIs DEF Same, SameWay, SameSession, SameResult
<1>7. CASE /\ stopAfter # "always" /\ run.started
           /\ Go([run EXCEPT !.policy = "kept", !.status = IF @ = "" THEN "failed" ELSE @], "retain")
    <2>1. PICK a \in {"", "passed", "failed"} : a = (IF run.status = "" THEN "failed" ELSE run.status)
        BY <1>1 DEF Controllers
    <2>2. a \in {"", "passed", "failed"}
        BY <2>1
    <2>3. PICK j : j = [run EXCEPT !.policy = "kept", !.status = a]
        OBVIOUS
    <2>4. j \in Controllers
        BY <1>1, <2>3, <2>2 DEF Controllers
    <2>5. /\ j.policy = "kept" /\ j.status = a /\ SameWay(j, run) /\ SameSession(j, run)
          /\ j.failure = run.failure /\ j.release = run.release /\ j.err = run.err
          /\ j.incomplete = run.incomplete
        BY <1>1, <2>3, <2>2 DEF Controllers, Same, SameWay, SameSession, SameResult
    <2>6. Go(j, "retain")
        BY <2>3, <1>7, <2>1
    <2>7. "retain" \in Pcs
        BY DEF Pcs, Going, Setting, Using, Stopping, Cleaned, Ending, Deferring
    <2> QED
        BY <1>1, <1>2, <1>3, <1>5, <1>7, <2>4, <2>5, <2>6, <2>7, GoIs DEF Same, SameWay,
            SameSession, SameResult
<1>8. CASE /\ GiveUp(run)
    <2> QED
        BY <1>1, <1>2, <1>3, <1>5, <1>8, GiveUpIs DEF Same, SameWay, SameSession, SameResult
<1> QED
    BY <1>4, <1>6, <1>7, <1>8

\* The session is retained when its lock and mirror were marked kept.
LEMMA retainSessionIs ==
    ASSUME Typed, retainSession
    PROVE  /\ run' \in Controllers /\ faults' \in 0..MaxFaults
           /\ run.pc = "retain"
           /\ UNCHANGED <<stopAfter, inflight, cancelled, manifest, record, bundle, ledger,
                          expired, maya, workspace, stop, crashes, blind, raced>>
           /\ \/ /\ lock' = lock /\ mirror' = mirror /\ run'.pc = "evidence" /\ run'.err
                 /\ SameWay(run', run) /\ SameSession(run', run) /\ SameResult(run', run)
                 /\ run'.release = run.release /\ run'.incomplete = run.incomplete
              \/ /\ Own /\ lock' = "kept" /\ mirror' = "kept" /\ run'.pc = "retained"
                 /\ Same(run', run)
              \/ /\ Marked("kept") /\ run'.pc = "evidence" /\ run'.err /\ SameWay(run', run)
                 /\ SameSession(run', run) /\ SameResult(run', run)
                 /\ run'.release = run.release /\ run'.incomplete = run.incomplete
<1>1. run \in Controllers /\ faults \in 0..MaxFaults
    BY DEF Typed, TypeOK
<1>2. /\ run.pc = "retain"
    BY DEF retainSession, At
<1>3. UNCHANGED <<stopAfter, inflight, cancelled, manifest, record, bundle, ledger, expired,
            maya, workspace, stop, crashes, blind, raced>>
    BY DEF retainSession, fileVars, hostVars, tallyVars
<1>4. PICK ok \in BOOLEAN :
        \/ /\ lock' = lock /\ mirror' = mirror /\ GiveUp([run EXCEPT !.beat = "spent"])
        \/ /\ Mark("kept", ok) /\ Marks(ok) /\ Go([run EXCEPT !.beat = "off"], "retained")
        \/ /\ Mark("kept", ok) /\ ~Marks(ok) /\ GiveUp([run EXCEPT !.beat = "off"])
    BY DEF retainSession, BeatError
<1>5. faults' \in 0..MaxFaults
    BY <1>1, TryIs DEF retainSession
<1>6. CASE /\ lock' = lock /\ mirror' = mirror /\ GiveUp([run EXCEPT !.beat = "spent"])
    <2>1. PICK j : j = [run EXCEPT !.beat = "spent"]
        OBVIOUS
    <2>2. j \in Controllers
        BY <1>1, <2>1 DEF Controllers
    <2>3. /\ Same(j, run)
        BY <1>1, <2>1 DEF Controllers, Same, SameWay, SameSession, SameResult
    <2>4. GiveUp(j)
        BY <2>1, <1>6
    <2> QED
        BY <1>1, <1>2, <1>3, <1>5, <1>6, <2>2, <2>3, <2>4, GiveUpIs DEF Same, SameWay,
            SameSession, SameResult
<1>7. CASE /\ Mark("kept", ok) /\ Marks(ok) /\ Go([run EXCEPT !.beat = "off"], "retained")
    <2>1. PICK j : j = [run EXCEPT !.beat = "off"]
        OBVIOUS
    <2>2. j \in Controllers
        BY <1>1, <2>1 DEF Controllers
    <2>3. /\ Same(j, run)
        BY <1>1, <2>1 DEF Controllers, Same, SameWay, SameSession, SameResult
    <2>4. Go(j, "retained")
        BY <2>1, <1>7
    <2>5. "retained" \in Pcs
        BY DEF Pcs, Going, Setting, Using, Stopping, Cleaned, Ending, Deferring
    <2>6. /\ Own /\ lock' = "kept" /\ mirror' = "kept"
        BY <1>1, <1>2, <1>3, <1>7, MarkIs
    <2> QED
        BY <1>1, <1>2, <1>3, <1>5, <1>7, <2>2, <2>3, <2>4, <2>5, <2>6, GoIs DEF Same, SameWay,
            SameSession, SameResult
<1>8. CASE /\ Mark("kept", ok) /\ ~Marks(ok) /\ GiveUp([run EXCEPT !.beat = "off"])
    <2>1. PICK j : j = [run EXCEPT !.beat = "off"]
        OBVIOUS
    <2>2. j \in Controllers
        BY <1>1, <2>1 DEF Controllers
    <2>3. /\ Same(j, run)
        BY <1>1, <2>1 DEF Controllers, Same, SameWay, SameSession, SameResult
    <2>4. GiveUp(j)
        BY <2>1, <1>8
    <2>5. /\ Marked("kept")
        BY <1>1, <1>2, <1>3, <1>8, MarkIs
    <2> QED
        BY <1>1, <1>2, <1>3, <1>5, <1>8, <2>2, <2>3, <2>4, <2>5, GiveUpIs DEF Same, SameWay,
            SameSession, SameResult
<1> QED
    BY <1>4, <1>6, <1>7, <1>8

\* The kept Run Record is written and the lock no longer released, or the Run ends
\* with an error.
LEMMA RetainRunIs ==
    ASSUME Typed, RetainRun
    PROVE  /\ run' \in Controllers /\ faults' \in 0..MaxFaults
           /\ run.pc = "retained"
           /\ UNCHANGED <<stopAfter, inflight, cancelled, manifest, bundle, ledger, lock, expired,
                          mirror, maya, workspace, stop, crashes, blind, raced>>
           /\ \/ /\ run.session = "ours" /\ OwnSession /\ Recorded("kept", "")
                 /\ run'.pc = "evidence" /\ run'.settled /\ run'.retained /\ ~run'.release
                 /\ (run.err => run'.err) /\ SameWay(run', run)
                 /\ run'.attempted = run.attempted /\ run'.session = run.session
                 /\ run'.started = run.started /\ run'.stopTried = run.stopTried
                 /\ run'.unsettled = run.unsettled /\ SameResult(run', run)
                 /\ run'.incomplete = run.incomplete
              \/ /\ record' = record /\ run'.pc = "evidence" /\ run'.err /\ SameWay(run', run)
                 /\ SameSession(run', run) /\ SameResult(run', run)
                 /\ run'.release = run.release /\ run'.incomplete = run.incomplete
<1>1. run \in Controllers /\ faults \in 0..MaxFaults
    BY DEF Typed, TypeOK
<1>2. /\ run.pc = "retained"
    BY DEF RetainRun, At
<1>3. UNCHANGED <<stopAfter, inflight, cancelled, manifest, bundle, ledger, lock, expired,
            mirror, maya, workspace, stop, crashes, blind, raced>>
    BY DEF RetainRun, fileVars, hostVars, tallyVars
<1>4. PICK ok \in BOOLEAN, synced \in BOOLEAN :
        /\ Try(ok /\ synced)
        /\ \/ /\ run.session = "ours" /\ OwnSession
              /\ record' = newRunRetentionRecord("kept", "")
              /\ (Go([run EXCEPT !.settled = TRUE, !.retained = TRUE, !.release = FALSE, !.err = @ \/ ~synced], "evidence"))
           \/ /\ record' = record /\ GiveUp(run)
    BY DEF RetainRun
<1>5. faults' \in 0..MaxFaults
    BY <1>1, <1>4, TryIs
<1>6. CASE /\ run.session = "ours" /\ OwnSession /\ record' = newRunRetentionRecord("kept", "")
           /\ (Go([run EXCEPT !.settled = TRUE, !.retained = TRUE, !.release = FALSE, !.err = @ \/ ~synced], "evidence"))
    <2>1. PICK a \in BOOLEAN : a = (run.err \/ ~synced)
        OBVIOUS
    <2>2. a \in BOOLEAN
        BY <2>1
    <2>3. PICK j : j = [run EXCEPT !.settled = TRUE, !.retained = TRUE, !.release = FALSE, !.err
                              = a]
        OBVIOUS
    <2>4. j \in Controllers
        BY <1>1, <2>3, <2>2 DEF Controllers
    <2>5. /\ j.settled /\ j.retained /\ ~j.release /\ j.err = a /\ SameWay(j, run)
          /\ j.attempted = run.attempted /\ j.session = run.session /\ j.started = run.started
          /\ j.stopTried = run.stopTried /\ j.unsettled = run.unsettled /\ SameResult(j, run)
          /\ j.incomplete = run.incomplete
        BY <1>1, <2>3, <2>2 DEF Controllers, Same, SameWay, SameSession, SameResult
    <2>6. /\ (run.err => j.err)
        BY <1>6, <2>5, <2>1
    <2>7. Go(j, "evidence")
        BY <2>3, <1>6, <2>1
    <2>8. "evidence" \in Pcs
        BY DEF Pcs, Going, Setting, Using, Stopping, Cleaned, Ending, Deferring
    <2>9. /\ run.session = "ours" /\ OwnSession /\ Recorded("kept", "")
        BY <1>1, <1>2, <1>3, <1>6, RecordIs
    <2> QED
        BY <1>1, <1>2, <1>3, <1>5, <1>6, <2>4, <2>5, <2>6, <2>7, <2>8, <2>9, GoIs DEF Same,
            SameWay, SameSession, SameResult
<1>7. CASE /\ record' = record /\ GiveUp(run)
    <2> QED
        BY <1>1, <1>2, <1>3, <1>5, <1>7, GiveUpIs DEF Same, SameWay, SameSession, SameResult
<1> QED
    BY <1>4, <1>6, <1>7

\* The Run's files are synced; a failure matters to a Run that was settling.
LEMMA syncIs ==
    ASSUME Typed, syncEvidenceEvents
    PROVE  /\ run' \in Controllers /\ faults' \in 0..MaxFaults
           /\ run.pc = "sync" /\ Heard
           /\ UNCHANGED <<stopAfter, inflight, manifest, record, bundle, ledger, lock, expired,
                          mirror, maya, workspace, stop, crashes, blind, raced>>
           /\ \/ /\ run.cleaning = "settle" /\ run'.pc = "evidence" /\ run'.err
                 /\ SameWay(run', run) /\ SameSession(run', run) /\ SameResult(run', run)
                 /\ run'.release = run.release /\ run'.incomplete = run.incomplete
              \/ /\ run'.pc = "preserve" /\ (run.err => run'.err) /\ SameWay(run', run)
                 /\ SameSession(run', run) /\ SameResult(run', run)
                 /\ run'.release = run.release /\ run'.incomplete = run.incomplete
<1>1. run \in Controllers /\ faults \in 0..MaxFaults
    BY DEF Typed, TypeOK
<1>2. /\ run.pc = "sync" /\ Heard
    BY DEF syncEvidenceEvents, At, Heard, Cancelling
<1>3. UNCHANGED <<stopAfter, inflight, manifest, record, bundle, ledger, lock, expired, mirror,
            maya, workspace, stop, crashes, blind, raced>>
    BY DEF syncEvidenceEvents, fileVars, hostVars, tallyVars
<1>4. PICK ok \in BOOLEAN :
        /\ Try(ok)
        /\ \/ /\ run.cleaning = "settle" /\ GiveUp(run)
           \/ /\ (Go([run EXCEPT !.only = ~ok, !.err = @ \/ ~ok], "preserve"))
    BY DEF syncEvidenceEvents
<1>5. faults' \in 0..MaxFaults
    BY <1>1, <1>4, TryIs
<1>6. CASE /\ run.cleaning = "settle" /\ GiveUp(run)
    <2> QED
        BY <1>1, <1>2, <1>3, <1>5, <1>6, GiveUpIs DEF Same, SameWay, SameSession, SameResult
<1>7. CASE /\ (Go([run EXCEPT !.only = ~ok, !.err = @ \/ ~ok], "preserve"))
    <2>1. PICK a \in BOOLEAN : a = (~ok)
        OBVIOUS
    <2>2. PICK b \in BOOLEAN : b = (run.err \/ ~ok)
        OBVIOUS
    <2>3. a \in BOOLEAN /\ b \in BOOLEAN
        BY <2>1, <2>2
    <2>4. PICK j : j = [run EXCEPT !.only = a, !.err = b]
        OBVIOUS
    <2>5. j \in Controllers
        BY <1>1, <2>4, <2>3 DEF Controllers
    <2>6. /\ j.err = b /\ SameWay(j, run) /\ SameSession(j, run) /\ SameResult(j, run)
          /\ j.release = run.release /\ j.incomplete = run.incomplete
        BY <1>1, <2>4, <2>3 DEF Controllers, Same, SameWay, SameSession, SameResult
    <2>7. /\ (run.err => j.err)
        BY <1>7, <2>6, <2>1, <2>2
    <2>8. Go(j, "preserve")
        BY <2>4, <1>7, <2>1, <2>2
    <2>9. "preserve" \in Pcs
        BY DEF Pcs, Going, Setting, Using, Stopping, Cleaned, Ending, Deferring
    <2> QED
        BY <1>1, <1>2, <1>3, <1>5, <1>7, <2>5, <2>6, <2>7, <2>8, <2>9, GoIs DEF Same, SameWay,
            SameSession, SameResult
<1> QED
    BY <1>4, <1>6, <1>7

\* A stopped Run becomes a kept one with its stop phase, or is cleaned up without.
LEMMA preserveIs ==
    ASSUME Typed, preserveStoppedRunForCleanup
    PROVE  /\ run' \in Controllers /\ faults' \in 0..MaxFaults
           /\ run.pc = "preserve"
           /\ UNCHANGED <<stopAfter, inflight, cancelled, manifest, bundle, ledger, lock, expired,
                          mirror, maya, workspace, stop, crashes, blind, raced>>
           /\ \/ /\ Recorded("kept", "session-stopped") /\ run'.pc = "mark" /\ Same(run', run)
              \/ /\ record' = record /\ run'.pc = "checkpoint" /\ Same(run', run)
<1>1. run \in Controllers /\ faults \in 0..MaxFaults
    BY DEF Typed, TypeOK
<1>2. /\ run.pc = "preserve"
    BY DEF preserveStoppedRunForCleanup, At
<1>3. UNCHANGED <<stopAfter, inflight, cancelled, manifest, bundle, ledger, lock, expired,
            mirror, maya, workspace, stop, crashes, blind, raced>>
    BY DEF preserveStoppedRunForCleanup, fileVars, hostVars, tallyVars
<1>4. PICK ok \in BOOLEAN :
        /\ Try(ok)
        /\ \/ /\ record' = newRunRetentionRecord("kept", "session-stopped")
              /\ (Go([run EXCEPT !.beat = "off", !.only = @ \/ BeatError], "mark"))
           \/ /\ record' = record
              /\ (Go([[run EXCEPT !.beat = "off", !.only = @ \/ BeatError] EXCEPT !.recovering = TRUE], "checkpoint"))
    BY DEF preserveStoppedRunForCleanup
<1>5. faults' \in 0..MaxFaults
    BY <1>1, <1>4, TryIs
<1>6. CASE /\ record' = newRunRetentionRecord("kept", "session-stopped")
           /\ (Go([run EXCEPT !.beat = "off", !.only = @ \/ BeatError], "mark"))
    <2>1. PICK a \in BOOLEAN : a = (run.only \/ BeatError)
        OBVIOUS
    <2>2. a \in BOOLEAN
        BY <2>1
    <2>3. PICK j : j = [run EXCEPT !.beat = "off", !.only = a]
        OBVIOUS
    <2>4. j \in Controllers
        BY <1>1, <2>3, <2>2 DEF Controllers
    <2>5. /\ Same(j, run)
        BY <1>1, <2>3, <2>2 DEF Controllers, Same, SameWay, SameSession, SameResult
    <2>6. Go(j, "mark")
        BY <2>3, <1>6, <2>1
    <2>7. "mark" \in Pcs
        BY DEF Pcs, Going, Setting, Using, Stopping, Cleaned, Ending, Deferring
    <2>8. /\ Recorded("kept", "session-stopped")
        BY <1>1, <1>2, <1>3, <1>6, RecordIs
    <2> QED
        BY <1>1, <1>2, <1>3, <1>5, <1>6, <2>4, <2>5, <2>6, <2>7, <2>8, GoIs DEF Same, SameWay,
            SameSession, SameResult
<1>7. CASE /\ record' = record
           /\ (Go([[run EXCEPT !.beat = "off", !.only = @ \/ BeatError] EXCEPT !.recovering = TRUE], "checkpoint"))
    <2>1. PICK a \in BOOLEAN : a = (run.only \/ BeatError)
        OBVIOUS
    <2>2. a \in BOOLEAN
        BY <2>1
    <2>3. PICK j : j = [run EXCEPT !.beat = "off", !.only = a, !.recovering = TRUE]
        OBVIOUS
    <2>4. j \in Controllers
        BY <1>1, <2>3, <2>2 DEF Controllers
    <2>5. /\ Same(j, run)
        BY <1>1, <2>3, <2>2 DEF Controllers, Same, SameWay, SameSession, SameResult
    <2>6. Go(j, "checkpoint")
        BY <2>3, <1>7, <2>1
    <2>7. "checkpoint" \in Pcs
        BY DEF Pcs, Going, Setting, Using, Stopping, Cleaned, Ending, Deferring
    <2> QED
        BY <1>1, <1>2, <1>3, <1>5, <1>7, <2>4, <2>5, <2>6, <2>7, GoIs DEF Same, SameWay,
            SameSession, SameResult
<1> QED
    BY <1>4, <1>6, <1>7

\* The lock of a preserved Run is marked kept.
LEMMA markKeptIs ==
    ASSUME Typed, markKept
    PROVE  /\ run' \in Controllers /\ faults' \in 0..MaxFaults
           /\ run.pc = "mark"
           /\ UNCHANGED <<stopAfter, inflight, cancelled, manifest, record, bundle, ledger,
                          expired, maya, workspace, stop, crashes, blind, raced>>
           /\ \/ /\ Marked("kept") /\ run'.pc = "checkpoint" /\ Same(run', run)
              \/ /\ Own /\ lock' = "kept" /\ mirror' = "kept" /\ Returned(FALSE)
              \/ /\ Own /\ lock' = "kept" /\ mirror' = "kept" /\ run'.pc = "clean"
                 /\ ~run'.release /\ SameWay(run', run) /\ SameSession(run', run)
                 /\ SameResult(run', run) /\ run'.err = run.err
                 /\ run'.incomplete = run.incomplete
<1>1. run \in Controllers /\ faults \in 0..MaxFaults
    BY DEF Typed, TypeOK
<1>2. /\ run.pc = "mark"
    BY DEF markKept, At
<1>3. UNCHANGED <<stopAfter, inflight, cancelled, manifest, record, bundle, ledger, expired,
            maya, workspace, stop, crashes, blind, raced>>
    BY DEF markKept, fileVars, hostVars, tallyVars
<1>4. PICK ok \in BOOLEAN :
        /\ Try(ok)
        /\ \/ /\ Mark("kept", ok) /\ Go([run EXCEPT !.recovering = TRUE], "checkpoint")
           \/ /\ Mark("kept", ok) /\ Marks(ok) /\ CleanupReturns(run, FALSE)
           \/ /\ Mark("kept", ok) /\ Marks(ok) /\ Go([run EXCEPT !.release = FALSE], "clean")
    BY DEF markKept
<1>5. faults' \in 0..MaxFaults
    BY <1>1, <1>4, TryIs
<1>6. CASE /\ Mark("kept", ok) /\ Go([run EXCEPT !.recovering = TRUE], "checkpoint")
    <2>1. PICK j : j = [run EXCEPT !.recovering = TRUE]
        OBVIOUS
    <2>2. j \in Controllers
        BY <1>1, <2>1 DEF Controllers
    <2>3. /\ Same(j, run)
        BY <1>1, <2>1 DEF Controllers, Same, SameWay, SameSession, SameResult
    <2>4. Go(j, "checkpoint")
        BY <2>1, <1>6
    <2>5. "checkpoint" \in Pcs
        BY DEF Pcs, Going, Setting, Using, Stopping, Cleaned, Ending, Deferring
    <2>6. /\ Marked("kept")
        BY <1>1, <1>2, <1>3, <1>6, MarkIs
    <2> QED
        BY <1>1, <1>2, <1>3, <1>5, <1>6, <2>2, <2>3, <2>4, <2>5, <2>6, GoIs DEF Same, SameWay,
            SameSession, SameResult
<1>7. CASE /\ Mark("kept", ok) /\ Marks(ok) /\ CleanupReturns(run, FALSE)
    <2>1. /\ Own /\ lock' = "kept" /\ mirror' = "kept"
        BY <1>1, <1>2, <1>3, <1>7, MarkIs
    <2> QED
        BY <1>1, <1>2, <1>3, <1>5, <1>7, <2>1, ReturnsIs DEF Same, SameWay, SameSession,
            SameResult
<1>8. CASE /\ Mark("kept", ok) /\ Marks(ok) /\ Go([run EXCEPT !.release = FALSE], "clean")
    <2>1. PICK j : j = [run EXCEPT !.release = FALSE]
        OBVIOUS
    <2>2. j \in Controllers
        BY <1>1, <2>1 DEF Controllers
    <2>3. /\ ~j.release /\ SameWay(j, run) /\ SameSession(j, run) /\ SameResult(j, run)
          /\ j.err = run.err /\ j.incomplete = run.incomplete
        BY <1>1, <2>1 DEF Controllers, Same, SameWay, SameSession, SameResult
    <2>4. Go(j, "clean")
        BY <2>1, <1>8
    <2>5. "clean" \in Pcs
        BY DEF Pcs, Going, Setting, Using, Stopping, Cleaned, Ending, Deferring
    <2>6. /\ Own /\ lock' = "kept" /\ mirror' = "kept"
        BY <1>1, <1>2, <1>3, <1>8, MarkIs
    <2> QED
        BY <1>1, <1>2, <1>3, <1>5, <1>8, <2>2, <2>3, <2>4, <2>5, <2>6, GoIs DEF Same, SameWay,
            SameSession, SameResult
<1> QED
    BY <1>4, <1>6, <1>7, <1>8

\* Without a preserved Run the ledger alone remembers the stop phase.
LEMMA completeCleanupIs ==
    ASSUME Typed, completeCleanupAfterRecoveryFailure
    PROVE  /\ run' \in Controllers /\ faults' \in 0..MaxFaults
           /\ run.pc = "checkpoint"
           /\ UNCHANGED <<stopAfter, inflight, cancelled, manifest, record, bundle, lock, expired,
                          mirror, maya, workspace, stop, crashes, blind, raced>>
           /\ \/ /\ Advanced("session-stopped") /\ run'.pc = "clean" /\ Same(run', run)
              \/ /\ ledger' = ledger /\ Returned(FALSE)
<1>1. run \in Controllers /\ faults \in 0..MaxFaults
    BY DEF Typed, TypeOK
<1>2. /\ run.pc = "checkpoint"
    BY DEF completeCleanupAfterRecoveryFailure, At
<1>3. UNCHANGED <<stopAfter, inflight, cancelled, manifest, record, bundle, lock, expired,
            mirror, maya, workspace, stop, crashes, blind, raced>>
    BY DEF completeCleanupAfterRecoveryFailure, fileVars, hostVars, tallyVars
<1>4. PICK ok \in BOOLEAN :
        /\ Try(ok)
        /\ \/ /\ checkpointRunLedgerStopPhase(ok, "session-stopped") /\ CanCheckpoint(ok)
              /\ Go(run, "clean")
           \/ /\ checkpointRunLedgerStopPhase(ok, "session-stopped") /\ ~CanCheckpoint(ok)
              /\ CleanupReturns(run, FALSE)
    BY DEF completeCleanupAfterRecoveryFailure, Cleaning
<1>5. faults' \in 0..MaxFaults
    BY <1>1, <1>4, TryIs
<1>6. CASE /\ checkpointRunLedgerStopPhase(ok, "session-stopped") /\ CanCheckpoint(ok)
           /\ Go(run, "clean")
    <2>1. "clean" \in Pcs
        BY DEF Pcs, Going, Setting, Using, Stopping, Cleaned, Ending, Deferring
    <2>2. /\ Advanced("session-stopped")
        BY <1>1, <1>2, <1>3, <1>6, CheckpointIs
    <2> QED
        BY <1>1, <1>2, <1>3, <1>5, <1>6, <2>1, <2>2, GoIs DEF Same, SameWay, SameSession,
            SameResult
<1>7. CASE /\ checkpointRunLedgerStopPhase(ok, "session-stopped") /\ ~CanCheckpoint(ok)
           /\ CleanupReturns(run, FALSE)
    <2>1. /\ ledger' = ledger
        BY <1>1, <1>2, <1>3, <1>7, CheckpointIs
    <2> QED
        BY <1>1, <1>2, <1>3, <1>5, <1>7, <2>1, ReturnsIs DEF Same, SameWay, SameSession,
            SameResult
<1> QED
    BY <1>4, <1>6, <1>7

\* The remote workspace is removed before the cleanup goes on.
LEMMA CleanupRunIs ==
    ASSUME Typed, CleanupRun
    PROVE  /\ run' \in Controllers /\ faults' \in 0..MaxFaults
           /\ run.pc = "clean" /\ workspace' \in BOOLEAN /\ (workspace' => workspace)
           /\ UNCHANGED <<stopAfter, inflight, cancelled, manifest, record, bundle, ledger, lock,
                          expired, mirror, maya, stop, crashes, blind, raced>>
           /\ \/ /\ ~workspace' /\ run'.pc = "cleaned" /\ Same(run', run)
              \/ /\ Returned(FALSE)
<1>1. run \in Controllers /\ faults \in 0..MaxFaults
    BY DEF Typed, TypeOK
<1>2. /\ run.pc = "clean" /\ workspace' \in BOOLEAN /\ (workspace' => workspace)
    BY DEF CleanupRun, At
<1>3. UNCHANGED <<stopAfter, inflight, cancelled, manifest, record, bundle, ledger, lock,
            expired, mirror, maya, stop, crashes, blind, raced>>
    BY DEF CleanupRun, fileVars, hostVars, tallyVars
<1>4. PICK ok \in BOOLEAN :
        /\ Try(ok)
        /\ \/ /\ ~workspace' /\ Go(run, "cleaned")
           \/ /\ CleanupReturns(run, FALSE)
    BY DEF CleanupRun, Cleaning
<1>5. faults' \in 0..MaxFaults
    BY <1>1, <1>4, TryIs
<1>6. CASE /\ ~workspace' /\ Go(run, "cleaned")
    <2>1. "cleaned" \in Pcs
        BY DEF Pcs, Going, Setting, Using, Stopping, Cleaned, Ending, Deferring
    <2> QED
        BY <1>1, <1>2, <1>3, <1>5, <1>6, <2>1, GoIs DEF Same, SameWay, SameSession, SameResult
<1>7. CASE /\ CleanupReturns(run, FALSE)
    <2> QED
        BY <1>1, <1>2, <1>3, <1>5, <1>7, ReturnsIs DEF Same, SameWay, SameSession, SameResult
<1> QED
    BY <1>4, <1>6, <1>7

\* The next stop phase is in the ledger before the cleanup goes on.
LEMMA recordStopPhaseIs ==
    ASSUME NEW pc, NEW phase \in {"broker-cleaned", "host-lock-released"}, NEW next \in Pcs,
        Typed, recordStopPhase(pc, phase, next)
    PROVE  /\ run' \in Controllers /\ faults' \in 0..MaxFaults
           /\ run.pc = pc /\ (record' = record \/ Recorded("kept", phase))
           /\ UNCHANGED <<stopAfter, inflight, cancelled, manifest, bundle, lock, expired, mirror,
                          maya, workspace, stop, crashes, blind, raced>>
           /\ \/ /\ Advanced(phase) /\ run'.pc = next /\ Same(run', run)
              \/ /\ ledger' = ledger /\ Returned(FALSE)
<1>1. run \in Controllers /\ faults \in 0..MaxFaults
    BY DEF Typed, TypeOK
<1>2. /\ run.pc = pc /\ (record' = record \/ Recorded("kept", phase))
    BY RecordIs DEF recordStopPhase, At
<1>3. UNCHANGED <<stopAfter, inflight, cancelled, manifest, bundle, lock, expired, mirror, maya,
            workspace, stop, crashes, blind, raced>>
    BY DEF recordStopPhase, fileVars, hostVars, tallyVars
<1>4. PICK ok \in BOOLEAN :
        /\ Try(ok)
        /\ \/ /\ checkpointRunLedgerStopPhase(ok, phase) /\ CanCheckpoint(ok) /\ Go(run, next)
           \/ /\ checkpointRunLedgerStopPhase(ok, phase) /\ ~CanCheckpoint(ok)
              /\ CleanupReturns(run, FALSE)
    BY DEF recordStopPhase, Cleaning, At
<1>5. faults' \in 0..MaxFaults
    BY <1>1, <1>4, TryIs
<1>6. CASE /\ checkpointRunLedgerStopPhase(ok, phase) /\ CanCheckpoint(ok) /\ Go(run, next)
    <2>1. next \in Pcs
        BY DEF Pcs, Going, Setting, Using, Stopping, Cleaned, Ending, Deferring
    <2>2. /\ Advanced(phase)
        BY <1>1, <1>2, <1>3, <1>6, CheckpointIs
    <2> QED
        BY <1>1, <1>2, <1>3, <1>5, <1>6, <2>1, <2>2, GoIs DEF Same, SameWay, SameSession,
            SameResult
<1>7. CASE /\ checkpointRunLedgerStopPhase(ok, phase) /\ ~CanCheckpoint(ok)
           /\ CleanupReturns(run, FALSE)
    <2>1. /\ ledger' = ledger
        BY <1>1, <1>2, <1>3, <1>7, CheckpointIs
    <2> QED
        BY <1>1, <1>2, <1>3, <1>5, <1>7, <2>1, ReturnsIs DEF Same, SameWay, SameSession,
            SameResult
<1> QED
    BY <1>4, <1>6, <1>7

\* The lock is released before the cleanup goes on.
LEMMA releaseStoppedRunIs ==
    ASSUME Typed, releaseStoppedRun
    PROVE  /\ run' \in Controllers /\ faults' \in 0..MaxFaults
           /\ run.pc = "free"
           /\ UNCHANGED <<stopAfter, inflight, cancelled, manifest, record, bundle, ledger,
                          expired, maya, workspace, stop, crashes, blind, raced>>
           /\ \/ /\ Released /\ lock' \notin {"claimed", "active", "kept"} /\ run'.pc = "freed"
                 /\ Same(run', run)
              \/ /\ Released /\ Returned(FALSE)
<1>1. run \in Controllers /\ faults \in 0..MaxFaults
    BY DEF Typed, TypeOK
<1>2. /\ run.pc = "free"
    BY DEF releaseStoppedRun, At
<1>3. UNCHANGED <<stopAfter, inflight, cancelled, manifest, record, bundle, ledger, expired,
            maya, workspace, stop, crashes, blind, raced>>
    BY DEF releaseStoppedRun, fileVars, hostVars, tallyVars
<1>4. PICK ok \in BOOLEAN :
        /\ Try(ok)
        /\ \/ /\ release(ok) /\ Releases(ok) /\ Go(run, "freed")
           \/ /\ release(ok) /\ CleanupReturns(run, FALSE)
    BY DEF releaseStoppedRun, Cleaning
<1>5. faults' \in 0..MaxFaults
    BY <1>1, <1>4, TryIs
<1>6. CASE /\ release(ok) /\ Releases(ok) /\ Go(run, "freed")
    <2>1. "freed" \in Pcs
        BY DEF Pcs, Going, Setting, Using, Stopping, Cleaned, Ending, Deferring
    <2>2. /\ Released /\ lock' \notin {"claimed", "active", "kept"}
        BY <1>1, <1>2, <1>3, <1>6, ReleaseIs
    <2> QED
        BY <1>1, <1>2, <1>3, <1>5, <1>6, <2>1, <2>2, GoIs DEF Same, SameWay, SameSession,
            SameResult
<1>7. CASE /\ release(ok) /\ CleanupReturns(run, FALSE)
    <2>1. /\ Released
        BY <1>1, <1>2, <1>3, <1>7, ReleaseIs
    <2> QED
        BY <1>1, <1>2, <1>3, <1>5, <1>7, <2>1, ReturnsIs DEF Same, SameWay, SameSession,
            SameResult
<1> QED
    BY <1>4, <1>6, <1>7

\* The manifest and the Run Record go together.
LEMMA cleanupRunStateIs ==
    ASSUME Typed, cleanupRunState
    PROVE  /\ run' \in Controllers /\ faults' \in 0..MaxFaults
           /\ run.pc = "remove"
           /\ UNCHANGED <<stopAfter, inflight, cancelled, bundle, ledger, lock, expired, mirror,
                          maya, workspace, stop, crashes, blind, raced>>
           /\ \/ /\ manifest' = "none" /\ record' = None /\ Returned(TRUE)
              \/ /\ manifest' = manifest /\ record' = record /\ Returned(FALSE)
<1>1. run \in Controllers /\ faults \in 0..MaxFaults
    BY DEF Typed, TypeOK
<1>2. /\ run.pc = "remove"
    BY DEF cleanupRunState, At
<1>3. UNCHANGED <<stopAfter, inflight, cancelled, bundle, ledger, lock, expired, mirror, maya,
            workspace, stop, crashes, blind, raced>>
    BY DEF cleanupRunState, fileVars, hostVars, tallyVars
<1>4. PICK ok \in BOOLEAN :
        /\ Try(ok)
        /\ \/ /\ manifest' = "none" /\ record' = None /\ CleanupReturns(run, TRUE)
           \/ /\ manifest' = manifest /\ record' = record /\ CleanupReturns(run, FALSE)
    BY DEF cleanupRunState
<1>5. faults' \in 0..MaxFaults
    BY <1>1, <1>4, TryIs
<1>6. CASE /\ manifest' = "none" /\ record' = None /\ CleanupReturns(run, TRUE)
    <2> QED
        BY <1>1, <1>2, <1>3, <1>5, <1>6, ReturnsIs DEF Same, SameWay, SameSession, SameResult
<1>7. CASE /\ manifest' = manifest /\ record' = record /\ CleanupReturns(run, FALSE)
    <2> QED
        BY <1>1, <1>2, <1>3, <1>5, <1>7, ReturnsIs DEF Same, SameWay, SameSession, SameResult
<1> QED
    BY <1>4, <1>6, <1>7

\* A Run that failed early has given its lock back, never had one to give, or
\* says that its cleanup failed.
LEMMA earlyIs ==
    ASSUME Typed, finishEarlyFailure
    PROVE  /\ run' \in Controllers /\ faults' \in 0..MaxFaults
           /\ run.pc = "early" /\ bundle' \in {bundle, "failed"}
           /\ UNCHANGED <<stopAfter, inflight, cancelled, manifest, record, ledger, expired, maya,
                          workspace, stop, crashes, blind, raced>>
           /\ \/ /\ ~run.release /\ lock' = lock /\ mirror' = mirror
                 /\ run'.failure = IF run.failure = "none" THEN "not-needed" ELSE run.failure
                 /\ run'.policy = IF run'.failure = "failed" THEN "unresolved" ELSE run.policy
              \/ /\ run.release /\ Released /\ lock' \notin {"claimed", "active", "kept"}
                 /\ run'.failure = "completed" /\ run'.policy = run.policy
              \/ /\ run.release /\ Released
                 /\ run'.failure = "failed" /\ run'.policy = "unresolved"
           /\ run'.pc = "defer" /\ ~run'.release
           /\ SameWay(run', run) /\ SameSession(run', run)
           /\ run'.err = run.err /\ run'.incomplete = run.incomplete
<1>1. run \in Controllers /\ faults \in 0..MaxFaults
    BY DEF Typed, TypeOK
<1>2. /\ run.pc = "early" /\ bundle' \in {bundle, "failed"}
      /\ UNCHANGED <<stopAfter, inflight, cancelled, manifest, record, ledger, expired, maya,
                     workspace, stop, crashes, blind, raced>>
    BY DEF finishEarlyFailure, At, writeMinimalEvidenceBundle, tallyVars
<1>3. PICK ok \in BOOLEAN, written \in BOOLEAN :
        /\ Try(ok /\ written)
        /\ IF run.release THEN release(ok) ELSE ok /\ UNCHANGED <<lock, mirror>>
        /\ LET failure == IF run.release THEN (IF Releases(ok) THEN "completed" ELSE "failed")
                          ELSE IF run.failure = "none" THEN "not-needed" ELSE run.failure
           IN Go([run EXCEPT !.beat = "off", !.release = FALSE, !.status = "failed",
                             !.failure = failure,
                             !.policy = IF failure = "failed" THEN "unresolved" ELSE @], "defer")
    BY DEF finishEarlyFailure
<1>4. faults' \in 0..MaxFaults
    BY <1>1, <1>3, TryIs
<1>5. PICK failure :
        failure = IF run.release THEN (IF Releases(ok) THEN "completed" ELSE "failed")
                  ELSE IF run.failure = "none" THEN "not-needed" ELSE run.failure
    OBVIOUS
<1>6. PICK policy : policy = IF failure = "failed" THEN "unresolved" ELSE run.policy
    OBVIOUS
<1>7. run.release \in BOOLEAN /\ run.failure \in {"none", "not-needed", "failed", "pending", "completed", "retained"}
      /\ run.policy \in {"stopped", "kept", "unresolved"}
    BY <1>1 DEF Controllers
<1>8. \/ ~run.release /\ failure = IF run.failure = "none" THEN "not-needed" ELSE run.failure
      \/ run.release /\ Releases(ok) /\ failure = "completed"
      \/ run.release /\ failure = "failed"
    BY <1>5, <1>7
<1>9. /\ failure \in {"none", "not-needed", "failed", "pending", "completed", "retained"}
      /\ policy \in {"stopped", "kept", "unresolved"}
    BY <1>6, <1>7, <1>8
<1>10. PICK j : j = [run EXCEPT !.beat = "off", !.release = FALSE, !.status = "failed",
                                !.failure = failure, !.policy = policy]
    OBVIOUS
<1>11. j \in Controllers
    <2>1. PICK i : i = [run EXCEPT !.beat = "off", !.release = FALSE, !.status = "failed"]
        OBVIOUS
    <2>2. i \in Controllers
        BY <1>1, <2>1 DEF Controllers
    <2>3. j = [i EXCEPT !.failure = failure, !.policy = policy]
        BY <1>10, <2>1
    <2> QED
        BY <1>9, <2>2, <2>3 DEF Controllers
<1>12. /\ ~j.release /\ j.failure = failure /\ j.policy = policy /\ SameWay(j, run)
       /\ SameSession(j, run) /\ j.err = run.err /\ j.incomplete = run.incomplete
    BY <1>1, <1>9, <1>10 DEF Controllers, SameWay, SameSession
<1>13. Go(j, "defer")
    BY <1>3, <1>5, <1>6, <1>10
<1>14. "defer" \in Pcs
    BY DEF Pcs, Ending, Deferring
<1>15. run' \in Controllers /\ run'.pc = "defer" /\ Same(run', j)
    BY <1>11, <1>13, <1>14, GoIs
<1>16. /\ ~run'.release /\ run'.failure = failure /\ run'.policy = policy /\ SameWay(run', run)
       /\ SameSession(run', run) /\ run'.err = run.err /\ run'.incomplete = run.incomplete
    BY <1>12, <1>15 DEF Same, SameWay, SameSession, SameResult
<1>17. CASE ~run.release
    <2>1. lock' = lock /\ mirror' = mirror
        BY <1>3, <1>17
    <2> QED
        BY <1>2, <1>4, <1>6, <1>8, <1>15, <1>16, <1>17, <2>1
<1>18. CASE run.release
    <2>1. Released /\ (Releases(ok) => lock' \notin {"claimed", "active", "kept"})
        BY <1>3, <1>18, ReleaseIs
    <2> QED
        BY <1>2, <1>4, <1>6, <1>8, <1>15, <1>16, <1>18, <2>1
<1> QED
    BY <1>17, <1>18

\* A Run that ended with an error gets failure evidence, unless it has it.
LEMMA ensureIs ==
    ASSUME Typed, ensureAcceptedFailureEvidence
    PROVE  /\ run' \in Controllers /\ faults' \in 0..MaxFaults
           /\ run.pc = "evidence" /\ bundle' \in {bundle, "failed"}
           /\ UNCHANGED <<stopAfter, inflight, cancelled, manifest, record, ledger, lock, expired,
                          mirror, maya, workspace, stop, crashes, blind, raced>>
           /\ \/ /\ run.accepted /\ run.err /\ ~run.early /\ run'.pc = "defer" /\ run'.early
                 /\ run'.status = "failed" /\ run'.failure = "pending"
                 /\ run'.accepted = run.accepted /\ run'.cleaning = run.cleaning
                 /\ run'.dead = run.dead /\ SameSession(run', run) /\ run'.policy = run.policy
                 /\ run'.release = run.release /\ run'.err = run.err
                 /\ run'.incomplete = run.incomplete
              \/ /\ ~(run.accepted /\ run.err /\ ~run.early) /\ run'.pc = "defer"
                 /\ Same(run', run)
<1>1. run \in Controllers /\ faults \in 0..MaxFaults
    BY DEF Typed, TypeOK
<1>2. /\ run.pc = "evidence" /\ bundle' \in {bundle, "failed"}
    BY DEF ensureAcceptedFailureEvidence, At, writeMinimalEvidenceBundle
<1>3. UNCHANGED <<stopAfter, inflight, cancelled, manifest, record, ledger, lock, expired,
            mirror, maya, workspace, stop, crashes, blind, raced>>
    BY DEF ensureAcceptedFailureEvidence, fileVars, hostVars, tallyVars
<1>4.
        \/ /\ run.accepted /\ run.err /\ ~run.early
           /\ Go([run EXCEPT !.early = TRUE, !.status = "failed", !.failure = "pending"], "defer")
        \/ /\ ~(run.accepted /\ run.err /\ ~run.early) /\ Go(run, "defer")
    BY DEF ensureAcceptedFailureEvidence
<1>5. faults' \in 0..MaxFaults
    BY <1>1, TryIs DEF ensureAcceptedFailureEvidence
<1>6. CASE /\ run.accepted /\ run.err /\ ~run.early
           /\ Go([run EXCEPT !.early = TRUE, !.status = "failed", !.failure = "pending"], "defer")
    <2>1. PICK j : j = [run EXCEPT !.early = TRUE, !.status = "failed", !.failure = "pending"]
        OBVIOUS
    <2>2. j \in Controllers
        BY <1>1, <2>1 DEF Controllers
    <2>3. /\ j.early /\ j.status = "failed" /\ j.failure = "pending"
          /\ j.accepted = run.accepted /\ j.cleaning = run.cleaning /\ j.dead = run.dead
          /\ SameSession(j, run) /\ j.policy = run.policy /\ j.release = run.release
          /\ j.err = run.err /\ j.incomplete = run.incomplete
        BY <1>1, <2>1 DEF Controllers, Same, SameWay, SameSession, SameResult
    <2>4. Go(j, "defer")
        BY <2>1, <1>6
    <2>5. "defer" \in Pcs
        BY DEF Pcs, Going, Setting, Using, Stopping, Cleaned, Ending, Deferring
    <2> QED
        BY <1>1, <1>2, <1>3, <1>5, <1>6, <2>2, <2>3, <2>4, <2>5, GoIs DEF Same, SameWay,
            SameSession, SameResult
<1>7. CASE /\ ~(run.accepted /\ run.err /\ ~run.early) /\ Go(run, "defer")
    <2>1. "defer" \in Pcs
        BY DEF Pcs, Going, Setting, Using, Stopping, Cleaned, Ending, Deferring
    <2> QED
        BY <1>1, <1>2, <1>3, <1>5, <1>7, <2>1, GoIs DEF Same, SameWay, SameSession, SameResult
<1> QED
    BY <1>4, <1>6, <1>7

\* What the deferred block decides: one last stop of a session whose stop or
\* start is unsettled, the cleanup of a stopped Run, a stop, or nothing.
LEMMA deferredIs ==
    ASSUME Typed, settleDeferred
    PROVE  /\ run' \in Controllers /\ faults' \in 0..MaxFaults /\ run.pc = "defer"
           /\ UNCHANGED <<stopAfter, inflight, cancelled, manifest, record, bundle, ledger, lock,
                          expired, mirror, maya, workspace, stop, crashes, blind, raced>>
           /\ \/ /\ run'.pc = "laststop" /\ run.unsettled /\ run.started
                 /\ run'.cleaning = run.cleaning
              \/ /\ run'.pc = "sync" /\ run.started /\ run.settled /\ run.stopTried /\ run'.release
                 /\ run'.cleaning = "defer"
              \/ /\ run'.pc = "failstop" /\ run.started /\ ~run.settled
                 /\ run'.cleaning = run.cleaning
              \/ /\ run'.pc = "unaccept" /\ run'.cleaning = run.cleaning
                 /\ (run.started => run.settled \/ run.unsettled)
                 /\ (run.started /\ run.settled /\ run.stopTried => ~run'.release)
           /\ (run'.incomplete <=>
                  run.unsettled \/ (run.attempted /\ run.failure = "pending" /\ ~run.release))
           /\ (run'.release <=> run.release /\ ~run.unsettled)
           /\ run'.accepted = run.accepted /\ run'.early = run.early /\ run'.dead = run.dead
           /\ SameSession(run', run) /\ SameResult(run', run) /\ run'.err = run.err
<1>1. run \in Controllers /\ faults \in 0..MaxFaults
    BY DEF Typed, TypeOK
<1>2. /\ run.pc = "defer" /\ faults' = faults
      /\ UNCHANGED <<stopAfter, inflight, cancelled, manifest, record, bundle, ledger, lock,
                     expired, mirror, maya, workspace, stop, crashes, blind, raced>>
    BY DEF settleDeferred, At, fileVars, hostVars, tallyVars
<1>3. PICK n \in BOOLEAN : n = (run.unsettled \/ (run.attempted /\ run.failure = "pending" /\ ~run.release))
    OBVIOUS
<1>4. PICK r \in BOOLEAN : r = (run.release /\ ~run.unsettled)
    OBVIOUS
<1>5. n \in BOOLEAN /\ r \in BOOLEAN
    BY <1>3, <1>4
<1>6. PICK k : k = [run EXCEPT !.incomplete = n, !.release = r]
    OBVIOUS
<1>7. k \in Controllers
    BY <1>1, <1>5, <1>6 DEF Controllers
<1>8. /\ k.incomplete = n /\ k.release = r
      /\ SameWay(k, run) /\ SameSession(k, run) /\ SameResult(k, run) /\ k.err = run.err
    BY <1>1, <1>5, <1>6 DEF Controllers, SameWay, SameSession, SameResult
<1>9. PICK j : j = [k EXCEPT !.cleaning = "defer"]
    OBVIOUS
<1>10. j \in Controllers
    BY <1>7, <1>9 DEF Controllers
<1>11. /\ j.cleaning = "defer" /\ j.incomplete = n /\ j.release = r
       /\ j.accepted = k.accepted /\ j.early = k.early /\ j.dead = k.dead
       /\ SameSession(j, k) /\ SameResult(j, k) /\ j.err = k.err
    BY <1>7, <1>8, <1>9 DEF Controllers, SameSession, SameResult
<1>12. (CASE k.unsettled /\ k.started /\ ~k.stopTried -> Go(k, "laststop")
          [] k.started /\ k.settled /\ k.stopTried /\ k.release -> Go(j, "sync")
          [] k.started /\ ~k.settled /\ ~k.unsettled -> Go(k, "failstop")
          [] OTHER -> Go(k, "unaccept"))
    BY <1>3, <1>4, <1>6, <1>9 DEF settleDeferred
<1>13. \/ run.unsettled /\ run.started /\ Go(k, "laststop")
       \/ run.started /\ run.settled /\ run.stopTried /\ r /\ Go(j, "sync")
       \/ run.started /\ ~run.settled /\ Go(k, "failstop")
       \/ /\ (run.started => run.settled \/ run.unsettled)
          /\ (run.started /\ run.settled /\ run.stopTried => ~r)
          /\ Go(k, "unaccept")
    BY <1>8, <1>12 DEF SameSession
<1>14. (n <=> run.unsettled \/ (run.attempted /\ run.failure = "pending" /\ ~run.release))
         /\ (r <=> run.release /\ ~run.unsettled)
    BY <1>3, <1>4
<1>15. {"laststop", "sync", "failstop", "unaccept"} \subseteq Pcs
    BY DEF Pcs, Stopping, Ending, Deferring
<1>16. CASE run.started /\ run.settled /\ run.stopTried /\ r /\ Go(j, "sync")
    <2>1. run' \in Controllers /\ run'.pc = "sync" /\ Same(run', j)
        BY <1>10, <1>15, <1>16, GoIs
    <2>2. /\ run'.cleaning = "defer" /\ run'.incomplete = n /\ run'.release = r
          /\ run'.accepted = run.accepted /\ run'.early = run.early /\ run'.dead = run.dead
          /\ SameSession(run', run) /\ SameResult(run', run) /\ run'.err = run.err
        BY <1>8, <1>11, <2>1 DEF Same, SameWay, SameSession, SameResult
    <2> QED
        BY <1>1, <1>2, <1>14, <1>16, <2>1, <2>2
<1>17. ASSUME NEW p \in {"laststop", "failstop", "unaccept"}, Go(k, p)
       PROVE  /\ run' \in Controllers /\ run'.pc = p /\ run'.cleaning = run.cleaning
              /\ (run'.incomplete <=>
                    run.unsettled \/ (run.attempted /\ run.failure = "pending" /\ ~run.release))
              /\ (run'.release <=> run.release /\ ~run.unsettled) /\ run'.release = r
              /\ run'.accepted = run.accepted /\ run'.early = run.early /\ run'.dead = run.dead
              /\ SameSession(run', run) /\ SameResult(run', run) /\ run'.err = run.err
    <2>1. run' \in Controllers /\ run'.pc = p /\ Same(run', k)
        BY <1>7, <1>15, <1>17, GoIs
    <2>2. /\ run'.cleaning = run.cleaning /\ run'.incomplete = n /\ run'.release = r
          /\ run'.accepted = run.accepted /\ run'.early = run.early /\ run'.dead = run.dead
          /\ SameSession(run', run) /\ SameResult(run', run) /\ run'.err = run.err
        BY <1>8, <2>1 DEF Same, SameWay, SameSession, SameResult
    <2> QED
        BY <1>14, <2>1, <2>2
<1>18. CASE run.unsettled /\ run.started /\ Go(k, "laststop")
    BY <1>1, <1>2, <1>17, <1>18
<1>19. CASE run.started /\ ~run.settled /\ Go(k, "failstop")
    BY <1>1, <1>2, <1>17, <1>19
<1>20. CASE /\ (run.started => run.settled \/ run.unsettled)
            /\ (run.started /\ run.settled /\ run.stopTried => ~r)
            /\ Go(k, "unaccept")
    BY <1>1, <1>2, <1>17, <1>20
<1> QED
    BY <1>13, <1>16, <1>18, <1>19, <1>20

\* Only a Run that was never accepted removes its manifest here.
LEMMA unacceptIs ==
    ASSUME Typed, cleanupUnacceptedOwnership
    PROVE  /\ run' \in Controllers /\ faults' \in 0..MaxFaults
           /\ run.pc = "unaccept"
           /\ (manifest' = manifest \/ (~run.accepted /\ manifest' = "none"))
           /\ UNCHANGED <<stopAfter, inflight, cancelled, record, bundle, ledger, lock, expired,
                          mirror, maya, workspace, stop, crashes, blind, raced>>
           /\ run'.pc = "unlock" /\ (run.err => run'.err) /\ SameWay(run', run)
           /\ SameSession(run', run) /\ SameResult(run', run) /\ run'.release = run.release
           /\ run'.incomplete = run.incomplete
<1>1. run \in Controllers /\ faults \in 0..MaxFaults
    BY DEF Typed, TypeOK
<1>2. /\ run.pc = "unaccept" /\ (manifest' = manifest \/ (~run.accepted /\ manifest' = "none"))
    BY DEF cleanupUnacceptedOwnership, At
<1>3. UNCHANGED <<stopAfter, inflight, cancelled, record, bundle, ledger, lock, expired, mirror,
            maya, workspace, stop, crashes, blind, raced>>
    BY DEF cleanupUnacceptedOwnership, fileVars, hostVars, tallyVars
<1>4. /\ (Go([run EXCEPT !.err = @ \/ BeatError, !.beat = "off"], "unlock"))
    BY DEF cleanupUnacceptedOwnership
<1>5. faults' \in 0..MaxFaults
    BY <1>1, TryIs DEF cleanupUnacceptedOwnership
<1> QED
    <2>1. PICK a \in BOOLEAN : a = (run.err \/ BeatError)
        OBVIOUS
    <2>2. a \in BOOLEAN
        BY <2>1
    <2>3. PICK j : j = [run EXCEPT !.err = a, !.beat = "off"]
        OBVIOUS
    <2>4. j \in Controllers
        BY <1>1, <2>3, <2>2 DEF Controllers
    <2>5. /\ j.err = a /\ SameWay(j, run) /\ SameSession(j, run) /\ SameResult(j, run)
          /\ j.release = run.release /\ j.incomplete = run.incomplete
        BY <1>1, <2>3, <2>2 DEF Controllers, Same, SameWay, SameSession, SameResult
    <2>6. /\ (run.err => j.err)
        BY <1>4, <2>5, <2>1
    <2>7. Go(j, "unlock")
        BY <2>3, <1>4, <2>1
    <2>8. "unlock" \in Pcs
        BY DEF Pcs, Going, Setting, Using, Stopping, Cleaned, Ending, Deferring
    <2> QED
        BY <1>1, <1>2, <1>3, <1>5, <1>4, <2>4, <2>5, <2>6, <2>7, <2>8, GoIs DEF Same, SameWay,
            SameSession, SameResult

\* A lock that could not be released is reported as an incomplete cleanup.
LEMMA unlockIs ==
    ASSUME Typed, releaseHostLock
    PROVE  /\ run' \in Controllers /\ faults' \in 0..MaxFaults
           /\ run.pc = "unlock" /\ run'.pc = "outcome"
           /\ UNCHANGED <<stopAfter, inflight, cancelled, manifest, record, bundle, ledger,
                          expired, maya, workspace, stop, crashes, blind, raced>>
           /\ \/ ~run.release /\ lock' = lock /\ mirror' = mirror
              \/ /\ run.release /\ Released
                 /\ lock' \notin {"claimed", "active", "kept"} \/ (run'.err /\ run'.incomplete)
           /\ SameWay(run', run) /\ SameSession(run', run) /\ SameResult(run', run)
           /\ run'.release = run.release
           /\ (run.err => run'.err) /\ (run.incomplete => run'.incomplete)
<1>1. run \in Controllers /\ faults \in 0..MaxFaults
    BY DEF Typed, TypeOK
<1>2. /\ run.pc = "unlock"
      /\ UNCHANGED <<stopAfter, inflight, cancelled, manifest, record, bundle, ledger,
                     expired, maya, workspace, stop, crashes, blind, raced>>
    BY DEF releaseHostLock, At, fileVars, tallyVars
<1>3. "outcome" \in Pcs
    BY DEF Pcs, Ending, Deferring
<1>4. CASE ~run.release
    <2>1. Go(run, "outcome") /\ UNCHANGED <<lock, mirror, faults>>
        BY <1>4 DEF releaseHostLock
    <2> QED
        BY <1>1, <1>2, <1>3, <1>4, <2>1, GoIs DEF Same
<1>5. CASE run.release
    <2>1. PICK ok \in BOOLEAN :
            /\ Try(ok) /\ release(ok)
            /\ Go([run EXCEPT !.err = @ \/ ~Releases(ok), !.incomplete = @ \/ ~Releases(ok)], "outcome")
        BY <1>5 DEF releaseHostLock
    <2>3. PICK f \in BOOLEAN : f = ~Releases(ok)
        OBVIOUS
    <2>4. f \in BOOLEAN
        BY <2>3
    <2>5. PICK j : j = [run EXCEPT !.err = @ \/ f, !.incomplete = @ \/ f]
        OBVIOUS
    <2>6. j \in Controllers
        <3>1. PICK i : i = [run EXCEPT !.err = @ \/ f]
            OBVIOUS
        <3>2. i \in Controllers /\ i.incomplete = run.incomplete
            BY <1>1, <2>4, <3>1 DEF Controllers
        <3>3. j = [i EXCEPT !.incomplete = @ \/ f]
            BY <2>5, <3>1, <3>2
        <3> QED
            BY <2>4, <3>2, <3>3 DEF Controllers
    <2>7. /\ SameWay(j, run) /\ SameSession(j, run) /\ SameResult(j, run) /\ j.release = run.release
          /\ (run.err => j.err) /\ (run.incomplete => j.incomplete) /\ (f => (j.err /\ j.incomplete))
        BY <1>1, <2>4, <2>5 DEF Controllers, SameWay, SameSession, SameResult
    <2>8. Go(j, "outcome")
        BY <2>1, <2>3, <2>5
    <2>9. run' \in Controllers /\ run'.pc = "outcome" /\ Same(run', j)
        BY <1>3, <2>6, <2>8, GoIs
    <2>10. faults' \in 0..MaxFaults
        BY <1>1, <2>1, TryIs
    <2>11. Released /\ (~f => lock' \notin {"claimed", "active", "kept"})
        BY <2>1, <2>3, ReleaseIs
    <2>12. /\ SameWay(run', run) /\ SameSession(run', run) /\ SameResult(run', run)
           /\ run'.release = run.release /\ (run.err => run'.err)
           /\ (run.incomplete => run'.incomplete) /\ (f => (run'.err /\ run'.incomplete))
        BY <2>7, <2>9 DEF Same, SameWay, SameSession, SameResult
    <2> QED
        BY <1>2, <1>5, <2>9, <2>10, <2>11, <2>12
<1>6. run.release \in BOOLEAN
    BY <1>1 DEF Controllers
<1> QED
    BY <1>4, <1>5, <1>6

\* How the failure ended: it was accounted for, the session is kept, the cleanup is
\* incomplete, or it was completed.
LEMMA outcomeIs ==
    ASSUME Typed, updateTerminalFailureEvidence
    PROVE  /\ run' \in Controllers /\ faults' \in 0..MaxFaults
           /\ run.pc = "outcome" /\ bundle' \in {bundle, "failed"}
           /\ UNCHANGED <<stopAfter, inflight, cancelled, manifest, record, ledger, lock, expired,
                          mirror, maya, workspace, stop, crashes, blind, raced>>
           /\ \/ /\ ~(run.accepted /\ run.err) /\ run'.pc = "finalize" /\ Same(run', run)
              \/ /\ run.err /\ run.failure \notin {"none", "pending"} /\ run'.pc = "finalize"
                 /\ SameWay(run', run) /\ SameSession(run', run) /\ run'.policy = run.policy
                 /\ run'.failure = run.failure /\ run'.release = run.release
                 /\ run'.err = run.err /\ run'.incomplete = run.incomplete
              \/ /\ run.err /\ run.failure \in {"none", "pending"} /\ run.policy = "kept"
                 /\ run.retained /\ run'.pc = "finalize" /\ run'.failure = "retained"
                 /\ SameWay(run', run) /\ SameSession(run', run) /\ run'.policy = run.policy
                 /\ run'.release = run.release /\ run'.err = run.err
                 /\ run'.incomplete = run.incomplete
              \/ /\ run.err /\ run.failure \in {"none", "pending"} /\ run.incomplete
                 /\ ~(run.policy = "kept" /\ run.retained) /\ run'.pc = "finalize"
                 /\ run'.failure = "failed" /\ run'.policy = "unresolved" /\ SameWay(run', run)
                 /\ SameSession(run', run) /\ run'.release = run.release /\ run'.err = run.err
                 /\ run'.incomplete = run.incomplete
              \/ /\ run.err /\ run.failure \in {"none", "pending"} /\ ~run.incomplete
                 /\ ~(run.policy = "kept" /\ run.retained) /\ run'.pc = "finalize"
                 /\ run'.failure = "completed" /\ run'.policy = "stopped" /\ SameWay(run', run)
                 /\ SameSession(run', run) /\ run'.release = run.release /\ run'.err = run.err
                 /\ run'.incomplete = run.incomplete
<1>1. run \in Controllers /\ faults \in 0..MaxFaults
    BY DEF Typed, TypeOK
<1>2. /\ run.pc = "outcome" /\ bundle' \in {bundle, "failed"}
    BY DEF updateTerminalFailureEvidence, At
<1>3. UNCHANGED <<stopAfter, inflight, cancelled, manifest, record, ledger, lock, expired,
            mirror, maya, workspace, stop, crashes, blind, raced>>
    BY DEF updateTerminalFailureEvidence, fileVars, hostVars, tallyVars
<1>4.
        \/ /\ ~(run.accepted /\ run.err) /\ Go(run, "finalize")
        \/ /\ run.err /\ run.failure \notin {"none", "pending"}
           /\ Go([run EXCEPT !.status = "failed"], "finalize")
        \/ /\ run.err /\ run.failure \in {"none", "pending"} /\ run.policy = "kept"
           /\ run.retained
           /\ Go([[run EXCEPT !.failure = "retained"] EXCEPT !.status = "failed"], "finalize")
        \/ /\ run.err /\ run.failure \in {"none", "pending"} /\ run.incomplete
           /\ ~(run.policy = "kept" /\ run.retained)
           /\ Go([[run EXCEPT !.failure = "failed", !.policy = "unresolved"] EXCEPT !.status = "failed"], "finalize")
        \/ /\ run.err /\ run.failure \in {"none", "pending"} /\ ~run.incomplete
           /\ ~(run.policy = "kept" /\ run.retained)
           /\ Go([[run EXCEPT !.failure = "completed", !.policy = "stopped"] EXCEPT !.status = "failed"], "finalize")
    BY DEF updateTerminalFailureEvidence
<1>5. faults' \in 0..MaxFaults
    BY <1>1, TryIs DEF updateTerminalFailureEvidence
<1>6. CASE /\ ~(run.accepted /\ run.err) /\ Go(run, "finalize")
    <2>1. "finalize" \in Pcs
        BY DEF Pcs, Going, Setting, Using, Stopping, Cleaned, Ending, Deferring
    <2> QED
        BY <1>1, <1>2, <1>3, <1>5, <1>6, <2>1, GoIs DEF Same, SameWay, SameSession, SameResult
<1>7. CASE /\ run.err /\ run.failure \notin {"none", "pending"}
           /\ Go([run EXCEPT !.status = "failed"], "finalize")
    <2>1. PICK j : j = [run EXCEPT !.status = "failed"]
        OBVIOUS
    <2>2. j \in Controllers
        BY <1>1, <2>1 DEF Controllers
    <2>3. /\ SameWay(j, run) /\ SameSession(j, run) /\ j.policy = run.policy
          /\ j.failure = run.failure /\ j.release = run.release /\ j.err = run.err
          /\ j.incomplete = run.incomplete
        BY <1>1, <2>1 DEF Controllers, Same, SameWay, SameSession, SameResult
    <2>4. Go(j, "finalize")
        BY <2>1, <1>7
    <2>5. "finalize" \in Pcs
        BY DEF Pcs, Going, Setting, Using, Stopping, Cleaned, Ending, Deferring
    <2> QED
        BY <1>1, <1>2, <1>3, <1>5, <1>7, <2>2, <2>3, <2>4, <2>5, GoIs DEF Same, SameWay,
            SameSession, SameResult
<1>8. CASE /\ run.err /\ run.failure \in {"none", "pending"} /\ run.policy = "kept"
           /\ run.retained
           /\ Go([[run EXCEPT !.failure = "retained"] EXCEPT !.status = "failed"], "finalize")
    <2>1. PICK j : j = [run EXCEPT !.failure = "retained", !.status = "failed"]
        OBVIOUS
    <2>2. j \in Controllers
        BY <1>1, <2>1 DEF Controllers
    <2>3. /\ j.failure = "retained" /\ SameWay(j, run) /\ SameSession(j, run)
          /\ j.policy = run.policy /\ j.release = run.release /\ j.err = run.err
          /\ j.incomplete = run.incomplete
        BY <1>1, <2>1 DEF Controllers, Same, SameWay, SameSession, SameResult
    <2>4. Go(j, "finalize")
        BY <2>1, <1>8
    <2>5. "finalize" \in Pcs
        BY DEF Pcs, Going, Setting, Using, Stopping, Cleaned, Ending, Deferring
    <2> QED
        BY <1>1, <1>2, <1>3, <1>5, <1>8, <2>2, <2>3, <2>4, <2>5, GoIs DEF Same, SameWay,
            SameSession, SameResult
<1>9. CASE /\ run.err /\ run.failure \in {"none", "pending"} /\ run.incomplete
           /\ ~(run.policy = "kept" /\ run.retained)
           /\ Go([[run EXCEPT !.failure = "failed", !.policy = "unresolved"] EXCEPT !.status = "failed"], "finalize")
    <2>1. PICK j : j = [run EXCEPT !.failure = "failed", !.policy = "unresolved", !.status =
                              "failed"]
        OBVIOUS
    <2>2. j \in Controllers
        BY <1>1, <2>1 DEF Controllers
    <2>3. /\ j.failure = "failed" /\ j.policy = "unresolved" /\ SameWay(j, run)
          /\ SameSession(j, run) /\ j.release = run.release /\ j.err = run.err
          /\ j.incomplete = run.incomplete
        BY <1>1, <2>1 DEF Controllers, Same, SameWay, SameSession, SameResult
    <2>4. Go(j, "finalize")
        BY <2>1, <1>9
    <2>5. "finalize" \in Pcs
        BY DEF Pcs, Going, Setting, Using, Stopping, Cleaned, Ending, Deferring
    <2> QED
        BY <1>1, <1>2, <1>3, <1>5, <1>9, <2>2, <2>3, <2>4, <2>5, GoIs DEF Same, SameWay,
            SameSession, SameResult
<1>10. CASE /\ run.err /\ run.failure \in {"none", "pending"} /\ ~run.incomplete
           /\ ~(run.policy = "kept" /\ run.retained)
           /\ Go([[run EXCEPT !.failure = "completed", !.policy = "stopped"] EXCEPT !.status = "failed"], "finalize")
    <2>1. PICK j : j = [run EXCEPT !.failure = "completed", !.policy = "stopped", !.status =
                              "failed"]
        OBVIOUS
    <2>2. j \in Controllers
        BY <1>1, <2>1 DEF Controllers
    <2>3. /\ j.failure = "completed" /\ j.policy = "stopped" /\ SameWay(j, run)
          /\ SameSession(j, run) /\ j.release = run.release /\ j.err = run.err
          /\ j.incomplete = run.incomplete
        BY <1>1, <2>1 DEF Controllers, Same, SameWay, SameSession, SameResult
    <2>4. Go(j, "finalize")
        BY <2>1, <1>10
    <2>5. "finalize" \in Pcs
        BY DEF Pcs, Going, Setting, Using, Stopping, Cleaned, Ending, Deferring
    <2> QED
        BY <1>1, <1>2, <1>3, <1>5, <1>10, <2>2, <2>3, <2>4, <2>5, GoIs DEF Same, SameWay,
            SameSession, SameResult
<1> QED
    BY <1>4, <1>6, <1>7, <1>8, <1>9, <1>10

\* The terminal record of an accepted Run.
LEMMA finalizeIs ==
    ASSUME Typed, Asked, finalizeRunLedger
    PROVE  /\ run' \in Controllers /\ faults' \in 0..MaxFaults
           /\ run.pc = "finalize" /\ run'.pc = "ended"
           /\ UNCHANGED <<stopAfter, inflight, cancelled, manifest, record, bundle, lock, expired,
                          mirror, maya, workspace, stop, crashes, blind, raced>>
           /\ \/ ledger' = ledger
              \/ /\ run.accepted /\ ledger # None /\ ledger' \in Ledgers
                 /\ ledger'.state = terminalRunLedgerState /\ ledger'.phase = ledger.phase
           /\ run'.accepted = run.accepted /\ run'.early = run.early
           /\ run'.cleaning = run.cleaning
           /\ SameSession(run', run) /\ SameResult(run', run) /\ run'.release = run.release
           /\ run'.err = run.err /\ run'.incomplete = run.incomplete
<1>1. run \in Controllers /\ faults \in 0..MaxFaults
    BY DEF Typed, TypeOK
<1>2. /\ run.pc = "finalize"
      /\ UNCHANGED <<stopAfter, inflight, cancelled, manifest, record, bundle, lock, expired,
                     mirror, maya, workspace, stop, crashes, blind, raced>>
    BY DEF finalizeRunLedger, At, hostVars, tallyVars
<1>3. PICK ok \in BOOLEAN :
        /\ Try(ok)
        /\ ledger' = IF ok /\ run.accepted
                     THEN [ledger EXCEPT !.state = terminalRunLedgerState, !.status = run.status]
                     ELSE ledger
    BY DEF finalizeRunLedger
<1>4. faults' \in 0..MaxFaults
    BY <1>1, <1>3, TryIs
<1>5. PICK d \in BOOLEAN : d = (cancelled = "never")
    OBVIOUS
<1>6. d \in BOOLEAN
    BY <1>5
<1>7. PICK j : j = [run EXCEPT !.dead = d]
    OBVIOUS
<1>8. j \in Controllers
    BY <1>1, <1>6, <1>7 DEF Controllers
<1>9. /\ j.accepted = run.accepted /\ j.early = run.early /\ j.cleaning = run.cleaning
      /\ SameSession(j, run) /\ SameResult(j, run) /\ j.release = run.release
      /\ j.err = run.err /\ j.incomplete = run.incomplete
    BY <1>1, <1>6, <1>7 DEF Controllers, SameSession, SameResult
<1>10. Go(j, "ended")
    BY <1>5, <1>7 DEF finalizeRunLedger
<1>11. "ended" \in Pcs
    BY DEF Pcs, Ending
<1>12. run' \in Controllers /\ run'.pc = "ended" /\ Same(run', j)
    BY <1>8, <1>10, <1>11, GoIs
<1>13. /\ run'.accepted = run.accepted /\ run'.early = run.early /\ run'.cleaning = run.cleaning
       /\ SameSession(run', run) /\ SameResult(run', run) /\ run'.release = run.release
       /\ run'.err = run.err /\ run'.incomplete = run.incomplete
    BY <1>9, <1>12 DEF Same, SameWay, SameSession, SameResult
<1>14. \/ ledger' = ledger
       \/ /\ run.accepted /\ ledger # None /\ ledger' \in Ledgers
          /\ ledger'.state = terminalRunLedgerState /\ ledger'.phase = ledger.phase
    <2>1. CASE ok /\ run.accepted
        <3>1. ledger # None /\ ledger \in Ledgers
            BY <2>1 DEF Asked, Typed, TypeOK
        <3>2. PICK st : st = terminalRunLedgerState
            OBVIOUS
        <3>3. st \in {"submitted", "completed", "failed", "kept", "cleanup-failed"}
            BY <3>2 DEF terminalRunLedgerState
        <3>4. run.status \in {"", "passed", "failed"}
            BY <1>1 DEF Controllers
        <3>5. ledger' = [ledger EXCEPT !.state = st, !.status = run.status]
            BY <1>3, <2>1, <3>2
        <3> QED
            BY <2>1, <3>1, <3>2, <3>3, <3>4, <3>5 DEF Ledgers
    <2>2. CASE ~(ok /\ run.accepted)
        BY <1>3, <2>2
    <2> QED
        BY <2>1, <2>2
<1> QED
    BY <1>2, <1>4, <1>12, <1>13, <1>14

\* Both phases that the cleanup records, after the workspace and after the lock.
LEMMA finishStoppedRunCleanupIs ==
    ASSUME Typed, finishStoppedRunCleanup
    PROVE  /\ run' \in Controllers /\ faults' \in 0..MaxFaults
           /\ UNCHANGED <<stopAfter, inflight, cancelled, manifest, bundle, lock, expired, mirror,
                          maya, workspace, stop, crashes, blind, raced>>
           /\ \/ /\ run.pc = "cleaned" /\ (record' = record \/ Recorded("kept", "broker-cleaned"))
                 /\ \/ Advanced("broker-cleaned") /\ run'.pc = "free" /\ Same(run', run)
                    \/ ledger' = ledger /\ Returned(FALSE)
              \/ /\ run.pc = "freed" /\ (record' = record \/ Recorded("kept", "host-lock-released"))
                 /\ \/ Advanced("host-lock-released") /\ run'.pc = "remove" /\ Same(run', run)
                    \/ ledger' = ledger /\ Returned(FALSE)
<1>1. "free" \in Pcs /\ "remove" \in Pcs
    BY DEF Pcs, Stopping, Cleaned
<1>2. CASE recordStopPhase("cleaned", "broker-cleaned", "free")
    BY <1>1, <1>2, recordStopPhaseIs
<1>3. CASE recordStopPhase("freed", "host-lock-released", "remove")
    BY <1>1, <1>3, recordStopPhaseIs
<1> QED
    BY <1>2, <1>3 DEF finishStoppedRunCleanup

\* A session is only bound by a Run that has its Run Record.
LEMMA BoundIs == ASSUME Typed, Untouched, bindSession PROVE record \in Records
    BY DEF Typed, TypeOK, Untouched, bindSession, At, Going, Using

\* The ledger record of an accepted Run is submitted, without a stop phase.
LEMMA SubmittedIs ==
    Submitted \in Ledgers /\ Submitted # None /\ Submitted.state = "submitted" /\ Submitted.phase = ""
<1>1. Submitted \in Ledgers
    BY DEF Submitted, Ledgers
<1>2. Submitted.state = "submitted" /\ Submitted.phase = ""
    BY DEF Submitted
<1> QED
    BY <1>1, <1>2, NoneIs

\* What a session can be turned into.
LEMMA QuietIs ==
    ASSUME Typed
    PROVE  /\ maya \in Sessions
           /\ NoSession \in Sessions /\ NoSession.id = maya.id /\ ~NoSession.alive
           /\ Ours \in Sessions /\ Ours.id = "ours" /\ Ours.alive
    BY DEF Typed, TypeOK, Sessions, NoSession, Ours

-----------------------------------------------------------------------------
(* The stopping processes.                                                 *)

\* A step of s: the others stay where they are.
Others(s) == stop' \in [Stops -> Stoppers] /\ \A t \in Stops : t # s => stop'[t] = stop[t]
Moves(s, p) == /\ Others(s) /\ stop'[s].pc = p
               /\ stop'[s].rec = stop[s].rec /\ stop'[s].err = stop[s].err
Refused(s) == /\ Others(s) /\ stop'[s].pc = "update"
              /\ stop'[s].rec = stop[s].rec /\ stop'[s].err
Rests(s) == Others(s) /\ stop'[s].pc = "idle" /\ stop'[s].rec = None /\ ~stop'[s].err

StopPcs == {"idle", "prepare", "read", "update"} \cup Past

\* A process that stops the Run, and one that rests.
LEMMA StoppersIs == /\ Stoppers = [pc : StopPcs, rec : Records \cup {None}, err : BOOLEAN]
                    /\ Idle \in Stoppers /\ Idle.pc = "idle" /\ Idle.rec = None /\ ~Idle.err
    BY DEF Stoppers, StopPcs, Idle

\* A step of one process changes that process alone.
LEMMA StepIs ==
    ASSUME Typed, NEW s \in Stops, NEW k \in Stoppers, NEW p \in StopPcs, Step(s, k, p)
    PROVE  /\ Others(s) /\ stop'[s].pc = p /\ stop'[s].rec = k.rec /\ stop'[s].err = k.err
<1>1. stop \in [Stops -> Stoppers]
    BY DEF Typed
<1>2. PICK j : j = [k EXCEPT !.pc = p]
    OBVIOUS
<1>3. j \in Stoppers /\ j.pc = p /\ j.rec = k.rec /\ j.err = k.err
    BY <1>2, StoppersIs
<1>4. stop' = [stop EXCEPT ![s] = j]
    BY <1>2 DEF Step
<1> QED
    BY <1>1, <1>3, <1>4 DEF Others

\* A move keeps what the process has read.
LEMMA MoveIs ==
    ASSUME Typed, NEW s \in Stops, NEW p \in StopPcs, Step(s, stop[s], p)
    PROVE  Moves(s, p)
<1>1. stop[s] \in Stoppers
    BY DEF Typed
<1> QED
    BY <1>1, StepIs DEF Moves

\* A refusal goes to the update of the ledger with an error.
LEMMA RefuseIs == ASSUME Typed, NEW s \in Stops, Refuse(s) PROVE Refused(s)
<1>1. stop[s] \in Stoppers
    BY DEF Typed
<1>2. PICK j : j = [stop[s] EXCEPT !.err = TRUE]
    OBVIOUS
<1>3. j \in Stoppers /\ j.rec = stop[s].rec /\ j.err
    BY <1>1, <1>2, StoppersIs
<1>4. Step(s, j, "update")
    BY <1>2 DEF Refuse
<1>5. "update" \in StopPcs
    BY DEF StopPcs
<1> QED
    BY <1>3, <1>4, <1>5, StepIs DEF Refused

\* A process at rest has read nothing.
LEMMA RestIs ==
    ASSUME Typed, NEW s \in Stops, stop' = [stop EXCEPT ![s] = Idle]
    PROVE  Rests(s)
<1>1. stop \in [Stops -> Stoppers]
    BY DEF Typed
<1> QED
    BY <1>1, StoppersIs DEF Rests, Others

\* A stop or the sweep begins only for a Run that is in the ledger.
LEMMA askIs ==
    ASSUME Typed, NEW s \in Stops, stopRun(s) \/ sweepKeptSessions(s)
    PROVE  /\ faults' \in 0..MaxFaults /\ stop[s].pc = "idle" /\ ledger # None
           /\ UNCHANGED <<stopAfter, run, inflight, cancelled, manifest, record, bundle, ledger,
                          lock, expired, mirror, maya, workspace, crashes, blind, raced>>
           /\ Others(s) /\ stop'[s].pc = "prepare" /\ stop'[s].rec = None /\ ~stop'[s].err
<1>1. faults \in 0..MaxFaults
    BY DEF Typed, TypeOK
<1>2. /\ stop[s].pc = "idle" /\ ledger # None /\ faults' = faults
      /\ UNCHANGED <<stopAfter, run, inflight, cancelled, manifest, record, bundle, ledger,
                     lock, expired, mirror, maya, workspace, crashes, blind, raced>>
      /\ Step(s, Idle, "prepare")
    BY DEF stopRun, sweepKeptSessions, In, StopQuiet, runVars
<1>3. "prepare" \in StopPcs
    BY DEF StopPcs
<1> QED
    BY <1>1, <1>2, <1>3, StepIs, StoppersIs

\* A submitted Run that can be reconciled gets the phase of its Run Record.
Reconciles ==
  /\ ledger' \in Ledgers /\ ledger'.phase = (IF record = None THEN "" ELSE record.phase)
  /\ ledger'.state = IF record # None /\ (record.status = "running" \/ record.phase # "")
                     THEN "cleanup-failed" ELSE "kept"

\* Reconciliation writes a ledger record, and the phase of the Run Record.
LEMMA ReconciledIs == ASSUME Typed, ledger' = Reconciled PROVE Reconciles
<1>1. record \in Records \cup {None} /\ bundle \in {"none", "passed", "failed"}
    BY DEF Typed, TypeOK
<1>2. PICK st : st = IF record # None /\ (record.status = "running" \/ record.phase # "")
                    THEN "cleanup-failed" ELSE "kept"
    OBVIOUS
<1>3. PICK ph : ph = IF record = None THEN "" ELSE record.phase
    OBVIOUS
<1>4. PICK b : b = IF bundle = "none" THEN "failed" ELSE bundle
    OBVIOUS
<1>5. ledger' = [state |-> st, status |-> b, phase |-> ph]
    BY <1>2, <1>3, <1>4 DEF Reconciled
<1>6. /\ st \in {"cleanup-failed", "kept"} /\ b \in {"passed", "failed"}
      /\ ph \in {"", "session-stopped", "broker-cleaned", "host-lock-released"}
    BY <1>1, <1>2, <1>3, <1>4 DEF Records
<1>7. PICK l : l = [state |-> st, status |-> b, phase |-> ph]
    OBVIOUS
<1>8. l \in Ledgers /\ l.state = st /\ l.phase = ph
    BY <1>6, <1>7 DEF Ledgers
<1> QED
    BY <1>2, <1>3, <1>5, <1>7, <1>8 DEF Reconciles

\* A stop reads the ledger, reconciled if the controller left it submitted.
LEMMA prepareIs ==
    ASSUME Typed, NEW s \in Stops, Asked, prepareRunLedgerForStop(s)
    PROVE  /\ faults' \in 0..MaxFaults /\ stop[s].pc = "prepare"
           /\ UNCHANGED <<stopAfter, run, inflight, cancelled, manifest, record, bundle, lock,
                          expired, mirror, maya, workspace, crashes, blind, raced>>
           /\ \/ /\ ledger' = ledger /\ (Moves(s, "read") \/ Moves(s, "idle"))
              \/ /\ ledger.state = "submitted" /\ CanReconcile /\ Reconciles /\ Moves(s, "read")
<1>1. faults \in 0..MaxFaults
    BY DEF Typed, TypeOK
<1>2. stop[s].pc = "prepare" /\ UNCHANGED <<stopAfter, run, inflight, cancelled, manifest,
      record, bundle, lock, expired, mirror, maya, workspace, crashes, blind, raced>>
    BY DEF prepareRunLedgerForStop, StopQuiet, runVars, In
<1>3. ledger \in Ledgers
    BY <1>2 DEF Asked, Typed, TypeOK
<1>4. PICK ok \in BOOLEAN :
        /\ Try(ok)
        /\ LET pass == ok /\ (ledger.state = "submitted" => CanReconcile)
           IN /\ ledger' = IF pass /\ ledger.state = "submitted" THEN Reconciled ELSE ledger
              /\ Step(s, stop[s], IF pass THEN "read" ELSE "idle")
    BY DEF prepareRunLedgerForStop
<1>5. faults' \in 0..MaxFaults
    BY <1>1, <1>4, TryIs
<1>6. {"read", "idle"} \subseteq StopPcs
    BY DEF StopPcs
<1>7. CASE ok /\ ledger.state = "submitted" /\ CanReconcile
    <2>1. ledger' = Reconciled /\ Step(s, stop[s], "read")
        BY <1>4, <1>7
    <2>2. Reconciles
        BY <2>1, ReconciledIs
    <2> QED
        BY <1>2, <1>5, <1>6, <1>7, <2>1, <2>2, MoveIs
<1>8. CASE ~(ok /\ ledger.state = "submitted" /\ CanReconcile)
    <2>1. ledger' = ledger /\ (Step(s, stop[s], "read") \/ Step(s, stop[s], "idle"))
        BY <1>4, <1>8
    <2> QED
        BY <1>2, <1>5, <1>6, <2>1, MoveIs
<1> QED
    BY <1>7, <1>8

\* The Run Record that a stop has read, and what it found before it went on.
Reads(r) ==
  /\ r \in Records /\ r.status = record.status
  /\ r.phase = (IF record.phase = "" THEN ledger.phase ELSE record.phase)
  /\ r.session = IF record.session = "" /\ manifest = "session" THEN "ours" ELSE record.session
Recovers(r) == ledger.state = "cleanup-failed" /\ r.status = "running" /\ r.phase = ""

\* A stop takes the Run Record as it is, but for the status and phase it recovers.
LEMMA ReadIs == ASSUME record \in Records, ledger \in Ledgers PROVE Reads(ReadRecord)
<1>1. PICK ph : ph = IF record.phase = "" THEN ledger.phase ELSE record.phase
    OBVIOUS
<1>2. PICK se : se = IF record.session = "" /\ manifest = "session" THEN "ours" ELSE record.session
    OBVIOUS
<1>3. /\ ph \in {"", "session-stopped", "broker-cleaned", "host-lock-released"} /\ se \in {"", "ours"}
    BY <1>1, <1>2 DEF Records, Ledgers
<1>4. PICK r : r = [record EXCEPT !.phase = ph, !.session = se]
    OBVIOUS
<1>5. ReadRecord = r
    BY <1>1, <1>2, <1>4 DEF ReadRecord
<1>6. r \in Records /\ r.status = record.status /\ r.phase = ph /\ r.session = se
    BY <1>3, <1>4 DEF Records
<1> QED
    BY <1>1, <1>2, <1>5, <1>6 DEF Reads

\* A stop has nothing left to do, refuses, or passes its checks: the lock is a
\* kept one unless the files say how far an earlier stop has come.
LEMMA stopKeptRunIs ==
    ASSUME Typed, NEW s \in Stops, Asked, stopKeptRun(s)
    PROVE  /\ faults' \in 0..MaxFaults /\ stop[s].pc = "read" /\ ledger \in Ledgers
           /\ UNCHANGED <<stopAfter, run, inflight, cancelled, manifest, bundle, ledger, lock,
                          expired, mirror, maya, workspace, crashes, blind>>
           /\ \/ /\ manifest = "none" /\ ledger.phase = "host-lock-released" /\ record' = None
                 /\ raced' = raced /\ Moves(s, "update")
              \/ record' = record /\ raced' = raced /\ Refused(s)
              \/ /\ manifest # "none" /\ record \in Records /\ record' = record
                 /\ raced' \in BOOLEAN /\ (raced' <=> raced \/ Live)
                 /\ Others(s) /\ stop'[s].rec \in Records /\ Reads(stop'[s].rec)
                 /\ stop'[s].err = stop[s].err
                 /\ stop'[s].pc = (CASE stop'[s].rec.phase = "host-lock-released" -> "mirror"
                                     [] stop'[s].rec.phase = "broker-cleaned" -> "checkpoint"
                                     [] OTHER -> "broker")
                 /\ (stop'[s].rec.phase = "" =>
                       \/ lock = "kept"
                       \/ Recovers(stop'[s].rec) /\ mirror = "active" /\ lock \in {"active", "kept"})
<1>1. faults \in 0..MaxFaults /\ record \in Records \cup {None} /\ raced \in BOOLEAN
    BY DEF Typed, TypeOK
<1>2. /\ stop[s].pc = "read" /\ faults' = faults
      /\ UNCHANGED <<stopAfter, run, inflight, cancelled, manifest, bundle, ledger, lock,
                     expired, mirror, maya, workspace, crashes, blind>>
    BY DEF stopKeptRun, StopQuiet, runVars, In
<1>3. ledger \in Ledgers
    BY <1>2 DEF Asked, Typed, TypeOK
<1>4. "update" \in StopPcs
    BY DEF StopPcs
<1>5. CASE manifest = "none" \/ record = None
    <2>1. raced' = raced
        BY <1>5 DEF stopKeptRun
    <2>2. CASE manifest = "none" /\ ledger.phase = "host-lock-released"
        <3>1. record' = None /\ Step(s, stop[s], "update")
            BY <1>5, <2>2 DEF stopKeptRun
        <3> QED
            BY <1>1, <1>2, <1>3, <1>4, <2>1, <2>2, <3>1, MoveIs
    <2>3. CASE ~(manifest = "none" /\ ledger.phase = "host-lock-released")
        <3>1. record' = record /\ Refuse(s)
            BY <1>5, <2>3 DEF stopKeptRun
        <3> QED
            BY <1>1, <1>2, <1>3, <2>1, <3>1, RefuseIs
    <2> QED
        BY <2>2, <2>3
<1>6. CASE ~(manifest = "none" \/ record = None)
    <2>1. PICK r : r = ReadRecord
        OBVIOUS
    <2>2. record \in Records /\ manifest # "none"
        BY <1>1, <1>6
    <2>3. Reads(r)
        BY <1>3, <2>1, <2>2, ReadIs
    <2>4. PICK recovery \in BOOLEAN :
            recovery = (ledger.state = "cleanup-failed" /\ r.status = "running" /\ r.phase = "")
        OBVIOUS
    <2>5. PICK pass \in BOOLEAN : pass = (r.phase = "host-lock-released" \/ MayStop(r, recovery))
        OBVIOUS
    <2>6. PICK next : next = CASE r.phase = "host-lock-released" -> "mirror"
                               [] r.phase = "broker-cleaned" -> "checkpoint"
                               [] OTHER -> "broker"
        OBVIOUS
    <2>7. /\ IF pass THEN Step(s, [stop[s] EXCEPT !.rec = r], next) ELSE Refuse(s)
          /\ raced' = (raced \/ (pass /\ Live))
          /\ record' = record
        BY <1>6, <2>1, <2>4, <2>5, <2>6 DEF stopKeptRun
    <2>8. CASE ~pass
        BY <1>1, <1>2, <1>3, <2>7, <2>8, RefuseIs
    <2>9. CASE pass
        <3>1. stop[s] \in Stoppers /\ r \in Records
            BY <2>3 DEF Typed, Reads
        <3>2. PICK k : k = [stop[s] EXCEPT !.rec = r]
            OBVIOUS
        <3>3. k \in Stoppers /\ k.rec = r /\ k.err = stop[s].err
            BY <3>1, <3>2, StoppersIs
        <3>4. Step(s, k, next)
            BY <2>7, <2>9, <3>2
        <3>5. next \in StopPcs
            BY <2>6 DEF StopPcs, Past, Emptied, Freed
        <3>6. Others(s) /\ stop'[s].pc = next /\ stop'[s].rec = r /\ stop'[s].err = stop[s].err
            BY <3>3, <3>4, <3>5, StepIs
        <3>7. raced' \in BOOLEAN /\ (raced' <=> raced \/ Live)
            BY <1>1, <2>7, <2>9
        <3>8. r.phase = "" =>
                \/ lock = "kept"
                \/ Recovers(r) /\ mirror = "active" /\ lock \in {"active", "kept"}
            BY <2>4, <2>5, <2>9 DEF MayStop, LockNamesRun, Recovers, repoHostLockUsesActiveRun,
               verifyCleanupHostSideLockForRun, verifyKeptHostSideLockForRun
        <3> QED
            BY <1>1, <1>2, <1>3, <2>2, <2>3, <2>6, <2>7, <3>1, <3>6, <3>7, <3>8
    <2> QED
        BY <2>8, <2>9
<1> QED
    BY <1>5, <1>6

\* A stop touches no session but the recorded one.
Stops1(s) == /\ stop[s].rec.session = "ours" /\ maya.id = "ours" /\ maya'.id = "ours"
             /\ ~maya'.alive /\ maya' \in Sessions

\* A stop goes on when the recorded session is down.
LEMMA StopRetainedRunIs ==
    ASSUME Typed, NEW s \in Stops, StopRetainedRun(s)
    PROVE  /\ faults' \in 0..MaxFaults /\ stop[s].pc = "broker"
           /\ UNCHANGED <<stopAfter, run, inflight, cancelled, manifest, record, bundle, ledger,
                          lock, expired, mirror, workspace, crashes, blind, raced>>
           /\ \/ /\ (maya' = maya \/ Stops1(s)) /\ Moves(s, "workspace")
                 /\ (stop[s].rec.session = "ours" => ~(maya'.id = "ours" /\ maya'.alive))
              \/ /\ (maya' = maya \/ Stops1(s)) /\ Refused(s)
<1>1. faults \in 0..MaxFaults
    BY DEF Typed, TypeOK
<1>2. stop[s].pc = "broker" /\ UNCHANGED <<stopAfter, run, inflight, cancelled, manifest,
      record, bundle, ledger, lock, expired, mirror, workspace, crashes, blind, raced>>
    BY DEF StopRetainedRun, StopQuiet, runVars, In
<1>3. PICK kept \in BOOLEAN : kept = (StatusRetainedRun(stop[s].rec) = "kept")
    OBVIOUS
<1>4. PICK ok \in BOOLEAN :
        /\ Try(ok)
        /\ maya' \in IF kept /\ keptHostLockFence THEN stopSessiondSession(ok) ELSE {maya}
        /\ StopStep(s, ok /\ (kept => keptHostLockFence), "workspace")
    BY <1>3 DEF StopRetainedRun
<1>5. faults' \in 0..MaxFaults
    BY <1>1, <1>4, TryIs
<1>6. maya \in Sessions
    BY DEF Typed, TypeOK, Sessions
<1>7. kept <=> stop[s].rec.session = "ours" /\ maya.id = "ours" /\ maya.alive
    BY <1>3 DEF StatusRetainedRun, OwnSession
<1>8. maya' = maya \/ Stops1(s)
    BY <1>4, <1>6, <1>7, NoSessionIs DEF stopSessiondSession, Stops1
<1>9. "workspace" \in StopPcs
    BY DEF StopPcs, Past
<1>10. CASE ok /\ (kept => keptHostLockFence)
    <2>1. Moves(s, "workspace")
        BY <1>4, <1>9, <1>10, MoveIs DEF StopStep
    <2>2. stop[s].rec.session = "ours" => ~(maya'.id = "ours" /\ maya'.alive)
        BY <1>4, <1>6, <1>7, <1>10, NoSessionIs DEF stopSessiondSession
    <2> QED
        BY <1>2, <1>5, <1>8, <2>1, <2>2
<1>11. CASE ~(ok /\ (kept => keptHostLockFence))
    <2>1. Refused(s)
        BY <1>4, <1>11, RefuseIs DEF StopStep
    <2> QED
        BY <1>2, <1>5, <1>8, <2>1
<1> QED
    BY <1>10, <1>11

\* A stop goes on when the remote workspace is gone.
LEMMA removeRemotePathIs ==
    ASSUME Typed, NEW s \in Stops, removeRemotePath(s)
    PROVE  /\ faults' \in 0..MaxFaults /\ stop[s].pc = "workspace" /\ workspace' \in BOOLEAN /\ (workspace' => workspace)
           /\ UNCHANGED <<stopAfter, run, inflight, cancelled, manifest, record, bundle, ledger,
                          lock, expired, mirror, maya, crashes, blind, raced>>
           /\ \/ /\ ~workspace' /\ Moves(s, "checkpoint")
              \/ /\ Refused(s)
<1>1. faults \in 0..MaxFaults
    BY DEF Typed, TypeOK
<1>2. stop[s].pc = "workspace" /\ workspace' \in BOOLEAN /\ (workspace' => workspace) /\
      UNCHANGED <<stopAfter, run, inflight, cancelled, manifest, record, bundle, ledger, lock,
      expired, mirror, maya, crashes, blind, raced>>
    BY DEF removeRemotePath, StopQuiet, runVars, In
<1>3. PICK ok \in BOOLEAN : Try(ok) /\ workspace' = (workspace /\ ~ok) /\ StopStep(s, ok, "checkpoint")
    BY DEF removeRemotePath
<1>4. faults' \in 0..MaxFaults
    BY <1>1, <1>3, TryIs
<1>5. "checkpoint" \in StopPcs
    BY DEF StopPcs, Past, Emptied
<1>6. CASE ok
    BY <1>2, <1>3, <1>4, <1>5, <1>6, MoveIs DEF StopStep
<1>7. CASE ~ok
    BY <1>2, <1>3, <1>4, <1>7, RefuseIs DEF StopStep
<1> QED
    BY <1>6, <1>7

\* A stop goes on when its phase is in the ledger.
LEMMA StopPhaseIs ==
    ASSUME Typed, NEW s \in Stops, NEW pc \in Past, NEW phase \in {"broker-cleaned",
        "host-lock-released"}, NEW next \in StopPcs, Asked, StopPhase(s, pc, phase, next)
    PROVE  /\ faults' \in 0..MaxFaults /\ stop[s].pc = pc
           /\ UNCHANGED <<stopAfter, run, inflight, cancelled, manifest, bundle, lock, expired,
                          mirror, maya, workspace, crashes, blind, raced>>
           /\ \/ /\ Advanced(phase) /\ (record' = record \/ record' = stop'[s].rec) /\ Others(s)
                 /\ stop'[s].pc = next /\ stop'[s].rec \in Records /\ stop'[s].rec.phase = phase
                 /\ stop'[s].rec.status = stop[s].rec.status
                 /\ stop'[s].rec.session = stop[s].rec.session /\ stop'[s].err = stop[s].err
              \/ /\ ledger' = ledger /\ record' = record /\ Refused(s)
<1>1. faults \in 0..MaxFaults
    BY DEF Typed, TypeOK
<1>2. stop[s].pc = pc /\ UNCHANGED <<stopAfter, run, inflight, cancelled, manifest, bundle,
      lock, expired, mirror, maya, workspace, crashes, blind, raced>>
    BY DEF StopPhase, StopQuiet, runVars, In
<1>3. stop[s] \in Stoppers /\ stop[s].rec \in Records
    BY <1>2, StoppersIs DEF Typed, Asked
<1>4. PICK ok \in BOOLEAN, written \in BOOLEAN :
        /\ Try(ok /\ written) /\ (written \/ ok)
        /\ checkpointRunLedgerStopPhase(ok, phase)
        /\ LET r == [stop[s].rec EXCEPT !.phase = phase]
           IN /\ record' = IF CanCheckpoint(ok) /\ written THEN r ELSE record
              /\ IF CanCheckpoint(ok) THEN Step(s, [stop[s] EXCEPT !.rec = r], next) ELSE Refuse(s)
    BY DEF StopPhase
<1>5. faults' \in 0..MaxFaults
    BY <1>1, <1>4, TryIs
<1>6. PICK r : r = [stop[s].rec EXCEPT !.phase = phase]
    OBVIOUS
<1>7. /\ r \in Records /\ r.phase = phase /\ r.status = stop[s].rec.status
      /\ r.session = stop[s].rec.session
    BY <1>3, <1>6 DEF Records
<1>8. PICK k : k = [stop[s] EXCEPT !.rec = r]
    OBVIOUS
<1>9. k \in Stoppers /\ k.rec = r /\ k.err = stop[s].err
    BY <1>3, <1>7, <1>8, StoppersIs
<1>10. CASE CanCheckpoint(ok)
    <2>1. Advanced(phase)
        BY <1>4, <1>10, CheckpointIs
    <2>2. Step(s, k, next) /\ (record' = record \/ record' = r)
        BY <1>4, <1>6, <1>8, <1>10
    <2>3. Others(s) /\ stop'[s].pc = next /\ stop'[s].rec = r /\ stop'[s].err = stop[s].err
        BY <1>9, <2>2, StepIs
    <2> QED
        BY <1>2, <1>5, <1>7, <2>1, <2>2, <2>3
<1>11. CASE ~CanCheckpoint(ok)
    <2>1. ledger' = ledger
        BY <1>4, <1>11, CheckpointIs
    <2>2. record' = record /\ Refuse(s)
        BY <1>4, <1>11
    <2> QED
        BY <1>2, <1>5, <2>1, <2>2, RefuseIs
<1> QED
    BY <1>10, <1>11

\* A stop releases the lock in whatever state the Run left it; doing so above a session
\* it could not know of is blind.
LEMMA releaseHostSideIs ==
    ASSUME Typed, NEW s \in Stops, releaseHostSideLock(s)
    PROVE  /\ faults' \in 0..MaxFaults /\ stop[s].pc = "release" /\ (blind => blind') /\ blind' \in BOOLEAN
           /\ UNCHANGED <<stopAfter, run, inflight, cancelled, manifest, record, bundle, ledger,
                          expired, mirror, maya, workspace, crashes, raced>>
           /\ \/ /\ lock' = (IF lock \in {"active", "kept"} THEN "none" ELSE lock)
                 /\ (lock' # lock /\ OwnSession /\ stop[s].rec.session = "" => blind')
                 /\ Moves(s, "mirror")
              \/ /\ lock' = lock /\ Refused(s)
<1>1. faults \in 0..MaxFaults
    BY DEF Typed, TypeOK
<1>2. stop[s].pc = "release" /\ (blind => blind') /\ blind' \in BOOLEAN /\ UNCHANGED
      <<stopAfter, run, inflight, cancelled, manifest, record, bundle, ledger, expired, mirror,
      maya, workspace, crashes, raced>>
    BY DEF releaseHostSideLock, StopQuiet, runVars, In
<1>3. PICK ok \in BOOLEAN :
        /\ Try(ok)
        /\ lock' = IF ok /\ lock \in {"active", "kept"} THEN "none" ELSE lock
        /\ blind' = (blind \/ (lock' # lock /\ OwnSession /\ stop[s].rec.session = ""))
        /\ StopStep(s, ok, "mirror")
    BY DEF releaseHostSideLock
<1>4. faults' \in 0..MaxFaults
    BY <1>1, <1>3, TryIs
<1>5. "mirror" \in StopPcs
    BY DEF StopPcs, Past, Emptied, Freed
<1>6. CASE ok
    BY <1>2, <1>3, <1>4, <1>5, <1>6, MoveIs DEF StopStep
<1>7. CASE ~ok
    BY <1>2, <1>3, <1>4, <1>7, RefuseIs DEF StopStep
<1> QED
    BY <1>6, <1>7

\* The mirror goes after the lock.
LEMMA removeMirrorIs ==
    ASSUME Typed, NEW s \in Stops, removeRepoHostLockForRun(s)
    PROVE  /\ faults' \in 0..MaxFaults /\ stop[s].pc = "mirror" /\ mirror' \in {mirror, "none"}
           /\ UNCHANGED <<stopAfter, run, inflight, cancelled, manifest, record, bundle, ledger,
                          lock, expired, maya, workspace, crashes, blind, raced>>
           /\ \/ /\ Moves(s, "released")
              \/ /\ Refused(s)
<1>1. faults \in 0..MaxFaults
    BY DEF Typed, TypeOK
<1>2. stop[s].pc = "mirror" /\ mirror' \in {mirror, "none"} /\ UNCHANGED <<stopAfter, run,
      inflight, cancelled, manifest, record, bundle, ledger, lock, expired, maya, workspace,
      crashes, blind, raced>>
    BY DEF removeRepoHostLockForRun, StopQuiet, runVars, In
<1>3. PICK ok \in BOOLEAN : Try(ok) /\ StopStep(s, ok /\ mirror # "claimed", "released")
    BY DEF removeRepoHostLockForRun
<1>4. faults' \in 0..MaxFaults
    BY <1>1, <1>3, TryIs
<1>5. "released" \in StopPcs
    BY DEF StopPcs, Past, Emptied, Freed
<1>6. CASE ok /\ mirror # "claimed"
    BY <1>2, <1>3, <1>4, <1>5, <1>6, MoveIs DEF StopStep
<1>7. CASE ~(ok /\ mirror # "claimed")
    BY <1>2, <1>3, <1>4, <1>7, RefuseIs DEF StopStep
<1> QED
    BY <1>6, <1>7

\* A stop removes the manifest and the Run Record together.
LEMMA cleanupStoppedIs ==
    ASSUME Typed, NEW s \in Stops, cleanupStoppedRunState(s)
    PROVE  /\ faults' \in 0..MaxFaults /\ stop[s].pc = "remove"
           /\ UNCHANGED <<stopAfter, run, inflight, cancelled, bundle, ledger, lock, expired,
                          mirror, maya, workspace, crashes, blind, raced>>
           /\ \/ /\ manifest' = "none" /\ record' = None /\ Moves(s, "update")
              \/ /\ manifest' = manifest /\ record' = record /\ Refused(s)
<1>1. faults \in 0..MaxFaults
    BY DEF Typed, TypeOK
<1>2. stop[s].pc = "remove" /\ UNCHANGED <<stopAfter, run, inflight, cancelled, bundle, ledger,
      lock, expired, mirror, maya, workspace, crashes, blind, raced>>
    BY DEF cleanupStoppedRunState, StopQuiet, runVars, In
<1>3. PICK ok \in BOOLEAN :
        /\ Try(ok)
        /\ manifest' = IF ok THEN "none" ELSE manifest
        /\ record' = IF ok THEN None ELSE record
        /\ StopStep(s, ok, "update")
    BY DEF cleanupStoppedRunState
<1>4. faults' \in 0..MaxFaults
    BY <1>1, <1>3, TryIs
<1>5. "update" \in StopPcs
    BY DEF StopPcs
<1>6. CASE ok
    BY <1>2, <1>3, <1>4, <1>5, <1>6, MoveIs DEF StopStep
<1>7. CASE ~ok
    BY <1>2, <1>3, <1>4, <1>7, RefuseIs DEF StopStep
<1> QED
    BY <1>6, <1>7

\* The ledger is finished only by a stop without an error.
LEMMA updateIs ==
    ASSUME Typed, NEW s \in Stops, Asked, updateRunLedgerAfterStop(s)
    PROVE  /\ faults' \in 0..MaxFaults /\ stop[s].pc = "update" /\ Rests(s) /\ ledger \in Ledgers
           /\ UNCHANGED <<stopAfter, run, inflight, cancelled, manifest, record, bundle, lock,
                          expired, mirror, maya, workspace, crashes, blind, raced>>
           /\ \/ /\ ledger' = ledger
              \/ /\ ledger.state \in {"kept", "cleanup-failed"} /\ ledger' \in Ledgers
                 /\ ledger'.state = "cleanup-failed" /\ ledger'.phase = ledger.phase
              \/ /\ ledger.state \in {"kept", "cleanup-failed"} /\ ~stop[s].err
                 /\ ledger' \in Ledgers /\ ledger'.state \in {"completed", "failed"}
                 /\ ledger'.phase = ""
<1>1. faults \in 0..MaxFaults
    BY DEF Typed, TypeOK
<1>2. stop[s].pc = "update" /\ Rests(s) /\ ledger \in Ledgers /\ UNCHANGED <<stopAfter, run,
      inflight, cancelled, manifest, record, bundle, lock, expired, mirror, maya, workspace,
      crashes, blind, raced>>
    BY RestIs DEF updateRunLedgerAfterStop, StopQuiet, runVars, In, Asked, Typed, TypeOK
<1>3. PICK ok \in BOOLEAN :
        /\ Try(ok)
        /\ ledger' = IF ~ok \/ ledger.state \notin {"kept", "cleanup-failed"} THEN ledger
                     ELSE IF stop[s].err THEN [ledger EXCEPT !.state = "cleanup-failed"]
                     ELSE [ledger EXCEPT !.phase = "", !.state =
                             IF ledger.status = "passed" THEN "completed" ELSE "failed"]
    BY DEF updateRunLedgerAfterStop
<1>4. faults' \in 0..MaxFaults
    BY <1>1, <1>3, TryIs
<1>5. CASE ~ok \/ ledger.state \notin {"kept", "cleanup-failed"}
    BY <1>2, <1>3, <1>4, <1>5
<1>6. CASE ~(~ok \/ ledger.state \notin {"kept", "cleanup-failed"}) /\ stop[s].err
    <2>1. ledger' = [ledger EXCEPT !.state = "cleanup-failed"]
        BY <1>3, <1>6
    <2>2. ledger' \in Ledgers /\ ledger'.state = "cleanup-failed" /\ ledger'.phase = ledger.phase
        BY <1>2, <2>1 DEF Ledgers
    <2> QED
        BY <1>2, <1>4, <1>6, <2>2
<1>7. CASE ~(~ok \/ ledger.state \notin {"kept", "cleanup-failed"}) /\ ~stop[s].err
    <2>1. PICK st \in {"completed", "failed"} :
            st = IF ledger.status = "passed" THEN "completed" ELSE "failed"
        OBVIOUS
    <2>2. ledger' = [ledger EXCEPT !.phase = "", !.state = st]
        BY <1>3, <1>7, <2>1
    <2>3. ledger' \in Ledgers /\ ledger'.state = st /\ ledger'.phase = ""
        BY <1>2, <2>1, <2>2 DEF Ledgers
    <2> QED
        BY <1>2, <1>4, <1>7, <2>1, <2>3
<1> QED
    BY <1>5, <1>6, <1>7

\* Both phases that a stop records, after the workspace and after the lock.
LEMMA finishReleasedStopRunIs ==
    ASSUME Typed, Asked, NEW s \in Stops, finishReleasedStopRun(s)
    PROVE  /\ faults' \in 0..MaxFaults
           /\ UNCHANGED <<stopAfter, run, inflight, cancelled, manifest, bundle, lock, expired,
                          mirror, maya, workspace, crashes, blind, raced>>
           /\ \/ /\ ledger' = ledger /\ record' = record /\ Refused(s)
                 /\ stop[s].pc \in {"checkpoint", "released"}
              \/ /\ record' = record \/ record' = stop'[s].rec
                 /\ Others(s) /\ stop'[s].rec \in Records /\ stop'[s].err = stop[s].err
                 /\ stop'[s].rec.status = stop[s].rec.status
                 /\ stop'[s].rec.session = stop[s].rec.session
                 /\ \/ /\ stop[s].pc = "checkpoint" /\ stop'[s].pc = "release"
                       /\ Advanced("broker-cleaned") /\ stop'[s].rec.phase = "broker-cleaned"
                    \/ /\ stop[s].pc = "released" /\ stop'[s].pc = "remove"
                       /\ Advanced("host-lock-released")
                       /\ stop'[s].rec.phase = "host-lock-released"
<1>1. /\ "checkpoint" \in Past /\ "released" \in Past /\ "release" \in StopPcs /\ "remove" \in StopPcs
    BY DEF StopPcs, Past, Emptied, Freed
<1>2. CASE StopPhase(s, "checkpoint", "broker-cleaned", "release")
    BY <1>1, <1>2, StopPhaseIs
<1>3. CASE StopPhase(s, "released", "host-lock-released", "remove")
    BY <1>1, <1>3, StopPhaseIs
<1> QED
    BY <1>2, <1>3 DEF finishReleasedStopRun

\* A process that stops the Run changes nothing of the controller.
LEMMA StopLeaves ==
    ASSUME NEW s \in Stops, stopRun(s) \/ sweepKeptSessions(s) \/ StopSteps(s) \/ CrashStop(s)
    PROVE  UNCHANGED <<stopAfter, run, inflight, cancelled, expired, bundle>>
<1>1. CASE stopRun(s) \/ sweepKeptSessions(s)
    BY <1>1 DEF stopRun, sweepKeptSessions, StopQuiet, runVars
<1>2. CASE StopSteps(s)
    BY <1>2 DEF StopSteps, prepareRunLedgerForStop, stopKeptRun, StopRetainedRun, removeRemotePath,
        releaseHostSideLock, removeRepoHostLockForRun, finishReleasedStopRun, StopPhase,
        cleanupStoppedRunState, updateRunLedgerAfterStop, StopQuiet, runVars
<1>3. CASE CrashStop(s)
    BY <1>3 DEF CrashStop, runVars, hostVars, fileVars
<1> QED
    BY <1>1, <1>2, <1>3

\* A killed stop has forgotten what it read.
LEMMA CrashStopIs ==
    ASSUME Typed, NEW s \in Stops, CrashStop(s)
    PROVE  /\ faults' \in 0..MaxFaults /\ crashes' \in 0..MaxCrashes /\ Rests(s)
           /\ UNCHANGED <<stopAfter, run, inflight, cancelled, manifest, record, bundle, ledger,
                          lock, expired, mirror, maya, workspace, faults, blind, raced>>
<1>1. crashes \in 0..MaxCrashes /\ MaxCrashes \in Nat /\ faults \in 0..MaxFaults
    BY BoundAssumption DEF Typed, TypeOK
<1>2. crashes' \in 0..MaxCrashes
    BY <1>1 DEF CrashStop
<1>3. Rests(s)
    BY RestIs DEF CrashStop
<1> QED
    BY <1>1, <1>2, <1>3 DEF CrashStop, runVars, fileVars, hostVars

\* A killed controller is at its end, and dead.
LEMMA CrashIs ==
    ASSUME Typed, Crash
    PROVE  /\ run' \in Controllers /\ faults' \in 0..MaxFaults /\ crashes' \in 0..MaxCrashes
           /\ run'.pc = "ended" /\ run'.dead
           /\ run'.accepted = run.accepted /\ run'.early = run.early
           /\ run'.cleaning = run.cleaning
           /\ SameSession(run', run) /\ SameResult(run', run) /\ run'.release = run.release
           /\ run'.err = run.err /\ run'.incomplete = run.incomplete
           /\ UNCHANGED <<stopAfter, inflight, cancelled, manifest, record, bundle, ledger, lock,
                          expired, mirror, maya, workspace, stop, faults, blind, raced>>
<1>1. /\ run \in Controllers /\ faults \in 0..MaxFaults
      /\ crashes \in 0..MaxCrashes /\ MaxCrashes \in Nat
    BY BoundAssumption DEF Typed, TypeOK
<1>2. crashes' \in 0..MaxCrashes
    BY <1>1 DEF Crash
<1>3. "ended" \in Pcs
    BY DEF Pcs, Ending
<1>4. run' = [run EXCEPT !.pc = "ended", !.dead = TRUE, !.beat = "off"]
    BY DEF Crash
<1>5. run' \in Controllers
    BY <1>1, <1>3, <1>4 DEF Controllers
<1>6. /\ run'.pc = "ended" /\ run'.dead
      /\ run'.accepted = run.accepted /\ run'.early = run.early /\ run'.cleaning = run.cleaning
      /\ SameSession(run', run) /\ SameResult(run', run) /\ run'.release = run.release
      /\ run'.err = run.err /\ run'.incomplete = run.incomplete
    BY <1>1, <1>4 DEF Controllers, SameSession, SameResult
<1> QED
    BY <1>1, <1>2, <1>5, <1>6 DEF Crash, fileVars, hostVars

\* A heartbeat changes the lease and what the controller has heard of it.
LEMMA heartbeatIs ==
    ASSUME Typed, startHostLockHeartbeat
    PROVE  /\ run' \in Controllers /\ faults' \in 0..MaxFaults /\ run'.pc = run.pc /\ Same(run', run)
           /\ expired' \in {expired, FALSE} /\ (~Own => expired' = expired)
           /\ UNCHANGED <<stopAfter, inflight, cancelled, manifest, record, bundle, ledger, lock,
                          mirror, maya, workspace, stop, crashes, blind, raced>>
<1>1. run \in Controllers /\ faults \in 0..MaxFaults
    BY DEF Typed, TypeOK
<1>2. faults' \in 0..MaxFaults
    BY <1>1, TryIs DEF startHostLockHeartbeat
<1>3. UNCHANGED <<stopAfter, inflight, cancelled, manifest, record, bundle, ledger, lock, mirror,
                  maya, workspace, stop, crashes, blind, raced>>
    BY DEF startHostLockHeartbeat, fileVars, tallyVars
<1>4. expired' \in {expired, FALSE} /\ (~Own => expired' = expired)
    BY DEF startHostLockHeartbeat, Renewed
<1>5. run' = run \/ run' = [run EXCEPT !.beat = "error"]
    BY DEF startHostLockHeartbeat
<1>6. CASE run' = run
    BY <1>1, <1>2, <1>3, <1>4, <1>6 DEF Same, SameWay, SameSession, SameResult
<1>7. CASE run' = [run EXCEPT !.beat = "error"]
    <2>1. run' \in Controllers
        BY <1>1, <1>7 DEF Controllers
    <2>2. run'.pc = run.pc /\ Same(run', run)
        BY <1>1, <1>7 DEF Controllers, Same, SameWay, SameSession, SameResult
    <2> QED
        BY <1>2, <1>3, <1>4, <2>1, <2>2
<1> QED
    BY <1>5, <1>6, <1>7

\* What the Run does not control: late calls, a cancellation, leases, a rival.
Outside == \/ LateStart \/ LateStop \/ Cancel \/ Expire \/ RivalTakes \/ RivalStarts \/ RivalLeaves
\* None of it touches the controller, the files or the stopping processes.
LEMMA OutsideIs ==
    ASSUME Outside
    PROVE  UNCHANGED <<stopAfter, run, manifest, record, bundle, ledger, mirror, workspace, stop,
                       faults, crashes, blind, raced>>
    BY DEF Outside, LateStart, LateStop, Cancel, Expire, RivalTakes, RivalStarts, RivalLeaves,
           HostQuiet, fileVars, tallyVars

=============================================================================
