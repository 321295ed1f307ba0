--------------------------- MODULE TransitionStore ---------------------------
(***************************************************************************)
(* The durable side of a Windows Host Agent assignment:                    *)
(* internal/cli/host_agent_transition_store.go, its callers in             *)
(* host_agent.go and the startup that reads the files back.                *)
(*                                                                         *)
(* Four kinds of file describe an assignment: its Run Ledger record, the   *)
(* Host Lock of its host, the assignment record, and the transition        *)
(* journal that makes the other three change together.  Every file has a   *)
(* visible content and a content that survives the machine (the s-twin):   *)
(* writePrivateJSON renames a new file into place and then syncs the       *)
(* directory, and either half can fail.  A crash of the machine (PowerLoss) *)
(* keeps, file by file, either content; a stop of the process alone keeps   *)
(* what was visible.                                                       *)
(*                                                                         *)
(* Commit and Recover run with handler.mu held, so one transition is in    *)
(* flight at a time (`op`); progress checkpoints save the assignment       *)
(* record outside that lock (SaveAssignment).                              *)
(***************************************************************************)
EXTENDS Naturals, Sequences, FiniteSets

CONSTANTS Runs,          \* Run IDs accepted by this Control Plane
          Hosts,         \* hosts, each with the one Agent enrolled for it
          MaxFaults,     \* bound on failing file operations
          PowerLoss,     \* whether a crash can take the machine down
          None           \* an absent file, or no value

States  == {"assigned", "confirmed", "finishing", "quarantined", "completed"}
Ledgers == {"queued", "submitted", "terminal"}

\* hostAgentAssignmentRecord: `bound` says whether a Maya UI Session is bound,
\* `ledger` is the State of the ledger record the transition publishes.
Record  == [run: Runs, host: Hosts, state: States, bound: BOOLEAN, ledger: Ledgers]

\* hostAgentLockRecord
LockRecord == [run: Runs, state: States, bound: BOOLEAN]

\* What a transition is for, and how far it is.
Kinds  == {"assign", "rescue", "confirm", "bind", "finish", "complete", "quarantine",
           "marker", "boot"}
Phases == {"persist", "scan", "replay", "verify"}
Operation == [kind: Kinds \cup {None}, phase: Phases \cup {None},
              want: Record \cup {None}, cur: Record \cup {None},
              at: 0..6, todo: SUBSET Runs, failed: BOOLEAN]

ASSUME NoneAssumption ==
    None \notin Runs \cup Hosts \cup Record \cup LockRecord \cup Kinds \cup Phases
ASSUME FaultAssumption == MaxFaults \in Nat
ASSUME PowerAssumption == PowerLoss \in BOOLEAN

VARIABLES
    journal, sJournal,          \* assignment-transactions/<run>.json
    assignment, sAssignment,    \* assignments/<run>.json
    hostLock, sHostLock,        \* host-locks/<host>.json
    ledger, sLedger,            \* State of the run's Run Ledger record
    marker,     \* host-agents/<agent>/quarantine.json, the write-ahead marker
    mem,        \* handler.assignments[run].record
    quar,       \* the run an Agent's status is quarantined for
    mode,       \* what the Control Plane process is doing
    op,         \* the transition that holds handler.mu
    unread,     \* hosts whose lock file startup has still to load
    faults,     \* file operations that failed so far
    acked,      \* history: the last record a Commit reported durable
    doubt       \* history: records of Commits that did not report success

files  == <<journal, assignment, hostLock, ledger>>
synced == <<sJournal, sAssignment, sHostLock, sLedger>>
hist   == <<acked, doubt>>
vars   == <<files, synced, marker, mem, quar, mode, op, unread, faults, hist>>

LockOf(rec) == [run |-> rec.run, state |-> rec.state, bound |-> rec.bound]

\* Faulty variant: a completion publishes the ledger the run was assigned with.
ToStaleLedger(rec, state) ==
    [rec EXCEPT !.state = state,
                !.ledger = IF state = "quarantined" THEN "terminal" ELSE "submitted"]

\* A record with its next state and the ledger it publishes.
To(rec, state) ==
    [rec EXCEPT !.state = state,
                !.ledger = IF state \in {"assigned", "confirmed"} THEN "submitted"
                                                                  ELSE "terminal"]

-----------------------------------------------------------------------------
(* The operation in flight.                                                *)

NoOp == [kind |-> None, phase |-> None, want |-> None, cur |-> None,
         at |-> 0, todo |-> {}, failed |-> FALSE]

Idle == op.kind = None

\* Faulty variant: the files are changed without a journal.
CommitWithoutJournal(kind, rec) ==
    [NoOp EXCEPT !.kind = kind, !.phase = "persist", !.want = rec, !.cur = rec, !.at = 1]

\* store.Commit(record): it starts by persisting the record's journal.
CommitOp(kind, rec) ==
    [NoOp EXCEPT !.kind = kind, !.phase = "persist", !.want = rec, !.cur = rec]

\* store.Recover at startup, with no record to verify afterwards.
RecoverOp == [NoOp EXCEPT !.kind = "boot", !.phase = "scan"]

\* Faulty variant: a quarantine gives up the Host Lock as a completion does.
StepsReleaseQuarantined(rec) ==
    (IF rec.state \in {"completed", "quarantined"} THEN <<"assignment", "ledger", "unlock">>
                                                   ELSE <<"ledger", "lock", "assignment">>)
    \o <<"remove", "sync">>

\* The file operations of persist (0..5) and of the replay of one journal (1..5):
\* a completed record publishes its assignment before it gives up the lock, an
\* active one owns the lock before its assignment is visible.
Steps(rec) ==
    (IF rec.state = "completed" THEN <<"assignment", "ledger", "unlock">>
                                ELSE <<"ledger", "lock", "assignment">>)
    \o <<"remove", "sync">>

StepAt(rec, at) == IF at = 0 THEN "journal" ELSE Steps(rec)[at]

\* What file operation `step` for `rec` leaves visible.
Effect(step, rec) ==
    /\ journal' = CASE step = "journal" -> [journal EXCEPT ![rec.run] = rec]
                    [] step = "remove"  -> [journal EXCEPT ![rec.run] = None]
                    [] OTHER            -> journal
    /\ assignment' = IF step = "assignment" THEN [assignment EXCEPT ![rec.run] = rec]
                                            ELSE assignment
    /\ ledger' = IF step = "ledger" THEN [ledger EXCEPT ![rec.run] = rec.ledger]
                                    ELSE ledger
    /\ hostLock' = CASE step = "lock"   -> [hostLock EXCEPT ![rec.host] = LockOf(rec)]
                     [] step = "unlock" -> [hostLock EXCEPT ![rec.host] = None]
                     [] OTHER           -> hostLock

\* Faulty variant: the directory of the Host Locks is not synced.
SyncedWithoutLocks(step, run) ==
    /\ sJournal' = IF step \in {"journal", "sync"} THEN journal' ELSE sJournal
    /\ sAssignment' = IF step = "assignment" THEN assignment' ELSE sAssignment
    /\ sHostLock' = sHostLock
    /\ sLedger' = IF step = "ledger" THEN [sLedger EXCEPT ![run] = ledger'[run]]
                                     ELSE sLedger

\* The directory sync that ends a successful file operation makes every change
\* of that directory permanent; os.Remove of the journal has its own sync step.
Synced(step, run) ==
    /\ sJournal' = IF step \in {"journal", "sync"} THEN journal' ELSE sJournal
    /\ sAssignment' = IF step = "assignment" THEN assignment' ELSE sAssignment
    /\ sHostLock' = IF step \in {"lock", "unlock"} THEN hostLock' ELSE sHostLock
    /\ sLedger' = IF step = "ledger" THEN [sLedger EXCEPT ![run] = ledger'[run]]
                                     ELSE sLedger

\* Without a sync, only a stop of the process keeps what was visible.
NotSynced == IF PowerLoss THEN UNCHANGED synced
             ELSE /\ sJournal' = journal' /\ sAssignment' = assignment'
                  /\ sHostLock' = hostLock' /\ sLedger' = ledger'

Fault == /\ faults < MaxFaults
         /\ faults' = faults + 1

-----------------------------------------------------------------------------
(* Handlers that start a transition.  Each one holds handler.mu until the   *)
(* transition ends, so it needs op to be idle.                             *)

Serving == mode = "serving" /\ Idle

Begin(kind, rec) ==
    /\ op' = CommitOp(kind, rec)
    /\ doubt' = [doubt EXCEPT ![rec.run] = @ \cup {rec}]
    /\ UNCHANGED <<files, synced, quar, mode, unread, faults, acked>>

\* runScenarioThroughHostAgent: the scheduler reserved an Agent without a run
\* for a queued run; the write-ahead marker precedes the transition.
Assign(r, h) ==
    /\ Serving
    /\ mem[r] = None /\ acked[r] = None /\ doubt[r] = {} /\ ledger[r] = "queued"
    /\ quar[h] = None
    /\ \A q \in Runs : mem[q] # None => mem[q].host # h
    /\ marker' = [marker EXCEPT ![h] = r]
    /\ Begin("assign", [run |-> r, host |-> h, state |-> "assigned",
                        bound |-> FALSE, ledger |-> "submitted"])
    /\ UNCHANGED mem

\* serveHostAgentConfirm accepts the assigned state, and a retry of confirmed.
Confirm(r) ==
    /\ Serving
    /\ mem[r] # None /\ mem[r].state \in {"assigned", "confirmed"}
    /\ Begin("confirm", To(mem[r], "confirmed"))
    /\ UNCHANGED <<marker, mem>>

\* serveHostAgentSession: the first binding is journaled, an equal one is not.
Bind(r) ==
    /\ Serving
    /\ mem[r] # None /\ mem[r].state = "confirmed" /\ ~mem[r].bound
    /\ Begin("bind", [mem[r] EXCEPT !.bound = TRUE])
    /\ UNCHANGED <<marker, mem>>

\* finishHostAgentAssignment for a completion or a reported failure.
Finish(r) ==
    /\ Serving
    /\ mem[r] # None /\ mem[r].state = "confirmed"
    /\ Begin("finish", To(mem[r], "finishing"))
    /\ UNCHANGED <<marker, mem>>

\* resumeFinishingHostAgentAssignment: the Agent retries a completion whose
\* last transition failed.
ResumeFinishing(r) ==
    /\ Serving
    /\ mem[r] # None /\ mem[r].state = "finishing"
    /\ Begin("complete", To(mem[r], "completed"))
    /\ UNCHANGED <<marker, mem>>

\* quarantineHostAgentAssignmentLocked publishes the terminal ledger by itself
\* (FinalizeAcknowledgedFailure) and then journals the quarantined record.
Quarantine(r) ==
    /\ Serving
    /\ mem[r] # None /\ mem[r].state = "confirmed"
    /\ ledger' = [ledger EXCEPT ![r] = "terminal"]
    /\ sLedger' = [sLedger EXCEPT ![r] = "terminal"]
    /\ op' = CommitOp("quarantine", To(mem[r], "quarantined"))
    /\ doubt' = [doubt EXCEPT ![r] = @ \cup {To(mem[r], "quarantined")}]
    /\ UNCHANGED <<journal, sJournal, assignment, sAssignment, hostLock, sHostLock,
                   marker, mem, quar, mode, unread, faults, acked>>

\* serveHostAgentProgress saves the assignment record with the checkpoint it
\* acknowledges.  It holds the run's checkpointMu, which every transition of the
\* same run takes too, but not handler.mu: a transition of another run may be in
\* flight.  The save can fail before or after the new file is visible.
SaveAssignment(r) ==
    /\ mode = "serving"
    /\ mem[r] # None /\ mem[r].state = "confirmed"
    /\ ~Idle => op.want.run # r
    /\ \/ /\ assignment' = [assignment EXCEPT ![r] = mem[r]]
          /\ sAssignment' = assignment'
          /\ UNCHANGED faults
       \/ /\ Fault
          /\ assignment' \in {assignment, [assignment EXCEPT ![r] = mem[r]]}
          /\ sAssignment' = IF PowerLoss THEN sAssignment ELSE assignment'
    /\ UNCHANGED <<journal, sJournal, hostLock, sHostLock, ledger, sLedger,
                   marker, mem, quar, mode, op, unread, hist>>

-----------------------------------------------------------------------------
(* The steps of Commit and Recover.                                        *)

Running(phase) == mode # "down" /\ op.kind # None /\ op.phase = phase

\* Recover's loop over the journals: to the next one, or past the last one.
AfterReplay == [op EXCEPT !.phase = "replay", !.cur = None, !.at = 0]

Advance ==
    IF op.at < 5 THEN [op EXCEPT !.at = @ + 1]
    ELSE IF op.phase = "persist" THEN [op EXCEPT !.phase = "verify", !.at = 6]
    ELSE AfterReplay

\* One file operation of persist or of the replay of a journal succeeds.
FileStep ==
    /\ Running("persist") \/ Running("replay")
    /\ op.cur # None
    /\ LET step == StepAt(op.cur, op.at)
       IN /\ Effect(step, op.cur)
          /\ IF step = "remove" THEN NotSynced ELSE Synced(step, op.cur.run)
    /\ op' = Advance
    /\ UNCHANGED <<marker, mem, quar, mode, unread, faults, hist>>

\* A failed operation of persist starts Recover; a failure inside Recover ends
\* it, and a failure of Recover at startup ends the process.
Fails ==
    IF op.kind = "boot" THEN NoOp
    ELSE IF op.phase = "persist" THEN [op EXCEPT !.phase = "scan", !.cur = None]
    ELSE [op EXCEPT !.phase = "verify", !.cur = None, !.failed = TRUE]

FileStepFails ==
    /\ Running("persist") \/ Running("replay")
    /\ op.cur # None
    /\ Fault
    /\ \/ StepAt(op.cur, op.at) # "remove" /\ Effect(StepAt(op.cur, op.at), op.cur)
       \/ UNCHANGED files
    /\ NotSynced
    /\ op' = Fails
    /\ mode' = IF op.kind = "boot" THEN "exit" ELSE mode
    /\ UNCHANGED <<marker, mem, quar, unread, hist>>

\* os.ReadDir of the journal directory.
Scan ==
    /\ Running("scan")
    /\ op' = [AfterReplay EXCEPT !.todo = {r \in Runs : journal[r] # None}]
    /\ UNCHANGED <<files, synced, marker, mem, quar, mode, unread, faults, hist>>

\* Faulty variant: the replayed quarantine has no ledger.
PrepareLosesLedger(rec) ==
    IF quar[rec.host] = rec.run /\ rec.state # "completed"
    THEN [rec EXCEPT !.state = "quarantined", !.ledger = None]
    ELSE rec

\* prepareRecoveredHostAgentTransition: the journal of the run an Agent is
\* quarantined for is replayed as a quarantine that keeps the live ledger.
Prepare(rec) ==
    IF quar[rec.host] = rec.run /\ rec.state # "completed"
    THEN [rec EXCEPT !.state = "quarantined", !.ledger = ledger[rec.run]]
    ELSE rec

PickJournal ==
    /\ Running("replay") /\ op.cur = None
    /\ \E r \in op.todo :
         op' = [op EXCEPT !.cur = Prepare(journal[r]), !.at = 1, !.todo = @ \ {r}]
    /\ UNCHANGED <<files, synced, marker, mem, quar, mode, unread, faults, hist>>

\* Reading the directory or a journal fails.
ReadFails ==
    /\ Running("scan") \/ (Running("replay") /\ op.cur = None /\ op.todo # {})
    /\ Fault
    /\ op' = Fails
    /\ mode' = IF op.kind = "boot" THEN "exit" ELSE mode
    /\ UNCHANGED <<files, synced, marker, mem, quar, unread, hist>>

ReplayDone ==
    /\ Running("replay") /\ op.cur = None /\ op.todo = {}
    /\ IF op.kind = "boot"
       THEN /\ op' = NoOp
            /\ mode' = "load"
            /\ unread' = {h \in Hosts : hostLock[h] # None}
       ELSE /\ op' = [op EXCEPT !.phase = "verify"]
            /\ UNCHANGED <<mode, unread>>
    /\ UNCHANGED <<files, synced, marker, mem, quar, faults, hist>>

\* store.verify: the files say what the transition wanted.
Verified(want) ==
    /\ assignment[want.run] # None
    /\ assignment[want.run].state = want.state
    /\ assignment[want.run].host = want.host
    /\ assignment[want.run].bound = want.bound
    /\ IF want.state = "completed"
       THEN ledger[want.run] = want.ledger /\ hostLock[want.host] = None
       ELSE hostLock[want.host] = LockOf(want)

\* Faulty variant: a Recover without an error stands for success.
SucceedsWithoutVerify == op.at = 6 \/ ~op.failed

\* Commit returned nil: persist succeeded (at = 6), or Recover and verify did.
Succeeds == op.at = 6 \/ (~op.failed /\ Verified(op.want))

-----------------------------------------------------------------------------
(* What the callers of Commit do with its result.                          *)

Ack(rec) == /\ acked' = [acked EXCEPT ![rec.run] = rec]
            /\ doubt' = [doubt EXCEPT ![rec.run] = {}]

Adopt(rec) == mem' = [mem EXCEPT ![rec.run] = rec]

\* Confirm, bind and quarantine adopt the record; a quarantine also takes the
\* Agent out of service.
CommitReturns ==
    /\ Running("verify") /\ Succeeds
    /\ op.kind \in {"confirm", "bind", "quarantine"}
    /\ Ack(op.want) /\ Adopt(op.want)
    /\ quar' = IF op.want.state = "quarantined"
               THEN [quar EXCEPT ![op.want.host] = op.want.run] ELSE quar
    /\ op' = NoOp
    /\ UNCHANGED <<files, synced, marker, mode, unread, faults>>

\* The finishing record is durable: the same handler goes on to remove the run
\* state and the shared lock and commits completed, or, when that cleanup
\* fails, commits quarantined.
FinishReturns ==
    /\ Running("verify") /\ Succeeds
    /\ op.kind = "finish"
    /\ Adopt(op.want)
    /\ \E next \in {"completed", "quarantined"} :
         LET rec == To(op.want, next) IN
         /\ next = "quarantined" => faults < MaxFaults
         /\ faults' = IF next = "quarantined" THEN faults + 1 ELSE faults
         /\ op' = CommitOp(IF next = "completed" THEN "complete" ELSE "quarantine", rec)
         /\ acked' = [acked EXCEPT ![rec.run] = op.want]
         /\ doubt' = [doubt EXCEPT ![rec.run] = {rec}]
    /\ UNCHANGED <<files, synced, marker, quar, mode, unread>>

\* A completed assignment is dropped from memory, and at startup the next lock
\* file is loaded.
CompleteReturns ==
    /\ Running("verify") /\ Succeeds
    /\ op.kind = "complete"
    /\ Ack(op.want)
    /\ mem' = [mem EXCEPT ![op.want.run] = None]
    /\ op' = NoOp
    /\ UNCHANGED <<files, synced, marker, quar, mode, unread, faults>>

\* The assigned record is durable; removing the queue intent or the marker can
\* still fail, which takes the quarantine path.
AssignReturns ==
    /\ Running("verify") /\ Succeeds
    /\ op.kind = "assign"
    /\ Ack(op.want) /\ Adopt(op.want)
    /\ marker' = [marker EXCEPT ![op.want.host] = None]
    /\ op' = NoOp
    /\ UNCHANGED <<files, synced, quar, mode, unread, faults>>

\* The marker of h is removed.  A removal that fails, or whose directory sync
\* does, leaves either content to the next startup.
RemoveMarker(h) ==
    \/ marker' = [marker EXCEPT ![h] = None] /\ UNCHANGED faults
    \/ Fault /\ marker' \in {marker, [marker EXCEPT ![h] = None]}

\* transitionErr # nil: the slot is quarantined in memory, the run is finalised
\* as failed and a quarantined record is committed in its turn.  The marker is
\* written again, which leaves what is there; that it had been removed without
\* the removal being durable, and that the second write fails too, is not
\* modelled.
\* handler.mu is free while the run is finalised; only handlers of other Hosts
\* have work then, and the model does not let them in.
AssignFails ==
    /\ Running("verify") /\ op.kind = "assign"
    /\ \/ ~Succeeds /\ UNCHANGED faults
       \/ Succeeds /\ Fault
    /\ LET rec == To(op.want, "quarantined") IN
       /\ Adopt(rec)
       /\ quar' = [quar EXCEPT ![rec.host] = rec.run]
       /\ ledger' = [ledger EXCEPT ![rec.run] = "terminal"]
       /\ sLedger' = [sLedger EXCEPT ![rec.run] = "terminal"]
       /\ op' = CommitOp("rescue", rec)
       /\ doubt' = [doubt EXCEPT ![rec.run] = @ \cup {rec}]
    /\ UNCHANGED <<journal, sJournal, assignment, sAssignment, hostLock, sHostLock,
                   marker, mode, unread, acked>>

\* Only a durable quarantine may remove the write-ahead marker.
RescueReturns ==
    /\ Running("verify") /\ op.kind = "rescue"
    /\ IF Succeeds
       THEN Ack(op.want) /\ RemoveMarker(op.want.host)
       ELSE UNCHANGED <<marker, faults, hist>>
    /\ op' = NoOp
    /\ UNCHANGED <<files, synced, mem, quar, mode, unread>>

\* Commit failed: confirm, bind, finish, complete and quarantine leave the
\* record in memory as it was (finish through resetHostAgentFinishing, which
\* rewrites the original ledger); at startup the process gives up.
CommitFails ==
    /\ Running("verify") /\ ~Succeeds
    /\ op.kind \in {"confirm", "bind", "finish", "complete", "quarantine", "marker"}
    /\ op' = NoOp
    /\ IF op.kind = "finish"
       THEN /\ ledger' = [ledger EXCEPT ![op.want.run] = "submitted"]
            /\ sLedger' = [sLedger EXCEPT ![op.want.run] = "submitted"]
       ELSE UNCHANGED <<ledger, sLedger>>
    /\ mode' = IF mode = "serving" THEN mode ELSE "exit"
    /\ UNCHANGED <<journal, sJournal, assignment, sAssignment, hostLock, sHostLock,
                   marker, mem, quar, unread, faults, hist>>

-----------------------------------------------------------------------------
(* Crash and startup (loadHostAgentState).                                 *)

\* The process or its machine stops.  Files whose directory was not synced show
\* either content; status.json is written best effort, so an Agent's
\* quarantined status may be lost with the process.
Crash ==
    /\ mode # "down"
    /\ mode' = "down"
    /\ op' = NoOp
    /\ mem' = [r \in Runs |-> None]
    /\ unread' = {}
    /\ \E js \in SUBSET {r \in Runs : journal[r] # sJournal[r]},
          as \in SUBSET {r \in Runs : assignment[r] # sAssignment[r]},
          ls \in SUBSET {r \in Runs : ledger[r] # sLedger[r]},
          hs \in SUBSET {h \in Hosts : hostLock[h] # sHostLock[h]} :
         /\ journal' = [r \in Runs |-> IF r \in js THEN sJournal[r] ELSE journal[r]]
         /\ assignment' = [r \in Runs |-> IF r \in as THEN sAssignment[r] ELSE assignment[r]]
         /\ ledger' = [r \in Runs |-> IF r \in ls THEN sLedger[r] ELSE ledger[r]]
         /\ hostLock' = [h \in Hosts |-> IF h \in hs THEN sHostLock[h] ELSE hostLock[h]]
    /\ sJournal' = journal' /\ sAssignment' = assignment'
    /\ sHostLock' = hostLock' /\ sLedger' = ledger'
    /\ \E lost \in SUBSET {h \in Hosts : quar[h] # None} :
         quar' = [h \in Hosts |-> IF h \in lost THEN None ELSE quar[h]]
    /\ UNCHANGED <<marker, faults, hist>>

Start ==
    /\ mode = "down"
    /\ mode' = "markers"
    /\ UNCHANGED <<files, synced, marker, mem, quar, op, unread, faults, hist>>

\* recoverHostAgentQuarantineMarkers: a surviving marker quarantines its run.
RecoverMarker(h) ==
    /\ mode = "markers" /\ Idle /\ marker[h] # None
    /\ LET rec == [run |-> marker[h], host |-> h, state |-> "quarantined",
                   bound |-> FALSE, ledger |-> "terminal"] IN
       /\ quar' = [quar EXCEPT ![h] = rec.run]
       /\ ledger' = [ledger EXCEPT ![rec.run] = "terminal"]
       /\ sLedger' = [sLedger EXCEPT ![rec.run] = "terminal"]
       /\ op' = CommitOp("marker", rec)
       /\ doubt' = [doubt EXCEPT ![rec.run] = @ \cup {rec}]
    /\ UNCHANGED <<journal, sJournal, assignment, sAssignment, hostLock, sHostLock,
                   marker, mem, mode, unread, faults, acked>>

MarkerReturns ==
    /\ Running("verify") /\ Succeeds /\ op.kind = "marker"
    /\ Ack(op.want) /\ Adopt(op.want)
    /\ RemoveMarker(op.want.host)
    /\ mode' = IF faults' = faults THEN mode ELSE "exit"
    /\ op' = NoOp
    /\ UNCHANGED <<files, synced, quar, unread>>

RecoverJournals ==
    /\ mode = "markers" /\ Idle /\ \A h \in Hosts : marker[h] = None
    /\ mode' = "recover"
    /\ op' = RecoverOp
    /\ UNCHANGED <<files, synced, marker, mem, quar, unread, faults, hist>>

\* loadHostAgentState compares each Host Lock with its assignment record and
\* with the Agent's status, and refuses to start on a difference.
LockMatches(h) ==
    LET lock == hostLock[h]
        rec  == assignment[lock.run]
    IN /\ lock.state # "completed"
       /\ quar[h] \in {None, lock.run}
       /\ rec # None
       /\ rec.host = h
       /\ LockOf(rec) = lock

LoadLock(h) ==
    /\ mode = "load" /\ Idle /\ h \in unread
    /\ unread' = unread \ {h}
    /\ LET rec == assignment[hostLock[h].run] IN
       IF ~LockMatches(h)
       THEN mode' = "refused" /\ UNCHANGED <<mem, quar, op, doubt>>
       ELSE IF rec.state = "finishing"
       THEN /\ op' = CommitOp("complete", To(rec, "completed"))
            /\ doubt' = [doubt EXCEPT ![rec.run] = @ \cup {To(rec, "completed")}]
            /\ UNCHANGED <<mem, quar, mode>>
       ELSE /\ mem' = [mem EXCEPT ![rec.run] =
                         IF quar[h] = rec.run THEN [rec EXCEPT !.state = "quarantined"]
                                              ELSE rec]
            /\ quar' = IF rec.state = "quarantined" THEN [quar EXCEPT ![h] = rec.run]
                                                    ELSE quar
            /\ UNCHANGED <<op, doubt, mode>>
    /\ UNCHANGED <<files, synced, marker, faults, acked>>

Serve ==
    /\ mode = "load" /\ Idle /\ unread = {}
    /\ mode' = "serving"
    /\ UNCHANGED <<files, synced, marker, mem, quar, op, unread, faults, hist>>

-----------------------------------------------------------------------------

Init ==
    /\ journal = [r \in Runs |-> None] /\ sJournal = journal
    /\ assignment = [r \in Runs |-> None] /\ sAssignment = assignment
    /\ hostLock = [h \in Hosts |-> None] /\ sHostLock = hostLock
    /\ ledger = [r \in Runs |-> "queued"] /\ sLedger = ledger
    /\ marker = [h \in Hosts |-> None]
    /\ mem = [r \in Runs |-> None]
    /\ quar = [h \in Hosts |-> None]
    /\ mode = "serving"
    /\ op = NoOp
    /\ unread = {}
    /\ faults = 0
    /\ acked = [r \in Runs |-> None]
    /\ doubt = [r \in Runs |-> {}]

Handlers ==
    \/ \E r \in Runs, h \in Hosts : Assign(r, h)
    \/ \E r \in Runs : \/ Confirm(r) \/ Bind(r) \/ Finish(r) \/ ResumeFinishing(r)
                       \/ Quarantine(r) \/ SaveAssignment(r)

Transition ==
    \/ FileStep \/ FileStepFails \/ Scan \/ PickJournal \/ ReadFails \/ ReplayDone
    \/ CommitReturns \/ FinishReturns \/ CompleteReturns \/ AssignReturns
    \/ AssignFails \/ RescueReturns \/ CommitFails \/ MarkerReturns

Startup ==
    \/ Start \/ RecoverJournals \/ Serve
    \/ \E h \in Hosts : RecoverMarker(h) \/ LoadLock(h)

Next == Handlers \/ Transition \/ Startup \/ Crash

Spec == Init /\ [][Next]_vars

-----------------------------------------------------------------------------
(* Properties.                                                             *)

Modes == {"serving", "exit", "down", "markers", "recover", "load", "refused"}

\* Types of the files, of their durable twins and of the process state.
TypeOK ==
    /\ {journal, sJournal, assignment, sAssignment, mem, acked}
         \subseteq [Runs -> Record \cup {None}]
    /\ {hostLock, sHostLock} \subseteq [Hosts -> LockRecord \cup {None}]
    /\ {ledger, sLedger} \subseteq [Runs -> Ledgers]
    /\ {marker, quar} \subseteq [Hosts -> Runs \cup {None}]
    /\ mode \in Modes
    /\ op \in Operation
    /\ unread \subseteq Hosts
    /\ faults \in 0..MaxFaults
    /\ doubt \in [Runs -> SUBSET Record]

\* Startup never meets a Host Lock that disagrees with its assignment record:
\* a process stop between durable writes cannot leave mismatched state that
\* blocks restart (loadHostAgentState's "does not match its Host Lock").
StartupAccepts == mode # "refused"

\* One failing file operation is repaired by Recover: only after a second one
\* can startup meet such files.
OneFaultIsRepaired == mode = "refused" => faults > 1

\* What the serving Control Plane holds for a run is the last record a Commit
\* reported durable, or one of the records whose Commit failed or was cut off
\* after it; a run is forgotten only if completed is one of them.
LastCommitSurvives ==
    mode = "serving" =>
        \A r \in Runs :
            LET possible == {acked[r]} \cup doubt[r]
            IN acked[r] # None =>
                 \/ mem[r] \in possible
                 \/ mem[r] = None /\ \E rec \in possible : rec.state = "completed"

\* The lock content that replaying the journals would leave on h, from the files
\* as they are seen (or as a crash could leave them).
Owns(r, h, locks, journals) ==
    \/ locks[h] # None /\ locks[h].run = r
    \/ journals[r] # None /\ journals[r].host = h /\ journals[r].state # "completed"

\* A run handed to an Agent owns its host on disk at every instant, in the visible
\* files and in the ones a crash leaves.
AssignedOwnsHost ==
    \A r \in Runs :
        /\ mem[r] # None /\ mem[r].state \in {"assigned", "confirmed"}
        => /\ Owns(r, mem[r].host, hostLock, journal)
           /\ Owns(r, mem[r].host, sHostLock, sJournal)

\* A run whose quarantine was reported durable owns its host ever after: nothing
\* replayed, retried or finished later gives the Host Lock up.
QuarantineKeepsHost ==
    \A r \in Runs :
        acked[r] # None /\ acked[r].state = "quarantined"
        => /\ Owns(r, acked[r].host, hostLock, journal)
           /\ Owns(r, acked[r].host, sHostLock, sJournal)

\* A completed run whose Host Lock is gone has its terminal Run Ledger
\* published, so nobody sees a free host beside an unfinished run.
TerminalBeforeRelease ==
    \A r \in Runs :
        /\ assignment[r] # None /\ assignment[r].state = "completed"
        /\ hostLock[assignment[r].host] = None \/ hostLock[assignment[r].host].run # r
        => ledger[r] = "terminal" /\ sLedger[r] = "terminal"

=============================================================================
