----------------------------- MODULE RunEvents -----------------------------
(***************************************************************************)
(* The events of one Run, from the process that records them to a client  *)
(* that follows them (internal/cli/host_agent.go, run_ledger.go,           *)
(* run_ledger_store.go, control_plane.go).                                 *)
(*                                                                         *)
(* A Run of a Windows Host Agent ("agent"): the Agent appends to its own   *)
(* events file, sends bounded copies of it as numbered checkpoints, and at *)
(* the end its complete history; the Control Plane merges them into the    *)
(* Run Ledger, which holds the events and the Run's record in separate     *)
(* files.  A Run that fails or is quarantined gets a last event from the   *)
(* Control Plane.  A Run of the Control Plane itself ("local") appends to  *)
(* a file that followers copy into the ledger, and so does a follower of  *)
(* an Agent's Run that attached while the Run was still queued.            *)
(*                                                                         *)
(* checkpointMu lets one request at a time write; a fault or a crash can   *)
(* leave any prefix of the writes of one step.  The sequence number is the *)
(* identity of an event.  Sizes in bytes and the log are left out: the     *)
(* limits here count events.                                               *)
(***************************************************************************)
EXTENDS Integers, Sequences, FiniteSets

CONSTANTS Modes,        \* the kinds of Run that are explored
          Attached,     \* whether a follower attached while an Agent's Run was queued
          MaxLines,     \* bound on the lines of an events file
          MaxCheckpoints, \* bound on the checkpoints of one Run
          ProgressMax,  \* events in a checkpoint
          LedgerMax,    \* events in the ledger
          MaxFaults,    \* bound on failed writes, broken connections and crashes
          MaxCrashes,   \* bound on Control Plane crashes
          None

ASSUME ModesAssumption == Modes \subseteq {"agent", "local"}
ASSUME AttachedAssumption == Attached \subseteq BOOLEAN
ASSUME LimitAssumption == /\ ProgressMax \in Nat /\ LedgerMax \in Nat
                          /\ 3 <= ProgressMax /\ ProgressMax <= LedgerMax
ASSUME BoundAssumption == {MaxLines, MaxCheckpoints, MaxFaults, MaxCrashes} \subseteq Nat

VARIABLES mode,      \* who executes the Run
          source,    \* the lines of the Agent's events file
          agent,     \* the Agent: its checkpoints and what it asks for at the end
          sent,      \* checkpoints that may (still) arrive
          up,        \* whether the Control Plane runs
          lease,     \* whether it accepts the Agent's session
          asg,       \* the assignment in its memory, None once completed
          disk,      \* the assignment on disk
          transient, \* the lines of the Control Plane's own events file
          ledger,    \* the Run Ledger: its events and its record
          writer,    \* the request that holds checkpointMu between two steps
          reader,    \* a client that follows the events
          early,     \* the refresh of a follower that attached while the Run was queued
          torn,      \* whether a failure was cut off between its writes, or such a
                     \* refresh has replaced the ledger's events
          faults, crashes

agentVars == <<source, agent, sent>>
storeVars == <<asg, disk, transient, ledger>>
bounds == <<faults, crashes>>
vars == <<mode, agentVars, up, lease, storeVars, writer, reader, early, torn, bounds>>

-----------------------------------------------------------------------------
(* Event streams: sequences of entries in ascending order.  A gap stands   *)
(* for the omitted events from its sequence to its last one.               *)

Event(n, kind) == [seq |-> n, kind |-> kind, last |-> n]
Gap(last) == [seq |-> 2, kind |-> "gap", last |-> last]

Entries(s) == {s[i] : i \in DOMAIN s}
IsEvent(e) == e.kind # "gap"
Actual(s) == {e \in Entries(s) : IsEvent(e)}
Gaps(s) == Entries(s) \ Actual(s)
Inside(n, s) == \E g \in Gaps(s) : g.seq <= n /\ n <= g.last
Final(s) == s[Len(s)].last

\* A line without a sequence number gets its position.
Numbered(lines) == [i \in DOMAIN lines |-> Event(i, lines[i])]

Newest(s, n) == IF Len(s) <= n THEN s ELSE SubSeq(s, Len(s) - n + 1, Len(s))

\* The events after the first one.  The pass over the lines skips the gap, which
\* is the second entry where there is one.
Following(s) == SubSeq(s, IF Gaps(s) = {} THEN 2 ELSE 3, Len(s))

\* Faulty variant: the gap marker is not counted against the limit.
copyUnboundedLedgerEvents(s, max) ==
    LET events == Following(s)
        count  == Final(s) - 1
        kept   == Newest(events, max - 1)
    IN  <<Head(s)>>
        \o (IF count > Len(kept) THEN <<Gap(1 + count - Len(kept))>> ELSE <<>>)
        \o kept

\* copyBoundedLedgerEvents: the first event, the newest ones, and a marker for
\* those in between, which counts against the limit.
copyBoundedLedgerEvents(s, max) ==
    LET events  == Following(s)
        count   == Final(s) - 1
        kept    == IF count = Len(events) /\ count < max
                   THEN events ELSE Newest(events, max - 2)
        omitted == count - Len(kept)
    IN  <<Head(s)>> \o (IF omitted > 0 THEN <<Gap(1 + omitted)>> ELSE <<>>) \o kept

-----------------------------------------------------------------------------
(* Merging what the Agent sends into what the ledger has.                  *)

Ordered(s) == /\ s[1].seq = 1
              /\ \A i \in 2..Len(s) : s[i].seq = s[i - 1].last + 1
              /\ \A i \in 3..Len(s) : IsEvent(s[i])

NotStale(current, incoming) ==
    \A e \in Actual(current) : \E f \in Actual(incoming) : f.seq >= e.seq

\* mergeHostAgentProgressEvents accepts: nothing is stale, nothing returns from
\* a gap, no event is dropped outside a gap, and none changes.
mergeable(current, incoming) ==
    /\ Ordered(current) /\ Ordered(incoming)
    /\ NotStale(current, incoming)
    /\ \A f \in Actual(incoming) : ~Inside(f.seq, current)
    /\ \A e \in Actual(current) :
         e.seq = 1 \/ e \in Entries(incoming) \/ Inside(e.seq, incoming)

merged(current, incoming) == <<Head(current)>> \o Tail(incoming)

\* Faulty variant: the terminal history replaces a gap it has the events for.
unsanitized(current, incoming) == incoming

\* mergeHostAgentTerminalEvents: the widest gap that was ever published stays, and
\* the events after it.  Their numbers are consecutive: they are the last ones.
sanitized(current, incoming) ==
    LET gaps   == Gaps(current) \cup Gaps(incoming)
        widest == CHOOSE g \in gaps : \A h \in gaps : h.last <= g.last
        later  == Newest(incoming, Final(incoming) - widest.last)
    IN  IF gaps = {} THEN incoming ELSE <<Head(incoming), widest>> \o later

-----------------------------------------------------------------------------
(* State.                                                                  *)

Prefix == <<"accepted", "queued">>
Closing == {"done", "died"}
Closed(lines) == lines[Len(lines)] \in Closing

\* terminalRunLedgerRecord.
Terminal(rec) == rec.state \in {"completed", "failed", "cleanup-failed"}

\* A record is identified by its state and by the stream it was written for
\* (the code compares its time, event count and size).
Record(state, events) == [state |-> state, of |-> events]

\* The values: events, records of the ledger, assignments.
Kinds == {"accepted", "queued", "agent", "done", "died", "failed"}
Items == [seq : Nat, kind : Kinds \cup {"gap"}, last : Nat]
Records == [state : {"submitted", "finishing", "completed", "failed", "cleanup-failed"},
            of : Seq(Items)]

\* An assignment: its state and record, the checkpoint that was acknowledged
\* last, and, while it is being ended, the record to put back.
Assignments == [state : {"confirmed", "finishing", "quarantined", "completed"},
                rec : Records, n : 0..MaxCheckpoints, digest : {None} \cup Seq(Items),
                finishing : BOOLEAN, orig : {None} \cup Records]

ASSUME NoneAssumption == None \notin Assignments

Init ==
    /\ mode \in Modes
    /\ source = Prefix /\ transient = Prefix
    /\ ledger = [events |-> Numbered(Prefix), rec |-> Record("submitted", Numbered(Prefix))]
    /\ agent = [pc |-> "running", pending |-> None, acked |-> None, next |-> 1,
                refused |-> FALSE]
    /\ sent = {}
    /\ disk = IF mode = "local" THEN None
              ELSE [state |-> "confirmed", rec |-> ledger.rec, n |-> 0,
                    digest |-> None, finishing |-> FALSE, orig |-> None]
    /\ asg = disk
    /\ up = TRUE /\ lease = TRUE /\ writer = None
    /\ reader = [pc |-> "idle", snap |-> None, cursor |-> 0, got |-> {}, stamp |-> None]
    /\ \E follows \in Attached :
         early = IF mode = "agent" /\ follows THEN [stamp |-> None, held |-> None] ELSE None
    /\ torn = FALSE /\ faults = 0 /\ crashes = 0

Fault == /\ faults + crashes < MaxFaults
         /\ faults' = faults + 1 /\ UNCHANGED crashes

\* The Control Plane stops: its followers lose their connection.
Down == /\ crashes < MaxCrashes /\ faults + crashes < MaxFaults
        /\ crashes' = crashes + 1 /\ UNCHANGED faults
        /\ up' = FALSE /\ lease' = FALSE /\ writer' = None /\ early' = None
        /\ reader' = IF reader.pc = "ended" THEN reader
                     ELSE [reader EXCEPT !.pc = "idle", !.snap = None, !.stamp = None]

\* A step of the Control Plane goes wrong: it answers with an error, or stops.
Error == Fault /\ UNCHANGED <<up, lease, reader, early>> /\ writer' = None
Break == Error \/ Down

Fine == UNCHANGED <<up, lease, reader, early, bounds>>

-----------------------------------------------------------------------------
(* The Agent: startHostAgentProgress and the end of a Run.                 *)

\* appendEvent: the Run records an event; the last one closes it.
AgentRecords ==
    /\ mode = "agent" /\ agent.pc = "running" /\ ~Closed(source) /\ Len(source) < MaxLines
    /\ \E line \in {"agent"} \cup Closing : source' = Append(source, line)
    /\ UNCHANGED <<mode, agent, sent, up, lease, storeVars, writer, reader, early, torn, bounds>>

\* buildHostAgentProgress: a checkpoint stays pending, unchanged, until it is
\* answered; a copy that was acknowledged already is not sent again.
BuildsCheckpoint ==
    LET copy == copyBoundedLedgerEvents(Numbered(source), ProgressMax)
        m    == [n |-> agent.next, events |-> copy]
    IN  /\ mode = "agent" /\ agent.pc = "running" /\ ~agent.refused
        /\ agent.pending = None /\ agent.next <= MaxCheckpoints
        /\ copy # agent.acked
        /\ agent' = [agent EXCEPT !.pending = m]
        /\ sent' = sent \cup {m}
        /\ UNCHANGED <<mode, source, up, lease, storeVars, writer, reader, early, torn, bounds>>

\* terminalHostAgentProgressSnapshotError: the copy failed too often.
SnapshotFails ==
    /\ mode = "agent" /\ agent.pc = "running" /\ ~agent.refused /\ agent.pending = None
    /\ Fault
    /\ agent' = [agent EXCEPT !.refused = TRUE]
    /\ UNCHANGED <<mode, source, sent, up, lease, storeVars, writer, reader, early, torn>>

\* The Run is over (or never started): the checkpoints stop, and the Agent
\* reports a completion, a failure, or that Maya could not be stopped.
AgentStops ==
    /\ mode = "agent" /\ agent.pc = "running"
    /\ \E pc \in {"completing", "failing", "quarantining"} :
         /\ pc = "completing" => Closed(source) /\ ~agent.refused
         /\ pc = "failing" => Closed(source) \/ source = Prefix
         /\ pc = "quarantining" => Closed(source)
         /\ agent' = [agent EXCEPT !.pc = pc, !.pending = None]
    /\ UNCHANGED <<mode, source, sent, up, lease, storeVars, writer, reader, early, torn, bounds>>

\* What the Agent learns of the answer to a checkpoint: nothing, when the answer
\* is lost or it has stopped waiting; a refusal ends its checkpoints.
Acked(m) ==
    \/ UNCHANGED agent
    \/ /\ agent.pending = m
       /\ agent' = [agent EXCEPT !.pending = None, !.acked = m.events, !.next = @ + 1]
Refused(m) ==
    \/ UNCHANGED agent
    \/ agent.pending = m /\ agent' = [agent EXCEPT !.pending = None, !.refused = TRUE]

\* postHostAgentMutation repeats a request until it is accepted or refused.
Answered == agent' \in {agent, [agent EXCEPT !.pc = "ended"]}

\* The lease runs out, or another request finds that it has.
LeaseExpires ==
    /\ mode = "agent" /\ up /\ lease /\ lease' = FALSE
    /\ UNCHANGED <<mode, agentVars, up, storeVars, writer, reader, early, torn, bounds>>

-----------------------------------------------------------------------------
(* Checkpoints at the Control Plane: serveHostAgentProgress.               *)

Free == mode = "agent" /\ up /\ writer = None

\* withRunLedgerLock: a refresh of the follower that attached early holds it.
Held == early # None /\ early.held # None

\* hostAgentAssignmentAcceptsProgress, and the same for the other requests.
Standing(state) == asg # None /\ asg.state = state
Accepts == Standing("confirmed") /\ ~asg.finishing

\* The checkpoint that was acknowledged last, and the one after it.
SameCheckpoint(m) == Accepts /\ lease /\ m.n = asg.n /\ m.events = asg.digest
NextCheckpoint(m) == Accepts /\ lease /\ m.n = asg.n + 1

CheckpointRepeated(m) ==
    /\ Free /\ SameCheckpoint(m)
    /\ Acked(m)
    /\ UNCHANGED <<mode, source, sent, up, lease, storeVars, writer, reader, early, torn, bounds>>

CheckpointRefused(m) ==
    /\ Free /\ ~SameCheckpoint(m)
    /\ ~(NextCheckpoint(m) /\ mergeable(ledger.events, m.events))
    /\ Refused(m)
    /\ UNCHANGED <<mode, source, sent, up, lease, storeVars, writer, reader, early, torn, bounds>>

\* UpdateSnapshot: the events are written, then the record, which keeps the
\* state that an unfinished failure left in it.
CheckpointMerged(m) ==
    LET events == merged(ledger.events, m.events)
        rec    == Record(ledger.rec.state, events)
    IN  /\ Free /\ ~Held /\ NextCheckpoint(m) /\ mergeable(ledger.events, m.events)
        /\ \/ /\ ledger' = [events |-> events, rec |-> rec]
              /\ writer' = [op |-> "save", m |-> m, rec |-> rec]
              /\ Fine
           \/ /\ ledger' \in {ledger, [ledger EXCEPT !.events = events]}
              /\ Break
        /\ torn' = (torn \/ Terminal(ledger.rec))
        /\ UNCHANGED <<mode, agentVars, asg, disk, transient>>

\* SaveAssignment, then the assignment in memory, unless the session is gone.
CheckpointSaved ==
    LET saved(a) == [a EXCEPT !.rec = writer.rec, !.n = writer.m.n, !.digest = writer.m.events]
    IN  /\ writer # None /\ writer.op = "save"
        /\ \/ /\ disk' = saved(disk) /\ asg' = saved(asg)
              /\ Acked(writer.m)
              /\ Fine /\ writer' = None
           \/ /\ ~lease /\ disk' = saved(disk) /\ UNCHANGED asg
              /\ Refused(writer.m)
              /\ Fine /\ writer' = None
           \/ Break /\ UNCHANGED <<asg, disk, agent>>
        /\ UNCHANGED <<mode, source, sent, transient, ledger, torn>>

-----------------------------------------------------------------------------
(* Failures: serveHostAgentFail and quarantineHostAgentAssignmentLocked.    *)

\* selectRunLedgerArtifactSource: the Control Plane's own file is newer.
Newer(lines) == \E e \in Entries(Numbered(lines)) : \A f \in Entries(ledger.events) : e.seq > f.seq

\* syncRunLedgerArtifacts.
Synced(lines) ==
    IF Newer(lines) THEN copyBoundedLedgerEvents(Numbered(lines), LedgerMax)
    ELSE IF Len(ledger.events) > LedgerMax
    THEN copyBoundedLedgerEvents(ledger.events, LedgerMax) ELSE ledger.events

HasFailure(s) == \E e \in Entries(s) : e.kind \in {"failed", "died"}

\* Faulty variant: the failure is numbered by the lines of the ledger.
preserveByCount(acknowledged) ==
    IF HasFailure(acknowledged) THEN acknowledged
    ELSE copyBoundedLedgerEvents(
             Append(acknowledged, Event(Len(acknowledged) + 1, "failed")), LedgerMax)

\* preserveAcknowledgedFailure: what was acknowledged, and a failure event after it.
preserveAcknowledgedFailure(acknowledged) ==
    IF HasFailure(acknowledged) THEN acknowledged
    ELSE copyBoundedLedgerEvents(
             Append(acknowledged, Event(Final(acknowledged) + 1, "failed")), LedgerMax)

\* recordTerminalFailureEvent: every attempt appends to the Control Plane's file.
Failed == Append(transient, "failed")

\* FinalizeAcknowledgedFailure after this many of its writes: finalizeRunLedger
\* writes the events and the record, preserveAcknowledgedFailure both again.
Written(writes, state) ==
    LET synced    == Synced(Failed)
        preserved == preserveAcknowledgedFailure(ledger.events)
    IN  [events |-> CASE writes = 0 -> ledger.events
                      [] writes \in {1, 2} -> synced
                      [] OTHER -> preserved,
         rec |-> CASE writes \in {0, 1} -> ledger.rec
                   [] writes \in {2, 3} -> Record(state, synced)
                   [] OTHER -> Record(state, preserved)]

\* A failure that is cut off before the acknowledged events are written back.
Torn(writes) == torn \/ (writes \in {1, 2} /\ ledger' # ledger)

\* The record that is put back: by the transaction, and once more by
\* resetHostAgentFinishing, which has the one of the first attempt.
Restored == IF asg.orig = None THEN ledger.rec ELSE asg.orig

\* The failure of the Agent: the record is put back until the end is committed.
\* A reset that fails too leaves the assignment marked as finishing.
FailStaged ==
    /\ Free /\ ~Held /\ agent.pc = "failing" /\ Accepts /\ lease
    /\ transient' = Failed
    /\ \/ /\ ledger' = [Written(4, "failed") EXCEPT !.rec = ledger.rec]
          /\ writer' = [op |-> "finish", rec |-> Written(4, "failed").rec]
          /\ asg' = [asg EXCEPT !.finishing = TRUE, !.orig = ledger.rec]
          /\ Fine /\ UNCHANGED torn
       \/ \E writes \in 0..4 :
            LET cut == Written(writes, "failed") IN
            /\ \/ Error /\ ledger' = [cut EXCEPT !.rec = Restored] /\ UNCHANGED asg
               \/ Error /\ ledger' = cut /\ asg' = [asg EXCEPT !.finishing = asg.orig # None]
               \/ Down /\ ledger' = cut /\ UNCHANGED asg
            /\ torn' = Torn(writes)
    /\ UNCHANGED <<mode, agentVars, disk>>

FailRefused ==
    /\ Free /\ agent.pc = "failing" /\ ~(Accepts /\ lease)
    /\ Answered
    /\ UNCHANGED <<mode, source, sent, up, lease, storeVars, writer, reader, early, torn, bounds>>

\* A quarantine, when the session is lost or the Agent asks for one.
Quarantine ==
    LET done == Written(4, "cleanup-failed")
        quarantined == [asg EXCEPT !.state = "quarantined", !.rec = done.rec]
    IN  /\ Free /\ ~Held /\ Accepts /\ (~lease \/ agent.pc = "quarantining")
        /\ transient' = Failed
        /\ \/ /\ ledger' = done /\ asg' = quarantined /\ disk' = quarantined
              /\ Fine /\ writer' = None
              /\ IF agent.pc = "quarantining" THEN Answered ELSE UNCHANGED agent
              /\ UNCHANGED torn
           \/ \E writes \in 0..4 :
                /\ ledger' = Written(writes, "cleanup-failed")
                /\ torn' = Torn(writes)
                /\ Break
                /\ UNCHANGED <<asg, disk, agent>>
        /\ UNCHANGED <<mode, source, sent>>

QuarantineRefused ==
    /\ Free /\ agent.pc = "quarantining" /\ ~(Accepts /\ lease)
    /\ Answered
    /\ UNCHANGED <<mode, source, sent, up, lease, storeVars, writer, reader, early, torn, bounds>>

-----------------------------------------------------------------------------
(* Completion: serveHostAgentComplete.                                      *)

\* The Agent's ledger, and how its last event decides the Run.
Complete == copyBoundedLedgerEvents(Numbered(source), LedgerMax)
Outcome == IF source[Len(source)] = "done" THEN "completed" ELSE "failed"

Completing == Free /\ agent.pc = "completing"

\* acceptHostAgentCompletion: the files are copied without the ledger's lock,
\* the record is not among them.  An error in between refuses the completion.
CompletionStaged ==
    LET final == sanitized(ledger.events, Complete)
        events == merged(ledger.events, final)
    IN  /\ Completing /\ Accepts /\ lease /\ mergeable(ledger.events, final)
        /\ \/ /\ ledger' = [ledger EXCEPT !.events = events]
              /\ writer' = [op |-> "finish", rec |-> Record(Outcome, events)]
              /\ asg' = [asg EXCEPT !.finishing = TRUE, !.orig = ledger.rec]
              /\ Fine /\ UNCHANGED agent
           \/ /\ ledger' \in {ledger, [ledger EXCEPT !.events = events]}
              /\ \/ Error /\ Answered
                 \/ Down /\ UNCHANGED agent
              /\ UNCHANGED asg
        /\ UNCHANGED <<mode, source, sent, disk, transient, torn>>

CompletionRefused ==
    /\ Completing /\ ~Standing("finishing")
    /\ ~(/\ Accepts /\ lease
         /\ mergeable(ledger.events, sanitized(ledger.events, Complete)))
    /\ Answered
    /\ UNCHANGED <<mode, source, sent, up, lease, storeVars, writer, reader, early, torn, bounds>>

\* The commits of the transition store put the record in the ledger and the
\* assignment on disk; TransitionStore shows that they are all or nothing.
Commit(state, rec) ==
    /\ ledger' = [ledger EXCEPT !.rec = rec]
    /\ disk' = [disk EXCEPT !.state = state, !.rec = rec]

Done(rec) == Commit("completed", rec) /\ asg' = None

Stays(state, rec) ==
    Commit(state, rec) /\ asg' = [asg EXCEPT !.state = state, !.rec = rec]

\* finishHostAgentAssignment: finishing, the cleanup, completed.  When finishing
\* is not committed, resetHostAgentFinishing puts the record back, or fails to.
Finish ==
    LET broken == Record("cleanup-failed", writer.rec.of)
    IN  /\ writer # None /\ writer.op = "finish"
        /\ \/ lease /\ Done(writer.rec) /\ Answered /\ Fine /\ writer' = None
           \/ /\ \/ ~lease /\ Fine /\ writer' = None
                 \/ Error
              /\ ledger' = [ledger EXCEPT !.rec = asg.orig]
              /\ asg' = [asg EXCEPT !.finishing = FALSE]
              /\ UNCHANGED <<disk, agent>>
           \/ Error /\ UNCHANGED <<ledger, asg, disk, agent>>
           \/ lease /\ Break /\ Stays("finishing", writer.rec) /\ UNCHANGED agent
           \/ lease /\ Error /\ Stays("quarantined", broken) /\ UNCHANGED agent
        /\ UNCHANGED <<mode, source, sent, transient, torn>>

\* resumeFinishingHostAgentAssignment, when the Agent repeats its completion.
CompletionResumed ==
    /\ Completing /\ Standing("finishing")
    /\ \/ lease /\ Done(asg.rec) /\ Answered /\ Fine
       \/ lease /\ Error /\ UNCHANGED <<asg, disk, ledger, agent>>
       \/ ~lease /\ Answered /\ Fine /\ UNCHANGED <<asg, disk, ledger>>
    /\ writer' = None
    /\ UNCHANGED <<mode, source, sent, transient, torn>>

\* The Control Plane stops between two steps.
Crash ==
    /\ mode = "agent" /\ up /\ Down
    /\ UNCHANGED <<mode, agentVars, storeVars, torn>>

\* Startup: a finishing assignment is completed, no session is accepted.
Restart ==
    /\ ~up /\ up' = TRUE
    /\ IF disk.state = "finishing" THEN Done(disk.rec)
       ELSE /\ asg' = IF disk.state = "completed" THEN None
                      ELSE [disk EXCEPT !.finishing = FALSE, !.orig = None]
            /\ UNCHANGED <<disk, ledger>>
    /\ UNCHANGED <<mode, agentVars, lease, transient, writer, reader, early, torn, bounds>>

-----------------------------------------------------------------------------
(* A Run of the Control Plane itself.                                      *)

LocalRecords ==
    /\ mode = "local" /\ ~Closed(transient) /\ Len(transient) < MaxLines
    /\ \E line \in {"agent"} \cup Closing : transient' = Append(transient, line)
    /\ UNCHANGED <<mode, agentVars, up, lease, asg, disk, ledger, writer, reader, early, torn, bounds>>

\* finalizeRunLedger: the events, then the record.
LocalFinalizes ==
    LET events == Synced(transient)
        state  == IF transient[Len(transient)] = "done" THEN "completed" ELSE "failed"
    IN  /\ mode = "local" /\ Closed(transient) /\ ~Terminal(ledger.rec)
        /\ \/ /\ ledger' = [events |-> events, rec |-> Record(state, events)]
              /\ UNCHANGED bounds
           \/ ledger' \in {ledger, [ledger EXCEPT !.events = events]} /\ Fault
        /\ UNCHANGED <<mode, agentVars, up, lease, asg, disk, transient, writer, reader, early, torn>>

-----------------------------------------------------------------------------
(* A follower: serveControlPlaneEventStream.                               *)

\* readControlPlaneRunRecord: a finishing Run is not shown as ended.
Visible == IF asg = None THEN ledger.rec
           ELSE IF asg.state = "finishing" THEN [asg.rec EXCEPT !.state = "finishing"]
           ELSE asg.rec

Reading(pc) == up /\ reader.pc = pc

\* refreshControlPlaneEventSource: the events file of a local Run has changed.
Refresh ==
    LET events == Synced(transient) IN
    /\ Reading("idle") /\ mode = "local" /\ reader.stamp # transient
    /\ ~Terminal(ledger.rec) \/ reader.snap # None
    /\ \/ /\ ledger' = [events |-> events, rec |-> Record(ledger.rec.state, events)]
          /\ reader' = [reader EXCEPT !.stamp = transient]
          /\ UNCHANGED bounds
       \/ /\ ledger' \in {ledger, [ledger EXCEPT !.events = events]}
          /\ reader' = [reader EXCEPT !.stamp = IF reader.snap = None THEN transient ELSE @]
          /\ Fault
    /\ UNCHANGED <<mode, agentVars, up, lease, asg, disk, transient, writer, early, torn>>

\* A follower that attached while an Agent's Run was queued: whether it refreshes
\* was decided then, and it goes on for its whole stream, as long as the Control
\* Plane's own events file is there.  Under the ledger's lock it reads the record,
\* and whether that file is newer; what it writes back can be out of date, as the
\* end of a Run is written without the lock (verification/run-ledger lists both
\* consequences, as IdentityStable and CompletedTerminal).
EarlyReads ==
    /\ up /\ early # None /\ ~Held /\ asg # None /\ early.stamp # transient
    /\ early' = [early EXCEPT !.held =
           [lines |-> transient, newer |-> Newer(transient),
            rec |-> Record(ledger.rec.state, Synced(transient))]]
    /\ UNCHANGED <<mode, agentVars, up, lease, storeVars, writer, reader, torn, bounds>>

\* A stream that begins takes the file as refreshed even when it was not.
EarlySaves ==
    LET events == IF early.held.newer THEN early.held.rec.of ELSE ledger.events
        taken  == [stamp |-> early.held.lines, held |-> None]
    IN  /\ up /\ Held
        /\ \/ /\ ledger' = [events |-> events, rec |-> early.held.rec]
              /\ early' = taken
              /\ UNCHANGED <<up, lease, writer, reader, bounds>>
           \/ /\ ledger' \in {ledger, [ledger EXCEPT !.events = events]}
              /\ \/ /\ early' = IF early.stamp = None THEN taken ELSE [early EXCEPT !.held = None]
                    /\ Fault /\ UNCHANGED <<up, lease, writer, reader>>
                 \/ Down
        /\ torn' = (torn \/ ledger'.events # ledger.events)
        /\ UNCHANGED <<mode, agentVars, asg, disk, transient>>

\* Faulty variant: a poll that finds the Run ended ends the stream.
PollEnds ==
    /\ Reading("idle") /\ Visible # reader.snap
    /\ reader' = [reader EXCEPT !.snap = Visible,
                     !.pc = IF Terminal(Visible) /\ reader.snap # None THEN "ended" ELSE "events"]
    /\ UNCHANGED <<mode, agentVars, up, lease, storeVars, writer, early, torn, bounds>>

\* The record is read before the events, and only a changed one leads to them.
Poll ==
    /\ Reading("idle") /\ Visible # reader.snap
    /\ reader' = [reader EXCEPT !.snap = Visible, !.pc = "events"]
    /\ UNCHANGED <<mode, agentVars, up, lease, storeVars, writer, early, torn, bounds>>

\* readControlPlaneEvents from the cursor on: the entries that end after it.
Batch == {e \in Entries(ledger.events) : e.last > reader.cursor}

\* The batch is sent, in order, and the end when the record was terminal.  The
\* connection can break after every entry: the client then comes back with the
\* cursor of the last one it has.
Cursors == {reader.cursor} \cup {e.last : e \in Batch}
Sent(n) == [reader EXCEPT !.got = @ \cup {e \in Batch : e.last <= n}, !.cursor = n]
Emit ==
    /\ Reading("events") /\ ~Held
    /\ \E n \in Cursors :
         \/ /\ \A c \in Cursors : c <= n
            /\ reader' = [Sent(n) EXCEPT !.pc = IF Terminal(reader.snap) THEN "ended" ELSE "idle"]
            /\ UNCHANGED bounds
         \/ /\ reader' = [Sent(n) EXCEPT !.pc = "idle", !.snap = None, !.stamp = None]
            /\ Fault
    /\ UNCHANGED <<mode, agentVars, up, lease, storeVars, writer, early, torn>>

-----------------------------------------------------------------------------

AgentSteps == AgentRecords \/ BuildsCheckpoint \/ SnapshotFails \/ AgentStops

Requests ==
    \/ \E m \in sent : CheckpointRepeated(m) \/ CheckpointRefused(m) \/ CheckpointMerged(m)
    \/ CheckpointSaved
    \/ FailStaged \/ FailRefused \/ Quarantine \/ QuarantineRefused
    \/ CompletionStaged \/ CompletionRefused \/ CompletionResumed \/ Finish

Next == \/ AgentSteps \/ Requests
        \/ LeaseExpires \/ Crash \/ Restart
        \/ LocalRecords \/ LocalFinalizes
        \/ Refresh \/ Poll \/ Emit \/ EarlyReads \/ EarlySaves

Spec == Init /\ [][Next]_vars

-----------------------------------------------------------------------------
(* Properties.                                                             *)

\* Every variable has its type; the ledger's events are in order, with at most
\* one gap, and every stream that is kept or sent is within its limit.
TypeOK ==
    /\ mode \in Modes /\ {up, lease, torn} \subseteq BOOLEAN
    /\ ledger \in [events : Seq(Items), rec : Records]
    /\ Len(ledger.events) <= LedgerMax /\ Ordered(ledger.events)
    /\ agent.pc \in {"running", "completing", "failing", "quarantining", "ended"}
    /\ \A m \in sent : m.n \in 1..MaxCheckpoints /\ Len(m.events) <= ProgressMax
    /\ {asg, disk} \subseteq {None} \cup Assignments
    /\ writer = None \/ writer.op \in {"save", "finish"}
    /\ reader.pc \in {"idle", "events", "ended"}
    /\ faults \in 0..MaxFaults /\ crashes \in 0..MaxCrashes

Kept(e) == \E i \in DOMAIN ledger.events :
    LET f == ledger.events[i] IN f = e \/ (~IsEvent(f) /\ f.seq <= e.seq /\ e.seq <= f.last)

\* What an acknowledged checkpoint carried, and what a follower was sent, stays
\* in the ledger as it was or is covered by its gap, and a follower has been
\* sent, or told of as omitted, everything up to its cursor: no event changes,
\* is renumbered or comes back, through repeats, failures, crashes and the
\* terminal merge.  A failure that was cut off between its writes is excepted,
\* and so is a refresh that replaced the events.
HistoryKept ==
    ~torn =>
    /\ \A e \in reader.got : IsEvent(e) => Kept(e)
    /\ \A i \in DOMAIN ledger.events :
         LET e == ledger.events[i] IN IsEvent(e) /\ e.seq <= reader.cursor => e \in reader.got
    /\ \A n \in 1..reader.cursor : \E e \in reader.got : e.seq <= n /\ n <= e.last
    /\ (disk # None /\ disk.digest # None)
         => \A i \in DOMAIN disk.digest : IsEvent(disk.digest[i]) => Kept(disk.digest[i])

\* The end of the stream is announced only after the last event that the Run's
\* history will ever have, with the same exceptions.
EndIsComplete ==
    (reader.pc = "ended" /\ ~torn) => \A e \in Entries(ledger.events) : e.last <= reader.cursor

\* An Agent is never refused for the identity of its events: whatever write
\* failed or answer was lost, the checkpoint it repeats and the history it ends
\* with can be merged, unless the Control Plane has written the failure.
HonestAgentAccepted ==
    LET unfailed == \A i \in DOMAIN ledger.events : ledger.events[i].kind # "failed"
    IN  /\ (agent.pc = "running" /\ agent.pending # None /\ NextCheckpoint(agent.pending) /\ unfailed)
             => mergeable(ledger.events, agent.pending.events)
        /\ (agent.pc = "completing" /\ Accepts /\ unfailed)
             => mergeable(ledger.events, sanitized(ledger.events, Complete))

=============================================================================
