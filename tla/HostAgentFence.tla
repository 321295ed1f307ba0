--------------------------- MODULE HostAgentFence ---------------------------
(***************************************************************************)
(* The assignment protocol between the Control Plane and its Windows Host  *)
(* Agents (internal/cli/host_agent.go): process-session leases, Host Lock  *)
(* confirmation, takeover before confirmation, quarantine after it,        *)
(* completion, and the loss and restart of either side.                    *)
(*                                                                         *)
(* A process is one `host-agent run-once` invocation.  It registers at     *)
(* most once, so the process itself stands for the session ID it is given; *)
(* a run is assigned at most once, so the run stands for its lock token.   *)
(* Requests are retried and may be delivered late and more than once: what *)
(* a process has sent can be handled at any later time, and what was       *)
(* answered can be read at any later time or never.                        *)
(*                                                                         *)
(* A journaled Commit is one step here, with the outcomes TransitionStore  *)
(* establishes: it succeeds, or it fails and a restart finds either the    *)
(* old or the new record.                                                  *)
(***************************************************************************)
EXTENDS Naturals

CONSTANTS Agents,       \* enrolled Agents, one per Maya Host
          Procs,        \* run-once processes
          AgentOf,      \* the Agent each process runs for
          Runs,         \* accepted runs, waiting in the queue
          MaxFaults,    \* bound on failing Commits and cleanups
          MaxRestarts,  \* bound on Control Plane restarts
          None

\* States of a durable assignment record.
Recorded == {"assigned", "confirmed", "finishing", "quarantined", "completed"}

ASSUME AgentAssumption == AgentOf \in [Procs -> Agents]
ASSUME NoneAssumption == None \notin Agents \cup Procs \cup Runs \cup Recorded
ASSUME BoundAssumption == MaxFaults \in Nat /\ MaxRestarts \in Nat

VARIABLES
    \* The Control Plane's memory.
    up,         \* whether the Control Plane serves requests
    state,      \* agent.status.State
    run,        \* agent.status.RunID
    session,    \* agent.status.SessionID
    live,       \* now is before agent.sessionExpiresAt
    grace,      \* now is before agent.takeoverNotBefore
    asg,        \* state of handler.assignments[run].record
    finishing,  \* runs whose completion is being committed
    watched,    \* runs a submission goroutine of this process waits for
    reserved,   \* the run that holds the shared Host Lock before assignment
    \* The Control Plane's disk.
    durable,    \* state of the assignment record a restart loads
    host,       \* the Agent named by the assignment record
    queue,      \* runs with a queue intent, waiting for a host
    bound,      \* the Maya UI Session bound to the Host Lock
    marker,     \* the write-ahead quarantine marker of an Agent
    \* The Agent processes and their hosts.
    pc,         \* where a process is in runHostAgentOnce
    job,        \* the assignment a process polled
    sent, ok, no,   \* requests sent, answered 200, answered 4xx
    maya,       \* whether the Maya UI Session of a process is alive
    \* Bounds.
    faults, restarts

memory == <<up, state, run, session, live, grace, asg, finishing, watched, reserved>>
disk   == <<durable, host, bound, marker, queue>>
procs  == <<pc, job, sent, ok, no, maya>>
vars   == <<memory, disk, procs, faults, restarts>>

AgentStates == {"enrolled", "offline", "ready", "reserving", "locked", "running",
                "quarantined"}
Requests == {"confirm", "bind", "complete", "fail", "quarantine"}
Places   == {"new", "registered", "polled", "confirmed", "maya", "bound", "stopped",
             "unresolved", "done", "dead"}

Init ==
    /\ up = TRUE
    /\ state = [a \in Agents |-> "enrolled"]
    /\ run = [a \in Agents |-> None]
    /\ session = [a \in Agents |-> None]
    /\ live = [a \in Agents |-> FALSE]
    /\ grace = [a \in Agents |-> FALSE]
    /\ asg = [r \in Runs |-> None]
    /\ finishing = {}
    /\ watched = {}
    /\ reserved = [a \in Agents |-> None]
    /\ durable = [r \in Runs |-> None]
    /\ host = [r \in Runs |-> None]
    /\ bound = [r \in Runs |-> None]
    /\ marker = [a \in Agents |-> None]
    /\ queue = Runs
    /\ pc = [p \in Procs |-> "new"]
    /\ job = [p \in Procs |-> None]
    /\ sent = [p \in Procs |-> {}]
    /\ ok = [p \in Procs |-> {}]
    /\ no = [p \in Procs |-> {}]
    /\ maya = [p \in Procs |-> FALSE]
    /\ faults = 0
    /\ restarts = 0

-----------------------------------------------------------------------------
(* Building blocks of the handlers.                                        *)

\* The outcome of store.Commit for run r and record state s.
CommitOk(r, s) ==
    /\ durable' = [durable EXCEPT ![r] = s]
    /\ UNCHANGED faults

CommitFails(r, s) ==
    /\ faults < MaxFaults
    /\ faults' = faults + 1
    /\ durable' \in {durable, [durable EXCEPT ![r] = s]}

\* An expired session is cleared; the Agent keeps its run, if it has one.
ClearSession(a) ==
    /\ session' = [session EXCEPT ![a] = None]
    /\ live' = [live EXCEPT ![a] = FALSE]
    /\ state' = [state EXCEPT ![a] = IF run[a] = None THEN "offline" ELSE "locked"]

\* Faulty variant: the quarantined Agent keeps its process session.
QuarantineKeepsSession(a) ==
    /\ state' = [state EXCEPT ![a] = "quarantined"]
    /\ UNCHANGED <<session, live>>

\* A quarantined Agent has no session, and keeps its run.
TakeOutOfService(a) ==
    /\ state' = [state EXCEPT ![a] = "quarantined"]
    /\ session' = [session EXCEPT ![a] = None]
    /\ live' = [live EXCEPT ![a] = FALSE]

Answer(p, q)  == ok' = [ok EXCEPT ![p] = @ \cup {q}] /\ UNCHANGED no
Reject(p, q)  == no' = [no EXCEPT ![p] = @ \cup {q}] /\ UNCHANGED ok

\* A request that fails a check other than the session fence changes nothing.
RejectRequest(p, q) ==
    /\ Reject(p, q)
    /\ UNCHANGED <<memory, disk, pc, job, sent, maya, faults, restarts>>

\* Faulty variant: any live session of the Agent passes.
AnySessionPasses(p) == live[AgentOf[p]]

\* acceptHostAgentSession: the session is the Agent's and its lease runs.  A
\* session whose lease has run out is cleared by the request that shows it.
Fenced(p) == session[AgentOf[p]] = p /\ live[AgentOf[p]]

RejectExpired(p, q) ==
    /\ session[AgentOf[p]] = p /\ ~live[AgentOf[p]]
    /\ ClearSession(AgentOf[p])
    /\ Reject(p, q)
    /\ UNCHANGED <<up, run, grace, asg, finishing, watched, reserved, disk,
                   pc, job, sent, maya, faults, restarts>>

\* A request of p for its assignment is being handled.
Handling(p, q) == up /\ q \in sent[p]

\* A completion that is being staged holds checkpointMu, which confirmations and
\* bindings of the same run wait for.
Staging(r) == r \in finishing /\ asg[r] = "confirmed"

Assigned(p, states) == /\ job[p] # None
                       /\ asg[job[p]] \in states
                       /\ host[job[p]] = AgentOf[p]

-----------------------------------------------------------------------------
(* Time: leases run out and the restart grace ends.                        *)

LeaseExpires(a) ==
    /\ up /\ session[a] # None /\ live[a]
    /\ live' = [live EXCEPT ![a] = FALSE]
    /\ UNCHANGED <<up, state, run, session, grace, asg, finishing, watched, reserved,
                   disk, procs, faults, restarts>>

GraceEnds(a) ==
    /\ up /\ grace[a]
    /\ grace' = [grace EXCEPT ![a] = FALSE]
    /\ UNCHANGED <<up, state, run, session, live, asg, finishing, watched, reserved,
                   disk, procs, faults, restarts>>

-----------------------------------------------------------------------------
(* Quarantine (quarantineHostAgentAssignment): only of a confirmed          *)
(* assignment whose completion is not being committed.                     *)

QuarantineCommit(r) ==
    \/ /\ CommitOk(r, "quarantined")
       /\ asg' = [asg EXCEPT ![r] = "quarantined"]
       /\ watched' = watched \ {r}
       /\ TakeOutOfService(host[r])
    \/ /\ CommitFails(r, "quarantined")
       /\ UNCHANGED <<asg, watched, state, session, live>>

CanQuarantine(r) == r # None /\ asg[r] = "confirmed" /\ r \notin finishing

\* Faulty variants: a process is lost only when its session is gone, or only
\* while an expired session is still recorded.
LostWithoutSession(a) == session[a] = None /\ ~grace[a]
LostWithSession(a)    == session[a] # None /\ ~live[a]

\* The process is gone: its lease ran out, or it never came back after a restart.
ProcessLost(a) == \/ session[a] # None /\ ~live[a]
                  \/ session[a] = None /\ ~grace[a]

\* The wait loop of runScenarioThroughHostAgent, every heartbeat interval.
Watch(r) ==
    /\ up /\ r \in watched /\ CanQuarantine(r) /\ ProcessLost(host[r])
    /\ QuarantineCommit(r)
    /\ UNCHANGED <<up, run, grace, finishing, reserved, host, bound, marker, queue, procs, restarts>>

\* serveHostAgentStatus, when it finds an expired session.
Status(a) ==
    /\ up /\ session[a] # None /\ ~live[a]
    /\ IF CanQuarantine(run[a])
       THEN QuarantineCommit(run[a])
       ELSE ClearSession(a) /\ UNCHANGED <<asg, watched, durable, faults>>
    /\ UNCHANGED <<up, run, grace, finishing, reserved, host, bound, marker, queue, procs, restarts>>

\* serveHostAgentEnrollment of an Agent that is already enrolled: an expired
\* session is cleared first, and an Agent that has a run is left at that.
Enroll(a) ==
    /\ up
    /\ IF session[a] = None THEN run[a] = None /\ state[a] # "reserving" ELSE ~live[a]
    /\ session' = [session EXCEPT ![a] = None]
    /\ live' = [live EXCEPT ![a] = FALSE]
    /\ IF run[a] = None
       THEN /\ state' = [state EXCEPT ![a] = "enrolled"]
            /\ grace' = [grace EXCEPT ![a] = FALSE]
       ELSE /\ state' = [state EXCEPT ![a] = "locked"]
            /\ UNCHANGED grace
    /\ UNCHANGED <<up, run, asg, finishing, watched, reserved, disk, procs, faults, restarts>>

-----------------------------------------------------------------------------
(* Registration, heartbeats, polls (serveHostAgentRegistration and below). *)

\* The registration is rejected: the run of the Agent is not up for takeover,
\* or the prior process may still be there.
RegistrationBlocked(a) ==
    \/ state[a] = "quarantined"
    \/ /\ run[a] # None
       /\ asg[run[a]] \in {"quarantined", "finishing"} \/ run[a] \in finishing
    \/ run[a] # None /\ session[a] = None /\ grace[a]
    \/ session[a] # None /\ live[a]

Register(p) ==
    LET a == AgentOf[p] IN
    /\ up /\ pc[p] = "new" /\ ~RegistrationBlocked(a)
    /\ ~(CanQuarantine(run[a]) /\ ProcessLost(a))
    /\ session' = [session EXCEPT ![a] = p]
    /\ live' = [live EXCEPT ![a] = TRUE]
    /\ grace' = [grace EXCEPT ![a] = FALSE]
    /\ state' = [state EXCEPT ![a] = IF run[a] = None THEN "ready" ELSE "locked"]
    /\ pc' = [pc EXCEPT ![p] = "registered"]
    /\ UNCHANGED <<up, run, asg, finishing, watched, reserved, disk,
                   job, sent, ok, no, maya, faults, restarts>>

\* A registration that finds a confirmed assignment without its process
\* quarantines it and is itself rejected.
RegisterQuarantines(p) ==
    LET a == AgentOf[p] IN
    /\ up /\ pc[p] = "new" /\ state[a] # "quarantined"
    /\ CanQuarantine(run[a]) /\ ProcessLost(a)
    /\ QuarantineCommit(run[a])
    /\ pc' = [pc EXCEPT ![p] = "dead"]
    /\ UNCHANGED <<up, run, grace, finishing, reserved, host, bound, marker, queue,
                   job, sent, ok, no, maya, restarts>>

\* A heartbeat (or a poll with nothing to deliver) renews the lease.  The model
\* has no clock: renewing a live lease changes nothing, and an expired one is
\* cleared by the request that finds it.
HeartbeatExpired(p) ==
    LET a == AgentOf[p] IN
    /\ up /\ pc[p] \notin {"new", "done", "dead"}
    /\ session[a] = p /\ ~live[a]
    /\ ClearSession(a)
    /\ UNCHANGED <<up, run, grace, asg, finishing, watched, reserved, disk, procs,
                   faults, restarts>>

\* serveHostAgentNextAssignment hands out an assigned or confirmed assignment.
Poll(p) ==
    LET a == AgentOf[p] IN
    /\ up /\ pc[p] = "registered" /\ Fenced(p)
    /\ run[a] # None /\ asg[run[a]] \in {"assigned", "confirmed"}
    /\ job' = [job EXCEPT ![p] = run[a]]
    /\ pc' = [pc EXCEPT ![p] = "polled"]
    /\ sent' = [sent EXCEPT ![p] = {"confirm"}]
    /\ UNCHANGED <<memory, disk, ok, no, maya, faults, restarts>>

\* disconnectHostAgentSession: the polling connection broke.
Disconnect(p) ==
    LET a == AgentOf[p] IN
    /\ up /\ pc[p] \in {"registered", "dead"} /\ session[a] = p /\ run[a] = None
    /\ state' = [state EXCEPT ![a] = "offline"]
    /\ session' = [session EXCEPT ![a] = None]
    /\ live' = [live EXCEPT ![a] = FALSE]
    /\ UNCHANGED <<up, run, grace, asg, finishing, watched, reserved, disk, procs,
                   faults, restarts>>

-----------------------------------------------------------------------------
(* Assignment (dispatchQueuedRuns and runScenarioThroughHostAgent).        *)

\* dispatchQueuedRuns claims a ready Agent and takes its shared Host Lock for a
\* run.  A claim that finds the lock held is undone by the dispatcher.
Reserve(r, a) ==
    /\ up /\ state[a] = "ready" /\ session[a] # None /\ live[a] /\ reserved[a] = None
    /\ r \in queue /\ asg[r] = None
    /\ \A b \in Agents : reserved[b] # r
    /\ state' = [state EXCEPT ![a] = "reserving"]
    /\ reserved' = [reserved EXCEPT ![a] = r]
    /\ UNCHANGED <<up, run, session, live, grace, asg, finishing, watched, disk, procs,
                   faults, restarts>>

\* The reservation still stands and the Agent's process is still there.
Reserving(a) == state[a] = "reserving" /\ run[a] = None
Eligible(a)  == Reserving(a) /\ session[a] # None /\ live[a]

\* An expired reservation takes the Agent offline; otherwise it is ready again.
FreeReservation(a) ==
    IF session[a] # None /\ live[a]
    THEN state' = [state EXCEPT ![a] = "ready"] /\ UNCHANGED <<session, live>>
    ELSE /\ state' = [state EXCEPT ![a] = "offline"]
         /\ session' = [session EXCEPT ![a] = None]
         /\ live' = [live EXCEPT ![a] = FALSE]

\* failBeforeTransition: the run ends as failed, a standing reservation is undone.
FailBefore(r, a) ==
    /\ queue' = queue \ {r}
    /\ state' = IF state[a] = "reserving" THEN [state EXCEPT ![a] = "ready"] ELSE state
    /\ UNCHANGED <<session, live>>

\* The first look at the reservation: it is gone, and the run stays in the queue,
\* unless the shared lock cannot be released: then the run fails.  A lock file
\* such a release leaves behind would only keep the host from being claimed.
Unreserve(r, a) ==
    /\ up /\ reserved[a] = r /\ marker[a] # r /\ ~Eligible(a)
    /\ reserved' = [reserved EXCEPT ![a] = None]
    /\ IF Reserving(a) THEN FreeReservation(a) ELSE UNCHANGED <<state, session, live>>
    /\ \/ UNCHANGED <<queue, faults>>
       \/ faults < MaxFaults /\ faults' = faults + 1 /\ queue' = queue \ {r}
    /\ UNCHANGED <<up, run, grace, asg, finishing, watched, durable, host, bound, marker, procs,
                   restarts>>

\* The write-ahead quarantine marker.
WriteMarker(r, a) ==
    /\ up /\ reserved[a] = r /\ marker[a] # r /\ Eligible(a)
    /\ \/ /\ marker' = [marker EXCEPT ![a] = r]
          /\ UNCHANGED <<state, session, live, reserved, queue, faults>>
       \/ /\ faults < MaxFaults /\ faults' = faults + 1
          /\ marker' \in {marker, [marker EXCEPT ![a] = r]}
          /\ reserved' = [reserved EXCEPT ![a] = None]
          /\ FailBefore(r, a)
    /\ UNCHANGED <<up, run, grace, asg, finishing, watched, durable, host, bound, procs,
                   restarts>>

\* The second look: the reservation is gone, its process expired or its
\* capabilities changed.  The marker and the shared lock are removed; a run
\* whose reservation was taken away meanwhile fails, the others wait again.
Rollback(r, a) ==
    /\ up /\ reserved[a] = r /\ marker[a] = r
    /\ reserved' = [reserved EXCEPT ![a] = None]
    /\ \/ /\ marker' = [marker EXCEPT ![a] = None]
          /\ IF Reserving(a) THEN FreeReservation(a) /\ UNCHANGED queue
                             ELSE FailBefore(r, a)
          /\ UNCHANGED faults
       \/ /\ faults < MaxFaults /\ faults' = faults + 1
          /\ FailBefore(r, a)
          /\ UNCHANGED marker
    /\ UNCHANGED <<up, run, grace, asg, finishing, watched, durable, host, bound, procs,
                   restarts>>

\* Faulty variant: a failed transition is taken for one that never happened.
SlotReusedAfterFailure(r, a) ==
    /\ state' = [state EXCEPT ![a] = "ready"]
    /\ marker' = [marker EXCEPT ![a] = None]
    /\ durable' \in {durable, [durable EXCEPT ![r] = "assigned"]}
    /\ UNCHANGED <<run, asg, session, live>>

\* The transition to assigned failed: the slot is quarantined for the run, and
\* so is its record; if committing that fails as well, the marker stays.  (A
\* marker whose removal was not made durable is written again; that this write
\* fails too is not modelled.)
QuarantineSlot(r, a) ==
    /\ run' = [run EXCEPT ![a] = r]
    /\ asg' = [asg EXCEPT ![r] = "quarantined"]
    /\ TakeOutOfService(a)
    /\ \/ /\ durable' = [durable EXCEPT ![r] = "quarantined"]
          /\ marker' = [marker EXCEPT ![a] = None]
       \/ /\ durable' \in {durable, [durable EXCEPT ![r] = "assigned"]}
          /\ UNCHANGED marker

\* Commit(assigned) makes the assignment visible to the Agent.
Assign(r, a) ==
    /\ up /\ reserved[a] = r /\ marker[a] = r /\ Eligible(a)
    /\ host' = [host EXCEPT ![r] = a]
    /\ reserved' = [reserved EXCEPT ![a] = None]
    /\ queue' = queue \ {r}
    /\ \/ /\ CommitOk(r, "assigned")
          /\ run' = [run EXCEPT ![a] = r]
          /\ asg' = [asg EXCEPT ![r] = "assigned"]
          /\ watched' = watched \cup {r}
          /\ state' = [state EXCEPT ![a] = "locked"]
          /\ marker' = [marker EXCEPT ![a] = None]
          /\ UNCHANGED <<session, live>>
       \/ /\ faults < MaxFaults /\ faults' = faults + 1
          /\ QuarantineSlot(r, a)
          /\ UNCHANGED watched
    /\ UNCHANGED <<up, grace, finishing, bound, procs, restarts>>

-----------------------------------------------------------------------------
(* Confirmation, Maya UI Session binding and progress.                     *)

\* serveHostAgentConfirm
Confirm(p) ==
    LET r == job[p]
        a == AgentOf[p]
    IN
    /\ Handling(p, "confirm") /\ ~Staging(job[p])
    /\ Assigned(p, {"assigned", "confirmed"})
    /\ Fenced(p)
    /\ \/ /\ CommitOk(r, "confirmed")
          /\ asg' = [asg EXCEPT ![r] = "confirmed"]
          /\ state' = [state EXCEPT ![a] = "running"]
          /\ Answer(p, "confirm")
       \/ /\ CommitFails(r, "confirmed")
          /\ state' = [state EXCEPT ![a] = "locked"]
          /\ UNCHANGED <<asg, ok, no>>
    /\ UNCHANGED <<up, run, session, live, grace, finishing, watched, reserved,
                   host, bound, marker, queue,
                   pc, job, sent, maya, restarts>>

ConfirmRejected(p) ==
    /\ Handling(p, "confirm") /\ ~Staging(job[p])
    /\ IF Assigned(p, {"assigned", "confirmed"})
       THEN \/ RejectExpired(p, "confirm")
            \/ session[AgentOf[p]] # p /\ RejectRequest(p, "confirm")
       ELSE RejectRequest(p, "confirm")

\* serveHostAgentSession: the first Maya UI Session is bound to the Host Lock.
\* The session of process p is named by p.  A Commit that fails may have bound it.
Bind(p) ==
    LET r == job[p] IN
    /\ Handling(p, "bind") /\ ~Staging(job[p])
    /\ Assigned(p, {"confirmed"})
    /\ Fenced(p)
    /\ bound[r] \in {None, p}
    /\ IF bound[r] = p
       THEN Answer(p, "bind") /\ UNCHANGED <<bound, faults>>
       ELSE \/ bound' = [bound EXCEPT ![r] = p] /\ Answer(p, "bind") /\ UNCHANGED faults
            \/ /\ faults < MaxFaults /\ faults' = faults + 1
               /\ bound' \in {bound, [bound EXCEPT ![r] = p]}
               /\ UNCHANGED <<ok, no>>
    /\ UNCHANGED <<memory, durable, host, marker, queue, pc, job, sent, maya, restarts>>

BindRejected(p) ==
    /\ Handling(p, "bind") /\ ~Staging(job[p])
    /\ IF Assigned(p, {"confirmed"})
       THEN \/ RejectExpired(p, "bind")
            \/ session[AgentOf[p]] # p /\ RejectRequest(p, "bind")
            \/ Fenced(p) /\ bound[job[p]] \notin {None, p} /\ RejectRequest(p, "bind")
       ELSE RejectRequest(p, "bind")

-----------------------------------------------------------------------------
(* Completion and reported failure.                                        *)

\* serveHostAgentComplete and serveHostAgentFail up to the staging of the
\* terminal evidence, which runs without handler.mu.
BeginFinish(p, q) ==
    /\ Handling(p, q) /\ q \in {"complete", "fail"}
    /\ Assigned(p, {"confirmed"}) /\ job[p] \notin finishing
    /\ Fenced(p)
    /\ finishing' = finishing \cup {job[p]}
    /\ UNCHANGED <<up, state, run, session, live, grace, asg, watched, reserved,
                   disk, procs, faults, restarts>>

FinishRejected(p, q) ==
    /\ Handling(p, q) /\ q \in {"complete", "fail"}
    /\ ~(q = "complete" /\ asg[job[p]] = None /\ durable[job[p]] = "completed")
    /\ IF \/ Assigned(p, {"confirmed"}) /\ job[p] \notin finishing
          \/ q = "complete" /\ Assigned(p, {"finishing"})
       THEN \/ RejectExpired(p, q)
            \/ session[AgentOf[p]] # p /\ RejectRequest(p, q)
       ELSE RejectRequest(p, q)

\* A completion of a run that is completed already is answered from disk.
CompleteAgain(p) ==
    /\ Handling(p, "complete")
    /\ asg[job[p]] = None /\ durable[job[p]] = "completed" /\ host[job[p]] = AgentOf[p]
    /\ Answer(p, "complete")
    /\ UNCHANGED <<memory, disk, pc, job, sent, maya, faults, restarts>>

\* Faulty variant: the completed assignment is not deleted from memory.
ReleaseWithoutDelete(r, a) ==
    /\ asg' = [asg EXCEPT ![r] = "completed"]
    /\ watched' = watched \ {r}
    /\ finishing' = finishing \ {r}
    /\ state' = [state EXCEPT ![a] = "offline"]
    /\ run' = [run EXCEPT ![a] = None]
    /\ session' = [session EXCEPT ![a] = None]
    /\ live' = [live EXCEPT ![a] = FALSE]

\* The completed record is durable: the slot is free, and offline until a new
\* process registers.
Release(r, a) ==
    /\ asg' = [asg EXCEPT ![r] = None]
    /\ watched' = watched \ {r}
    /\ finishing' = finishing \ {r}
    /\ state' = [state EXCEPT ![a] = "offline"]
    /\ run' = [run EXCEPT ![a] = None]
    /\ session' = [session EXCEPT ![a] = None]
    /\ live' = [live EXCEPT ![a] = FALSE]

\* validHostAgentCompletionSession: a bound Maya UI Session is the one the
\* evidence names.
ValidSession(p) == bound[job[p]] \in {None, p}

\* finishHostAgentAssignment for the process whose request holds `finishing`.
Finish(p, q) ==
    LET r == job[p]
        a == AgentOf[p]
    IN
    /\ Handling(p, q) /\ q \in {"complete", "fail"}
    /\ Assigned(p, {"confirmed"}) /\ r \in finishing
    /\ Fenced(p)
    /\ q = "complete" => ValidSession(p)
    /\ \* everything succeeds
       \/ CommitOk(r, "completed") /\ Release(r, a) /\ Answer(p, q)
       \* Commit(finishing) fails: back to confirmed, the Agent retries
       \/ /\ CommitFails(r, "finishing")
          /\ finishing' = finishing \ {r}
          /\ UNCHANGED <<asg, watched, state, run, session, live, ok, no>>
       \* Commit(completed) fails, or the cleanup and then its quarantine do
       \/ /\ faults < MaxFaults /\ faults' = faults + 1
          /\ durable' \in {[durable EXCEPT ![r] = s] : s \in {"finishing", "completed", "quarantined"}}
          /\ asg' = [asg EXCEPT ![r] = "finishing"]
          /\ UNCHANGED <<finishing, watched, state, run, session, live, ok, no>>
       \* the cleanup fails: the slot is quarantined
       \/ /\ faults < MaxFaults /\ faults' = faults + 1
          /\ durable' = [durable EXCEPT ![r] = "quarantined"]
          /\ asg' = [asg EXCEPT ![r] = "quarantined"]
          /\ finishing' = finishing \ {r}
          /\ watched' = watched \ {r}
          /\ TakeOutOfService(a)
          /\ UNCHANGED <<run, ok, no>>
    /\ UNCHANGED <<up, grace, reserved, host, bound, marker, queue,
                   pc, job, sent, maya, restarts>>

\* The session changed while the evidence was staged, or the evidence was not
\* acceptable or not readable: resetHostAgentFinishing puts the assignment back to confirmed.
FinishReset(p, q) ==
    LET a == AgentOf[p] IN
    /\ Handling(p, q) /\ q \in {"complete", "fail"}
    /\ Assigned(p, {"confirmed"}) /\ job[p] \in finishing
    /\ finishing' = finishing \ {job[p]}
    /\ \/ /\ session[a] = p /\ ~live[a] /\ ClearSession(a)
          /\ UNCHANGED <<ok, no, faults>>
       \/ /\ session[a] # p
          /\ UNCHANGED <<state, session, live, ok, no, faults>>
       \/ /\ q = "complete" /\ Reject(p, q)
          /\ UNCHANGED <<state, session, live, faults>>
       \/ /\ q = "fail" /\ faults < MaxFaults /\ faults' = faults + 1
          /\ UNCHANGED <<state, session, live, ok, no>>
    /\ UNCHANGED <<up, run, grace, asg, watched, reserved, disk, pc, job, sent, maya,
                   restarts>>

\* resumeFinishingHostAgentAssignment: a completion is retried after the
\* finishing record became durable.
ResumeFinish(p) ==
    LET r == job[p] IN
    /\ Handling(p, "complete")
    /\ Assigned(p, {"finishing"})
    /\ Fenced(p)
    /\ \/ CommitOk(r, "completed") /\ Release(r, AgentOf[p]) /\ Answer(p, "complete")
       \/ /\ CommitFails(r, "completed")
          /\ UNCHANGED <<asg, finishing, watched, state, run, session, live, ok, no>>
    /\ UNCHANGED <<up, grace, reserved, host, bound, marker, queue,
                   pc, job, sent, maya, restarts>>

\* serveHostAgentFail with the quarantine flag: Maya's shutdown is unverified.
FailQuarantine(p) ==
    /\ Handling(p, "quarantine")
    /\ Assigned(p, {"confirmed"}) /\ job[p] \notin finishing
    /\ Fenced(p)
    /\ QuarantineCommit(job[p])
    /\ IF asg' # asg THEN Answer(p, "quarantine") ELSE UNCHANGED <<ok, no>>
    /\ UNCHANGED <<up, run, grace, finishing, reserved, host, bound, marker, queue,
                   pc, job, sent, maya, restarts>>

FailQuarantineRejected(p) ==
    /\ Handling(p, "quarantine")
    /\ IF Assigned(p, {"confirmed"}) /\ job[p] \notin finishing
       THEN \/ RejectExpired(p, "quarantine")
            \/ session[AgentOf[p]] # p /\ RejectRequest(p, "quarantine")
       ELSE RejectRequest(p, "quarantine")

-----------------------------------------------------------------------------
(* The Agent process (runHostAgentOnce).                                   *)

\* p moves on; everything else of the processes is as given.
Moves(p, to) == /\ pc' = [pc EXCEPT ![p] = to]
                /\ UNCHANGED <<memory, disk, job, ok, no, faults, restarts>>

Send(p, q) == sent' = [sent EXCEPT ![p] = @ \cup {q}]

\* Only an answered confirmation starts the run.
ReadConfirm(p) ==
    /\ pc[p] = "polled" /\ "confirm" \in ok[p]
    /\ Moves(p, "confirmed")
    /\ UNCHANGED <<sent, maya>>

\* The Session Broker launches Maya; SessionStarted posts the binding.
StartMaya(p) ==
    /\ pc[p] = "confirmed"
    /\ maya' = [maya EXCEPT ![p] = TRUE]
    /\ Send(p, "bind")
    /\ Moves(p, "maya")

ReadBind(p) ==
    /\ pc[p] = "maya" /\ "bind" \in ok[p]
    /\ Moves(p, "bound")
    /\ UNCHANGED <<sent, maya>>

\* The run ends, is cancelled by a lost heartbeat or by a rejected binding: the
\* stop of Maya is verified, or it is not (and Maya may still be there).
StopMaya(p) ==
    /\ pc[p] \in {"maya", "bound"}
    /\ maya' = [maya EXCEPT ![p] = FALSE]
    /\ UNCHANGED sent
    /\ Moves(p, "stopped")

StopUnresolved(p) ==
    /\ pc[p] \in {"maya", "bound"}
    /\ maya' \in {maya, [maya EXCEPT ![p] = FALSE]}
    /\ Send(p, "quarantine")
    /\ Moves(p, "unresolved")

\* A verified stop ends in a completion or in a reported failure; a failure
\* before Maya started is reported too.
PostTerminal(p, q) ==
    /\ \/ q = "complete" /\ pc[p] = "stopped"
       \/ q = "fail" /\ pc[p] \in {"confirmed", "stopped"}
    /\ sent[p] \cap {"complete", "fail"} = {}
    /\ Send(p, q)
    /\ UNCHANGED maya
    /\ Moves(p, "stopped")

\* The command returns: on a rejected request, or on the answer to its last one.
Exit(p) ==
    /\ pc[p] \notin {"new", "done", "dead"}
    /\ \/ no[p] \cap sent[p] # {} /\ pc[p] \notin {"maya", "bound"}
       \/ ok[p] \cap {"complete", "fail", "quarantine"} # {}
    /\ UNCHANGED <<sent, maya>>
    /\ Moves(p, "done")

\* The process is killed; its requests may still be on their way, its Maya
\* session may survive it.
Kill(p) ==
    /\ pc[p] \notin {"new", "done", "dead"}
    /\ UNCHANGED <<sent, maya>>
    /\ Moves(p, "dead")

\* A Maya session that nobody controls any more ends on its own.
OrphanEnds(p) ==
    /\ maya[p] /\ pc[p] \in {"unresolved", "done", "dead"}
    /\ maya' = [maya EXCEPT ![p] = FALSE]
    /\ UNCHANGED <<memory, disk, pc, job, sent, ok, no, faults, restarts>>

-----------------------------------------------------------------------------
(* Control Plane stop and restart (loadHostAgentState).                    *)

Stop ==
    /\ up /\ restarts < MaxRestarts
    /\ up' = FALSE
    /\ restarts' = restarts + 1
    /\ UNCHANGED <<state, run, session, live, grace, asg, finishing, watched, reserved,
                   disk, procs, faults>>

\* Faulty variant: startup ignores the write-ahead markers.
LoadedWithoutMarkers(r) == IF durable[r] = "finishing" THEN "completed" ELSE durable[r]

\* Markers quarantine their run, finishing assignments are completed, and the
\* other active ones are loaded without their session.
Loaded(r) ==
    IF \E a \in Agents : marker[a] = r THEN "quarantined"
    ELSE IF durable[r] = "finishing" THEN "completed"
    ELSE durable[r]

OwnerOf(r) == IF \E a \in Agents : marker[a] = r
              THEN CHOOSE a \in Agents : marker[a] = r ELSE host[r]

ActiveRuns(a) == {r \in Runs : /\ Loaded(r) \in {"assigned", "confirmed", "quarantined"}
                               /\ OwnerOf(r) = a}

Restart ==
    /\ ~up
    /\ up' = TRUE
    /\ durable' = [r \in Runs |-> Loaded(r)]
    /\ host' = [r \in Runs |-> OwnerOf(r)]
    /\ marker' = [a \in Agents |-> None]
    /\ asg' = [r \in Runs |-> IF Loaded(r) = "completed" THEN None ELSE Loaded(r)]
    /\ run' = [a \in Agents |-> IF ActiveRuns(a) = {} THEN None
                                ELSE CHOOSE r \in ActiveRuns(a) : TRUE]
    /\ state' = [a \in Agents |->
                   IF \E r \in ActiveRuns(a) : Loaded(r) = "quarantined"
                   THEN "quarantined" ELSE "offline"]
    /\ session' = [a \in Agents |-> None]
    /\ live' = [a \in Agents |-> FALSE]
    /\ grace' = [a \in Agents |-> ActiveRuns(a) # {}]
    /\ finishing' = {}
    /\ watched' = {}
    /\ reserved' = [a \in Agents |-> None]
    /\ queue' = queue \ {r \in Runs : Loaded(r) # None}
    /\ UNCHANGED <<bound, procs, faults, restarts>>

-----------------------------------------------------------------------------

ControlPlane ==
    \/ \E a \in Agents : LeaseExpires(a) \/ GraceEnds(a) \/ Status(a) \/ Enroll(a)
    \/ \E r \in Runs : Watch(r)
    \/ \E r \in Runs, a \in Agents :
         Reserve(r, a) \/ WriteMarker(r, a) \/ Unreserve(r, a) \/ Rollback(r, a)
         \/ Assign(r, a)

Request(p) ==
    \/ Register(p) \/ RegisterQuarantines(p) \/ HeartbeatExpired(p) \/ Poll(p)
    \/ Disconnect(p)
    \/ Confirm(p) \/ ConfirmRejected(p)
    \/ Bind(p) \/ BindRejected(p)
    \/ \E q \in {"complete", "fail"} :
         BeginFinish(p, q) \/ FinishRejected(p, q) \/ Finish(p, q) \/ FinishReset(p, q)
    \/ CompleteAgain(p) \/ ResumeFinish(p)
    \/ FailQuarantine(p) \/ FailQuarantineRejected(p)

Process(p) ==
    \/ ReadConfirm(p) \/ StartMaya(p) \/ ReadBind(p) \/ StopMaya(p) \/ StopUnresolved(p)
    \/ \E q \in {"complete", "fail"} : PostTerminal(p, q)
    \/ Exit(p) \/ Kill(p) \/ OrphanEnds(p)

Next == ControlPlane \/ (\E p \in Procs : Request(p) \/ Process(p)) \/ Stop \/ Restart

Spec == Init /\ [][Next]_vars

\* The Control Plane's own steps happen: its wait loops run every heartbeat
\* interval, its handlers return, and a stopped one is started again.  A lease
\* is renewed by nobody once its process has gone, so it runs out.  Nothing is
\* assumed of the Agents, nor of the operators who start them.
Gone(p) == pc[p] \in {"done", "dead"}

OrphanedLeaseExpires(a) ==
    /\ session[a] # None /\ Gone(session[a])
    /\ LeaseExpires(a)

FairSpec ==
    /\ Spec
    /\ \A a \in Agents : WF_vars(OrphanedLeaseExpires(a)) /\ WF_vars(GraceEnds(a))
    /\ \A r \in Runs : WF_vars(Watch(r))
    /\ \A p \in Procs : \A q \in {"complete", "fail"} :
         WF_vars(Finish(p, q) \/ FinishReset(p, q))
    /\ WF_vars(Restart)

-----------------------------------------------------------------------------
(* Properties.                                                             *)

\* Types of the Control Plane's memory and disk and of the processes.
TypeOK ==
    /\ up \in BOOLEAN
    /\ state \in [Agents -> AgentStates]
    /\ run \in [Agents -> Runs \cup {None}]
    /\ session \in [Agents -> Procs \cup {None}]
    /\ live \in [Agents -> BOOLEAN]
    /\ grace \in [Agents -> BOOLEAN]
    /\ asg \in [Runs -> (Recorded \ {"completed"}) \cup {None}]
    /\ finishing \subseteq Runs
    /\ watched \subseteq Runs
    /\ reserved \in [Agents -> Runs \cup {None}]
    /\ durable \in [Runs -> Recorded \cup {None}]
    /\ host \in [Runs -> Agents \cup {None}]
    /\ bound \in [Runs -> Procs \cup {None}]
    /\ marker \in [Agents -> Runs \cup {None}]
    /\ queue \subseteq Runs
    /\ pc \in [Procs -> Places]
    /\ job \in [Procs -> Runs \cup {None}]
    /\ sent \in [Procs -> SUBSET Requests]
    /\ ok \in [Procs -> SUBSET Requests]
    /\ no \in [Procs -> SUBSET Requests]
    /\ maya \in [Procs -> BOOLEAN]
    /\ faults \in Nat
    /\ restarts \in Nat

\* A process that runs Maya, or that has been told it may.
MayRun(p) == \/ maya[p]
             \/ pc[p] \in {"confirmed", "maya", "bound"}
             \/ pc[p] = "polled" /\ "confirm" \in ok[p]

\* One Maya Host never has two Maya UI Sessions, nor one beside a process that
\* may still start one, whatever leases expire, whoever takes over and however
\* late a confirmation arrives.
ExclusiveMaya ==
    \A p, q \in Procs : MayRun(p) /\ MayRun(q) /\ AgentOf[p] = AgentOf[q] => p = q

\* The run of such a process keeps its host: its durable record is confirmed or
\* quarantined there, so neither a restart nor a completion frees the host
\* under a Maya that nobody has seen stop.
MayaKeepsHost ==
    \A p \in Procs : MayRun(p) =>
        /\ host[job[p]] = AgentOf[p]
        /\ durable[job[p]] \in {"confirmed", "quarantined"}

\* A restart finds at most one run for a host, in the records and in the
\* write-ahead markers together.
OneOwner == \A a \in Agents : \A r, s \in ActiveRuns(a) : r = s

\* A slot quarantined in memory stays quarantined for the same run, also over a
\* restart and when the Commit of the quarantine itself failed.
QuarantineIsFinal ==
    [][\A r \in Runs : asg[r] = "quarantined" => asg'[r] = "quarantined"]_vars

\* No process holds a session, and so none can run anything, on a host that is
\* quarantined.
QuarantineFences ==
    \A r \in Runs : asg[r] = "quarantined" =>
        /\ state[host[r]] = "quarantined"
        /\ run[host[r]] = r
        /\ session[host[r]] = None

\* Losing the process after confirmation quarantines (or finishes) the run.
LossEndsRun ==
    \A p \in Procs :
        (Gone(p) /\ "confirm" \in ok[p]) ~> ~(job[p] # None /\ asg[job[p]] = "confirmed")

=============================================================================
