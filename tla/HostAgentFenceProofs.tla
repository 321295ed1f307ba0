------------------------ MODULE HostAgentFenceProofs ------------------------
(***************************************************************************)
(* Proofs about HostAgentFence, for any number of Agents, processes and    *)
(* runs and any number of faults and restarts.                             *)
(***************************************************************************)
EXTENDS HostAgentFence, TLAPS

Terminals == {"complete", "fail"}

Confirmed(p) == "confirm" \in ok[p]

\* Where a process is in runHostAgentOnce, and what it has sent and read so far.
ProcInv ==
    \A p \in Procs :
        /\ pc[p] \in {"new", "registered"} => sent[p] = {} /\ ok[p] = {}
        /\ pc[p] \in {"new", "registered", "polled", "confirmed", "stopped"} => ~maya[p]
        /\ pc[p] \in {"confirmed", "maya", "bound", "stopped", "unresolved"} => Confirmed(p)
        /\ maya[p] => Confirmed(p)
        /\ sent[p] # {} \/ ok[p] # {} => job[p] \in Runs
        /\ sent[p] \cap Terminals # {} =>
             Confirmed(p) /\ ~maya[p] /\ pc[p] \in {"stopped", "done", "dead"}

\* A run that was confirmed stays on its host and never goes back.
ConfirmedInv ==
    \A p \in Procs : Confirmed(p) =>
        /\ host[job[p]] = AgentOf[p]
        /\ durable[job[p]] \in {"confirmed", "finishing", "quarantined", "completed"}
        /\ asg[job[p]] # "assigned"
        /\ asg[job[p]] = "confirmed" => session[AgentOf[p]] \in {p, None}

\* One process per run is told that it holds the Host Lock.
SingleConfirm ==
    \A p, q \in Procs : Confirmed(p) /\ Confirmed(q) /\ job[p] = job[q] => p = q

\* Memory: the runs with an assignment are the runs of the Agents.
SlotInv ==
    /\ \A r \in Runs : asg[r] # None => host[r] \in Agents /\ run[host[r]] = r
    /\ \A a \in Agents : run[a] # None => asg[run[a]] # None /\ host[run[a]] = a

\* Memory follows the disk.
DurableInv ==
    /\ \A r \in Runs : asg[r] = None => durable[r] \in {None, "completed"}
    /\ \A r \in Runs : durable[r] = None \/ host[r] \in Agents
    /\ \A r \in Runs : asg[r] = "quarantined" =>
         durable[r] = "quarantined" \/ marker[host[r]] = r

\* A queued run has no assignment; a reservation is for a queued run.
QueueInv ==
    /\ \A r \in queue : asg[r] = None /\ durable[r] = None /\ host[r] = None
    /\ \A a \in Agents : reserved[a] # None => reserved[a] \in queue
    /\ \A a, b \in Agents : reserved[a] # None /\ reserved[a] = reserved[b] => a = b

\* A marker names the run that owns the host, or will own it.
MarkerInv ==
    \A a \in Agents : marker[a] # None =>
        /\ run[a] \in {None, marker[a]}
        /\ marker[a] \in queue => reserved[a] = marker[a]
        /\ host[marker[a]] \in {None, a}
        /\ \A b \in Agents : marker[b] = marker[a] => a = b

IInv ==
    /\ TypeOK
    /\ ProcInv
    /\ ConfirmedInv
    /\ SingleConfirm
    /\ SlotInv
    /\ DurableInv
    /\ QueueInv
    /\ MarkerInv
    /\ MayaKeepsHost
    /\ QuarantineFences

-----------------------------------------------------------------------------
(* The invariant is preserved: types first, then the parts.                *)

USE AgentAssumption, NoneAssumption, BoundAssumption DEF Recorded

\* The Boolean part of TypeOK, which is shown on its own.
FlagsOK ==
    /\ up \in BOOLEAN
    /\ live \in [Agents -> BOOLEAN]
    /\ grace \in [Agents -> BOOLEAN]
    /\ maya \in [Procs -> BOOLEAN]

\* Every step keeps the types: every handler of host_agent.go and every step of
\* runHostAgentOnce.
LEMMA TypeStep == TypeOK /\ [Next]_vars => TypeOK'
  <1> SUFFICES ASSUME TypeOK, [Next]_vars PROVE TypeOK'
    OBVIOUS
  <1> USE DEF TypeOK, AgentStates, Requests, Places, memory, disk, procs, FlagsOK
  <1>1. ASSUME NEW a \in Agents, LeaseExpires(a) \/ GraceEnds(a) \/ Enroll(a)
       PROVE  TypeOK'
    <2>1. FlagsOK'
      BY <1>1 DEF LeaseExpires, GraceEnds, Enroll
    <2> QED
      BY <1>1, <2>1 DEF LeaseExpires, GraceEnds, Enroll
  <1>2. ASSUME NEW r \in Runs, QuarantineCommit(r)
       PROVE  /\ state' \in [Agents -> AgentStates]
              /\ session' \in [Agents -> Procs \cup {None}]
              /\ live' \in [Agents -> BOOLEAN]
              /\ asg' \in [Runs -> (Recorded \ {"completed"}) \cup {None}]
              /\ watched' \subseteq Runs
              /\ durable' \in [Runs -> Recorded \cup {None}]
              /\ faults' \in Nat
    <2>1. CASE /\ CommitOk(r, "quarantined")
               /\ asg' = [asg EXCEPT ![r] = "quarantined"]
               /\ watched' = watched \ {r}
               /\ TakeOutOfService(host[r])
      <3>1. live' \in [Agents -> BOOLEAN]
        BY <2>1 DEF TakeOutOfService
      <3> QED
        BY <2>1, <3>1 DEF TakeOutOfService, CommitOk
    <2>2. CASE /\ CommitFails(r, "quarantined")
               /\ UNCHANGED <<asg, watched, state, session, live>>
      BY <2>2 DEF CommitFails
    <2> QED
      BY <1>2, <2>1, <2>2 DEF QuarantineCommit
  <1>3. ASSUME NEW a \in Agents, Status(a)
       PROVE  TypeOK'
    <2>1. CASE CanQuarantine(run[a])
      BY <1>2, <1>3, <2>1 DEF Status, CanQuarantine
    <2>2. CASE ~CanQuarantine(run[a])
      <3>1. FlagsOK'
        BY <1>3, <2>2 DEF Status, ClearSession
      <3> QED
        BY <1>3, <2>2, <3>1 DEF Status, ClearSession
    <2> QED
      BY <2>1, <2>2
  <1>4. ASSUME NEW r \in Runs, Watch(r)
       PROVE  TypeOK'
    BY <1>2, <1>4 DEF Watch
  <1>5. ASSUME NEW r \in Runs, NEW a \in Agents,
               Reserve(r, a) \/ WriteMarker(r, a) \/ Unreserve(r, a) \/ Rollback(r, a)
       PROVE  TypeOK'
    <2>1. FlagsOK'
      BY <1>5 DEF Reserve, WriteMarker, Unreserve, Rollback, FreeReservation, FailBefore
    <2> QED
      BY <1>5, <2>1 DEF Reserve, WriteMarker, Unreserve, Rollback, FreeReservation, FailBefore
  <1>6. ASSUME NEW r \in Runs, NEW a \in Agents, Assign(r, a)
       PROVE  TypeOK'
    <2>1. FlagsOK'
      BY <1>6 DEF Assign, QuarantineSlot, TakeOutOfService, CommitOk
    <2>2. CASE /\ CommitOk(r, "assigned")
               /\ run' = [run EXCEPT ![a] = r]
               /\ asg' = [asg EXCEPT ![r] = "assigned"]
               /\ watched' = watched \cup {r}
               /\ state' = [state EXCEPT ![a] = "locked"]
               /\ marker' = [marker EXCEPT ![a] = None]
               /\ UNCHANGED <<session, live>>
      BY <1>6, <2>1, <2>2 DEF Assign, CommitOk
    <2>3. CASE faults' = faults + 1 /\ QuarantineSlot(r, a) /\ UNCHANGED watched
      BY <1>6, <2>1, <2>3 DEF Assign, QuarantineSlot, TakeOutOfService
    <2> QED
      BY <1>6, <2>2, <2>3 DEF Assign
  <1>7. ASSUME NEW p \in Procs,
               Register(p) \/ HeartbeatExpired(p) \/ Poll(p) \/ Disconnect(p)
       PROVE  TypeOK'
    <2>1. FlagsOK'
      BY <1>7 DEF Register, HeartbeatExpired, Poll, Disconnect, ClearSession
    <2> QED
      BY <1>7, <2>1 DEF Register, HeartbeatExpired, Poll, Disconnect, ClearSession
  <1>8. ASSUME NEW p \in Procs, RegisterQuarantines(p)
       PROVE  TypeOK'
    BY <1>2, <1>8 DEF RegisterQuarantines, CanQuarantine
  <1>9. ASSUME NEW p \in Procs, NEW q \in Requests,
               RejectRequest(p, q) \/ RejectExpired(p, q)
       PROVE  TypeOK'
    <2>1. FlagsOK'
      BY <1>9 DEF RejectRequest, RejectExpired, Reject, ClearSession
    <2> QED
      BY <1>9, <2>1 DEF RejectRequest, RejectExpired, Reject, ClearSession
  <1>10. ASSUME NEW p \in Procs, Confirm(p) \/ Bind(p)
       PROVE  TypeOK'
    <2>1. FlagsOK'
      BY <1>10 DEF Confirm, Bind, Answer, CommitOk, CommitFails, Assigned
    <2> QED
      BY <1>10, <2>1 DEF Confirm, Bind, Answer, CommitOk, CommitFails, Assigned
  <1>11. ASSUME NEW p \in Procs,
                ConfirmRejected(p) \/ BindRejected(p) \/ FailQuarantineRejected(p)
       PROVE  TypeOK'
    BY <1>9, <1>11 DEF ConfirmRejected, BindRejected, FailQuarantineRejected
  <1>12. ASSUME NEW p \in Procs, NEW q \in Terminals,
                BeginFinish(p, q) \/ FinishReset(p, q)
       PROVE  TypeOK'
    <2>1. FlagsOK'
      BY <1>12 DEF BeginFinish, FinishReset, Assigned, ClearSession, Reject, Terminals
    <2> QED
      BY <1>12, <2>1 DEF BeginFinish, FinishReset, Assigned, ClearSession, Reject, Terminals
  <1>20. ASSUME NEW p \in Procs, NEW q \in Terminals, FinishRejected(p, q)
       PROVE  TypeOK'
    BY <1>9, <1>20 DEF FinishRejected, Terminals
  <1>13. ASSUME NEW p \in Procs, NEW q \in Terminals, Finish(p, q)
       PROVE  TypeOK'
    <2>1. FlagsOK'
      BY <1>13 DEF Finish, Assigned, Release, TakeOutOfService
    <2>2. job[p] \in Runs /\ q \in Requests
      BY <1>13 DEF Finish, Assigned, Terminals
    <2>3. CASE CommitOk(job[p], "completed") /\ Release(job[p], AgentOf[p]) /\ Answer(p, q)
      BY <1>13, <2>1, <2>2, <2>3 DEF Finish, Release, Answer, CommitOk
    <2>4. CASE /\ CommitFails(job[p], "finishing")
               /\ finishing' = finishing \ {job[p]}
               /\ UNCHANGED <<asg, watched, state, run, session, live, ok, no>>
      BY <1>13, <2>1, <2>2, <2>4 DEF Finish, CommitFails
    <2>5. CASE /\ faults' = faults + 1
               /\ durable' \in {[durable EXCEPT ![job[p]] = s] : s \in {"finishing", "completed", "quarantined"}}
               /\ asg' = [asg EXCEPT ![job[p]] = "finishing"]
               /\ UNCHANGED <<finishing, watched, state, run, session, live, ok, no>>
      BY <1>13, <2>1, <2>2, <2>5 DEF Finish
    <2>6. CASE /\ faults' = faults + 1
               /\ durable' = [durable EXCEPT ![job[p]] = "quarantined"]
               /\ asg' = [asg EXCEPT ![job[p]] = "quarantined"]
               /\ finishing' = finishing \ {job[p]}
               /\ watched' = watched \ {job[p]}
               /\ TakeOutOfService(AgentOf[p])
               /\ UNCHANGED <<run, ok, no>>
      BY <1>13, <2>1, <2>2, <2>6 DEF Finish, TakeOutOfService
    <2> QED
      BY <1>13, <2>3, <2>4, <2>5, <2>6 DEF Finish
  <1>14. ASSUME NEW p \in Procs, CompleteAgain(p) \/ ResumeFinish(p)
       PROVE  TypeOK'
    <2>1. CASE CompleteAgain(p)
      BY <2>1 DEF CompleteAgain, Answer
    <2>2. CASE ResumeFinish(p)
      <3>1. FlagsOK' /\ job[p] \in Runs
        BY <2>2 DEF ResumeFinish, Assigned, Release
      <3>2. CASE CommitOk(job[p], "completed") /\ Release(job[p], AgentOf[p])
                   /\ Answer(p, "complete")
        BY <2>2, <3>1, <3>2 DEF ResumeFinish, Release, Answer, CommitOk
      <3>3. CASE /\ CommitFails(job[p], "completed")
                 /\ UNCHANGED <<asg, finishing, watched, state, run, session, live, ok, no>>
        BY <2>2, <3>1, <3>3 DEF ResumeFinish, CommitFails
      <3> QED
        BY <2>2, <3>2, <3>3 DEF ResumeFinish
    <2> QED
      BY <1>14, <2>1, <2>2
  <1>15. ASSUME NEW p \in Procs, FailQuarantine(p)
       PROVE  TypeOK'
    <2>1. job[p] \in Runs
      BY <1>15 DEF FailQuarantine, Assigned
    <2>2. ok' \in [Procs -> SUBSET Requests] /\ no' \in [Procs -> SUBSET Requests]
      BY <1>15 DEF FailQuarantine, Answer
    <2> QED
      BY <1>2, <1>15, <2>1, <2>2 DEF FailQuarantine
  <1>16. ASSUME NEW p \in Procs, Process(p)
       PROVE  TypeOK'
    <2>1. FlagsOK'
      BY <1>16 DEF Process, ReadConfirm, StartMaya, ReadBind, StopMaya,
                        StopUnresolved, PostTerminal, Exit, Kill, OrphanEnds, Moves, Send
    <2> QED
      BY <1>16, <2>1 DEF Process, ReadConfirm, StartMaya, ReadBind, StopMaya,
                        StopUnresolved, PostTerminal, Exit, Kill, OrphanEnds, Moves, Send
  <1>17. ASSUME Stop
       PROVE  TypeOK'
    <2>1. FlagsOK'
      BY <1>17 DEF Stop
    <2> QED
      BY <1>17, <2>1 DEF Stop
  <1>18. ASSUME Restart
       PROVE  TypeOK'
    <2>1. \A r \in Runs : Loaded(r) \in Recorded \cup {None} /\ OwnerOf(r) \in Agents \cup {None}
      BY DEF Loaded, OwnerOf
    <2>2. \A a \in Agents : ActiveRuns(a) \subseteq Runs
      BY DEF ActiveRuns
    <2>3. FlagsOK'
      BY <1>18 DEF Restart
    <2> HIDE DEF TypeOK
    <2>4. run' \in [Agents -> Runs \cup {None}]
      BY <1>18, <2>2 DEF Restart
    <2> USE DEF TypeOK
    <2> QED
      BY <1>18, <2>1, <2>3, <2>4 DEF Restart
  <1>19. CASE UNCHANGED vars
    BY <1>19 DEF vars
  <1> QED
    BY <1>1, <1>3, <1>4, <1>5, <1>6, <1>7, <1>8, <1>10, <1>11, <1>12, <1>13, <1>14,
       <1>15, <1>16, <1>17, <1>18, <1>19, <1>20 DEF Next, ControlPlane, Request, Terminals

-----------------------------------------------------------------------------
(* Frame lemmas.                                                           *)

\* Steps that leave the records, the reservations and the processes alone, and
\* at most clear a session: rejected requests, expired leases, heartbeats and
\* the staging of a completion.
LEMMA Quiet ==
  ASSUME IInv, TypeOK',
         UNCHANGED <<run, asg, reserved, durable, host, marker, queue, pc, job, sent, maya>>,
         \A a \in Agents : session'[a] \in {session[a], None},
         \A a \in Agents : state'[a] = state[a] \/ session[a] # None \/ run[a] = None,
         \A p \in Procs : /\ ok'[p] \subseteq ok[p] \cup sent[p]
                          /\ "confirm" \in ok'[p] <=> "confirm" \in ok[p]
  PROVE  IInv'
  <1> USE DEF IInv, TypeOK, Confirmed
  <1>1. ProcInv'
    BY DEF ProcInv
  <1>2. ConfirmedInv'
    BY DEF ConfirmedInv, ProcInv
  <1>3. SingleConfirm' /\ SlotInv' /\ DurableInv' /\ QueueInv' /\ MarkerInv'
    BY DEF SingleConfirm, SlotInv, DurableInv, QueueInv, MarkerInv
  <1>4. MayaKeepsHost'
    BY DEF MayaKeepsHost, MayRun
  <1>5. QuarantineFences'
    BY DEF QuarantineFences, SlotInv
  <1> QED
    BY <1>1, <1>2, <1>3, <1>4, <1>5

\* Steps of a process: no process gets to run Maya that was not told it may.
LEMMA Local ==
  ASSUME IInv, TypeOK', ProcInv',
         UNCHANGED <<memory, disk, job, ok, no>>,
         \A p \in Procs : MayRun(p)' => MayRun(p)
  PROVE  IInv'
  <1> USE DEF IInv, TypeOK, Confirmed, memory, disk
  <1>1. ConfirmedInv' /\ SingleConfirm' /\ SlotInv' /\ DurableInv' /\ QueueInv' /\ MarkerInv'
    BY DEF ConfirmedInv, SingleConfirm, SlotInv, DurableInv, QueueInv, MarkerInv
  <1>2. MayaKeepsHost' /\ QuarantineFences'
    BY DEF MayaKeepsHost, QuarantineFences
  <1> QED
    BY <1>1, <1>2

\* The Commit of a quarantine, whoever asks for it.
LEMMA Quarantine ==
  ASSUME IInv, TypeOK', NEW r \in Runs, CanQuarantine(r), QuarantineCommit(r),
         UNCHANGED <<run, reserved, host, marker, queue, job, sent, maya>>,
         \A p \in Procs : pc'[p] # pc[p] => pc[p] = "new" /\ pc'[p] = "dead",
         \A p \in Procs : /\ ok'[p] \subseteq ok[p] \cup sent[p]
                          /\ "confirm" \in ok'[p] <=> "confirm" \in ok[p]
  PROVE  IInv'
  <1> USE DEF IInv, TypeOK, Confirmed
  <1>1. host[r] \in Agents /\ run[host[r]] = r /\ asg[r] = "confirmed"
    BY DEF CanQuarantine, SlotInv
  <1>2. /\ durable' \in {durable, [durable EXCEPT ![r] = "quarantined"]}
        /\ asg' \in {asg, [asg EXCEPT ![r] = "quarantined"]}
        /\ \/ /\ asg' = [asg EXCEPT ![r] = "quarantined"]
              /\ durable' = [durable EXCEPT ![r] = "quarantined"]
              /\ TakeOutOfService(host[r])
           \/ UNCHANGED <<asg, state, session>>
    BY <1>1 DEF QuarantineCommit, CommitOk, CommitFails
  <1>3. \A a \in Agents : session'[a] \in {session[a], None}
    BY <1>2 DEF TakeOutOfService
  <1>4. ProcInv'
    BY DEF ProcInv
  <1>5. ConfirmedInv'
    BY <1>2, <1>3 DEF ConfirmedInv, ProcInv
  <1>6. SingleConfirm' /\ MarkerInv'
    BY DEF SingleConfirm, MarkerInv
  <1>7. SlotInv'
    BY <1>1, <1>2 DEF SlotInv
  <1>8. DurableInv'
    BY <1>1, <1>2 DEF DurableInv
  <1>11. QueueInv'
    BY <1>1, <1>2 DEF QueueInv
  <1>9. MayaKeepsHost'
    BY <1>2 DEF MayaKeepsHost, MayRun, ProcInv
  <1>10. QuarantineFences'
    BY <1>1, <1>2 DEF QuarantineFences, TakeOutOfService, SlotInv
  <1> QED
    BY <1>4, <1>5, <1>6, <1>7, <1>8, <1>9, <1>10, <1>11

-----------------------------------------------------------------------------
(* The actions, grouped by what they may disturb.                          *)

\* Leases, enrollment, heartbeats, disconnects and rejected requests.
LEMMA QuietSteps ==
  ASSUME IInv, TypeOK',
         \/ \E a \in Agents : LeaseExpires(a) \/ GraceEnds(a) \/ Enroll(a)
         \/ \E p \in Procs : HeartbeatExpired(p) \/ Disconnect(p) \/ CompleteAgain(p)
         \/ \E p \in Procs : \E q \in Requests : RejectRequest(p, q) \/ RejectExpired(p, q)
         \/ Stop
  PROVE  IInv'
  <1> USE DEF IInv, TypeOK, memory, disk, procs
  <1>1. ASSUME NEW a \in Agents, LeaseExpires(a) \/ GraceEnds(a) \/ Enroll(a) PROVE IInv'
    BY <1>1, Quiet DEF LeaseExpires, GraceEnds, Enroll
  <1>2. ASSUME NEW p \in Procs, HeartbeatExpired(p) \/ Disconnect(p) PROVE IInv'
    BY <1>2, Quiet DEF HeartbeatExpired, Disconnect, ClearSession
  <1>3. ASSUME NEW p \in Procs, CompleteAgain(p) PROVE IInv'
    BY <1>3, Quiet DEF CompleteAgain, Answer, Handling
  <1>4. ASSUME NEW p \in Procs, NEW q \in Requests, RejectRequest(p, q) \/ RejectExpired(p, q)
        PROVE  IInv'
    BY <1>4, Quiet DEF RejectRequest, RejectExpired, Reject, ClearSession
  <1>5. ASSUME Stop PROVE IInv'
    BY <1>5, Quiet DEF Stop
  <1> QED
    BY <1>1, <1>2, <1>3, <1>4, <1>5

\* Bindings, and completions that only stage their evidence or give it up.
LEMMA StagingSteps ==
  ASSUME IInv, TypeOK', NEW p \in Procs,
         Bind(p) \/ \E q \in Terminals : BeginFinish(p, q) \/ FinishReset(p, q)
  PROVE  IInv'
  <1> USE DEF IInv, TypeOK, memory, disk, procs
  <1>1. CASE Bind(p)
    BY <1>1, Quiet DEF Bind, Answer, Handling
  <1>2. ASSUME NEW q \in Terminals, BeginFinish(p, q) PROVE IInv'
    BY <1>2, Quiet DEF BeginFinish
  <1>3. ASSUME NEW q \in Terminals, FinishReset(p, q) PROVE IInv'
    BY <1>3, Quiet DEF FinishReset, ClearSession, Reject
  <1> QED
    BY <1>1, <1>2, <1>3

\* Rejected requests of every kind.
LEMMA RejectSteps ==
  ASSUME IInv, TypeOK', NEW p \in Procs,
         \/ ConfirmRejected(p) \/ BindRejected(p) \/ FailQuarantineRejected(p)
         \/ \E q \in Terminals : FinishRejected(p, q)
  PROVE  IInv'
  <1>1. \E q \in Requests : RejectRequest(p, q) \/ RejectExpired(p, q)
    BY DEF ConfirmRejected, BindRejected, FailQuarantineRejected, FinishRejected, Requests, Terminals
  <1> QED
    BY <1>1, QuietSteps

\* The four places that quarantine a lost assignment.
LEMMA QuarantineSteps ==
  ASSUME IInv, TypeOK',
         \/ \E r \in Runs : Watch(r)
         \/ \E a \in Agents : Status(a)
         \/ \E p \in Procs : RegisterQuarantines(p) \/ FailQuarantine(p)
  PROVE  IInv'
  <1> DEFINE Frame == /\ UNCHANGED <<run, reserved, host, marker, queue, job, sent, maya>>
                      /\ \A p \in Procs : pc'[p] # pc[p] => pc[p] = "new" /\ pc'[p] = "dead"
                      /\ \A p \in Procs : /\ ok'[p] \subseteq ok[p] \cup sent[p]
                                          /\ "confirm" \in ok'[p] <=> "confirm" \in ok[p]
  <1>0. TypeOK
    BY DEF IInv
  <1>1. ASSUME NEW r \in Runs, Watch(r) PROVE IInv'
    <2>1. Frame /\ CanQuarantine(r) /\ QuarantineCommit(r)
      BY <1>0, <1>1 DEF Watch, procs
    <2> QED
      BY <2>1, Quarantine
  <1>2. ASSUME NEW a \in Agents, Status(a) PROVE IInv'
    <2>1. CASE CanQuarantine(run[a])
      <3>1. Frame /\ run[a] \in Runs /\ QuarantineCommit(run[a])
        BY <1>0, <1>2, <2>1 DEF Status, procs, TypeOK, CanQuarantine
      <3> QED
        BY <2>1, <3>1, Quarantine
    <2>2. CASE ~CanQuarantine(run[a])
      BY <1>0, <1>2, <2>2, Quiet DEF Status, ClearSession, TypeOK, procs
    <2> QED
      BY <2>1, <2>2
  <1>3. ASSUME NEW p \in Procs, RegisterQuarantines(p) PROVE IInv'
    <2>1. Frame /\ run[AgentOf[p]] \in Runs
      BY <1>0, <1>3 DEF RegisterQuarantines, TypeOK, CanQuarantine
    <2>2. CanQuarantine(run[AgentOf[p]]) /\ QuarantineCommit(run[AgentOf[p]])
      BY <1>3 DEF RegisterQuarantines
    <2> QED
      BY <2>1, <2>2, Quarantine
  <1>4. ASSUME NEW p \in Procs, FailQuarantine(p) PROVE IInv'
    <2>1. job[p] \in Runs /\ CanQuarantine(job[p]) /\ QuarantineCommit(job[p])
      BY <1>0, <1>4 DEF FailQuarantine, Assigned, CanQuarantine, TypeOK
    <2>2. Frame
      BY <1>0, <1>4 DEF FailQuarantine, Answer, Handling, TypeOK
    <2> QED
      BY <2>1, <2>2, Quarantine
  <1> QED
    BY <1>1, <1>2, <1>3, <1>4

\* The steps of runHostAgentOnce.
LEMMA ProcessSteps ==
  ASSUME IInv, TypeOK', NEW p \in Procs, Process(p)
  PROVE  IInv'
  <1> USE DEF IInv, TypeOK, Process, ReadConfirm, StartMaya, ReadBind, StopMaya, StopUnresolved,
              PostTerminal, Exit, Kill, OrphanEnds, Moves, Send, Places
  <1>1. UNCHANGED <<memory, disk, job, ok, no>>
    OBVIOUS
  <1>2. ProcInv'
    <2>1. ASSUME NEW q \in Procs, q # p
          PROVE  UNCHANGED <<pc[q], job[q], sent[q], ok[q], maya[q]>>
      BY <2>1
    <2>2. CASE ReadConfirm(p) \/ ReadBind(p) \/ Exit(p) \/ Kill(p) \/ OrphanEnds(p)
      BY <2>2 DEF ProcInv, Confirmed, Terminals
    <2>3. CASE StartMaya(p) \/ StopMaya(p)
      BY <2>3 DEF ProcInv, Confirmed, Terminals
    <2>4. CASE StopUnresolved(p)
      BY <2>4 DEF ProcInv, Confirmed, Terminals
    <2>5. ASSUME NEW q \in Terminals, PostTerminal(p, q) PROVE ProcInv'
      BY <2>5 DEF ProcInv, Confirmed, Terminals
    <2> QED
      BY <2>2, <2>3, <2>4, <2>5 DEF Terminals
  <1>3. \A q \in Procs : MayRun(q)' => MayRun(q)
    BY DEF MayRun
  <1> QED
    BY <1>1, <1>2, <1>3, Local

\* A registration is accepted only while no confirmed assignment is alive on
\* the host, so a new session never stands beside a process told to run.
LEMMA RegisterStep ==
  ASSUME IInv, TypeOK', NEW p \in Procs, Register(p)
  PROVE  IInv'
  <1> USE DEF IInv, TypeOK, Register, disk
  <1> DEFINE a == AgentOf[p]
  <1>1. run[a] # None => asg[run[a]] # "confirmed" /\ asg[run[a]] # "quarantined"
    BY DEF RegistrationBlocked, CanQuarantine, ProcessLost
  <1>2. \A q \in Procs : UNCHANGED <<job[q], sent[q], ok[q], maya[q]>>
    OBVIOUS
  <1>3. ProcInv'
    BY <1>2 DEF ProcInv, Confirmed
  <1>4. ConfirmedInv'
    BY <1>1 DEF ConfirmedInv, Confirmed, ProcInv, SlotInv
  <1>5. SingleConfirm' /\ SlotInv' /\ DurableInv' /\ QueueInv' /\ MarkerInv'
    BY DEF SingleConfirm, Confirmed, SlotInv, DurableInv, QueueInv, MarkerInv
  <1>6. MayaKeepsHost'
    BY DEF MayaKeepsHost, MayRun
  <1>7. QuarantineFences'
    BY <1>1 DEF QuarantineFences, SlotInv
  <1> QED
    BY <1>3, <1>4, <1>5, <1>6, <1>7

\* A poll hands the assignment of the Agent to the process.
LEMMA PollStep ==
  ASSUME IInv, TypeOK', NEW p \in Procs, Poll(p)
  PROVE  IInv'
  <1> USE DEF IInv, TypeOK, Poll, memory, disk
  <1>1. ProcInv' /\ ok[p] = {}
    BY DEF ProcInv, Confirmed, Terminals
  <1>2. ConfirmedInv' /\ SingleConfirm'
    BY <1>1 DEF ConfirmedInv, SingleConfirm, Confirmed
  <1>3. SlotInv' /\ DurableInv' /\ QueueInv' /\ MarkerInv' /\ QuarantineFences'
    BY DEF SlotInv, DurableInv, QueueInv, MarkerInv, QuarantineFences
  <1>4. MayaKeepsHost'
    BY <1>1 DEF MayaKeepsHost, MayRun, ProcInv
  <1> QED
    BY <1>1, <1>2, <1>3, <1>4

\* A reservation, its marker and its undoing do not touch an assignment.
LEMMA ReservationSteps ==
  ASSUME IInv, TypeOK', NEW r \in Runs, NEW a \in Agents,
         Reserve(r, a) \/ WriteMarker(r, a) \/ Unreserve(r, a) \/ Rollback(r, a)
  PROVE  IInv'
  <1> USE DEF IInv, TypeOK, disk, procs
  <1>1. /\ UNCHANGED <<run, asg, durable, host, pc, job, sent, ok, maya>>
        /\ \A b \in Agents : session'[b] \in {session[b], None}
        /\ \A b \in Agents : state'[b] # state[b] => b = a /\ state[a] # "quarantined"
    BY DEF Reserve, WriteMarker, Unreserve, Rollback, FailBefore, FreeReservation, Reserving
  <1>2. ProcInv' /\ ConfirmedInv' /\ SingleConfirm'
    BY <1>1 DEF ProcInv, ConfirmedInv, SingleConfirm, Confirmed
  <1>3. SlotInv' /\ MayaKeepsHost'
    BY <1>1 DEF SlotInv, MayaKeepsHost, MayRun
  <1>4. QuarantineFences'
    BY <1>1 DEF QuarantineFences, SlotInv
  <1>5. QueueInv'
    <2>1. CASE Reserve(r, a)
      BY <2>1 DEF QueueInv, Reserve
    <2>2. CASE Unreserve(r, a)
      BY <2>2 DEF QueueInv, Unreserve
    <2>3. CASE WriteMarker(r, a) \/ Rollback(r, a)
      BY <2>3 DEF QueueInv, WriteMarker, Rollback, FailBefore
    <2> QED
      BY <2>1, <2>2, <2>3
  <1>6. MarkerInv'
    <2>1. CASE Reserve(r, a)
      BY <2>1 DEF MarkerInv, QueueInv, Reserve
    <2>2. CASE Unreserve(r, a)
      BY <2>2 DEF MarkerInv, QueueInv, Unreserve
    <2>3. CASE WriteMarker(r, a)
      BY <2>3 DEF MarkerInv, QueueInv, WriteMarker, FailBefore, Eligible, Reserving
    <2>4. CASE Rollback(r, a)
      BY <2>4 DEF MarkerInv, QueueInv, Rollback, FailBefore
    <2> QED
      BY <2>1, <2>2, <2>3, <2>4
  <1>7. DurableInv'
    <2>1. CASE Reserve(r, a) \/ Unreserve(r, a)
      BY <2>1, <1>1 DEF DurableInv, Reserve, Unreserve
    <2>2. CASE WriteMarker(r, a)
      BY <2>2, <1>1 DEF DurableInv, WriteMarker, Eligible, Reserving, SlotInv
    <2>3. CASE Rollback(r, a)
      BY <2>3, <1>1 DEF DurableInv, Rollback, QueueInv, SlotInv
    <2> QED
      BY <2>1, <2>2, <2>3
  <1> QED
    BY <1>2, <1>3, <1>4, <1>5, <1>6, <1>7

\* The transition to assigned, and the quarantine of the slot when it fails.
LEMMA AssignStep ==
  ASSUME IInv, TypeOK', NEW r \in Runs, NEW a \in Agents, Assign(r, a)
  PROVE  IInv'
  <1> USE DEF IInv, TypeOK, procs
  <1>1. r \in queue /\ asg[r] = None /\ durable[r] = None /\ host[r] = None
    BY DEF Assign, QueueInv
  <1>2. run[a] = None /\ state[a] = "reserving"
    BY DEF Assign, Eligible, Reserving
  <1>3. /\ host' = [host EXCEPT ![r] = a]
        /\ run' = [run EXCEPT ![a] = r]
        /\ UNCHANGED <<pc, job, sent, ok, maya>>
        /\ asg'[r] \in {"assigned", "quarantined"}
        /\ \A s \in Runs : s # r => UNCHANGED <<asg[s], durable[s], host[s]>>
        /\ \A b \in Agents : b # a => UNCHANGED <<run[b], state[b], session[b], marker[b], reserved[b]>>
        /\ asg'[r] = "quarantined" =>
             /\ state'[a] = "quarantined" /\ session'[a] = None
             /\ durable'[r] = "quarantined" \/ marker'[a] = r
        /\ marker'[a] \in {None, r} /\ reserved'[a] = None
        /\ queue' = queue \ {r}
    BY <1>1 DEF Assign, QuarantineSlot, TakeOutOfService, CommitOk
  <1>4. \A p \in Procs : Confirmed(p) => job[p] # r
    BY <1>1 DEF ConfirmedInv
  <1>5. ProcInv' /\ SingleConfirm'
    BY <1>3 DEF ProcInv, SingleConfirm, Confirmed
  <1>6. ConfirmedInv'
    BY <1>2, <1>3, <1>4 DEF ConfirmedInv, Confirmed, ProcInv, SlotInv
  <1>7. SlotInv'
    BY <1>1, <1>2, <1>3 DEF SlotInv
  <1>8. DurableInv'
    BY <1>1, <1>2, <1>3 DEF DurableInv, SlotInv
  <1>9. QueueInv'
    BY <1>1, <1>3 DEF QueueInv, Assign
  <1>10. MarkerInv'
    <2>1. marker[a] = r /\ \A b \in Agents : b # a => marker[b] # r
      BY DEF MarkerInv, Assign
    <2> QED
      BY <1>1, <1>2, <1>3, <2>1 DEF MarkerInv
  <1>11. MayaKeepsHost'
    <2>1. \A p \in Procs : MayRun(p)' => MayRun(p) /\ job[p] \in Runs \ {r}
      BY <1>3, <1>4 DEF MayRun, ProcInv, Confirmed
    <2> QED
      BY <1>3, <2>1 DEF MayaKeepsHost
  <1>12. QuarantineFences'
    BY <1>1, <1>2, <1>3 DEF QuarantineFences, SlotInv
  <1> QED
    BY <1>5, <1>6, <1>7, <1>8, <1>9, <1>10, <1>11, <1>12

\* A confirmation: the fenced process is the only one that can have confirmed.
LEMMA ConfirmStep ==
  ASSUME IInv, TypeOK', NEW p \in Procs, Confirm(p)
  PROVE  IInv'
  <1> USE DEF IInv, TypeOK
  <1> DEFINE r == job[p]
  <1> DEFINE a == AgentOf[p]
  <1>1. /\ r \in Runs /\ host[r] = a /\ session[a] = p
        /\ asg[r] \in {"assigned", "confirmed"}
        /\ UNCHANGED <<run, session, reserved, host, marker, queue, pc, job, sent, maya>>
    BY DEF Confirm, Assigned, Fenced
  <1>2. /\ \A s \in Runs : s # r => UNCHANGED <<asg[s], durable[s]>>
        /\ asg'[r] \in {asg[r], "confirmed"} /\ durable'[r] \in {durable[r], "confirmed"}
        /\ \A b \in Agents : b # a => UNCHANGED state[b]
        /\ \A q \in Procs : q # p => UNCHANGED ok[q]
        /\ ok'[p] \in {ok[p], ok[p] \cup {"confirm"}}
        /\ "confirm" \in ok'[p] =>
             "confirm" \in ok[p] \/ (asg'[r] = "confirmed" /\ durable'[r] = "confirmed")
    BY <1>1 DEF Confirm, CommitOk, CommitFails, Answer
  <1>3. \A q \in Procs : Confirmed(q) /\ job[q] = r => q = p
    BY <1>1 DEF ConfirmedInv
  <1>4. "confirm" \in sent[p] /\ pc[p] \notin {"new", "registered"}
    BY DEF Confirm, Handling, ProcInv
  <1>5. ProcInv'
    BY <1>1, <1>2, <1>4 DEF ProcInv, Confirmed
  <1>6. SingleConfirm'
    BY <1>1, <1>2, <1>3 DEF SingleConfirm, Confirmed
  <1>7. ConfirmedInv'
    <2>1. ASSUME NEW q \in Procs, q # p, Confirmed(q) PROVE job[q] \in Runs \ {r}
      BY <1>3, <2>1 DEF ProcInv, Confirmed
    <2> QED
      BY <1>1, <1>2, <2>1 DEF ConfirmedInv, Confirmed
  <1>8. SlotInv'
    BY <1>1, <1>2 DEF SlotInv
  <1>9. DurableInv'
    BY <1>1, <1>2 DEF DurableInv
  <1>10. QueueInv' /\ MarkerInv'
    BY <1>1, <1>2 DEF QueueInv, MarkerInv
  <1>11. MayaKeepsHost'
    <2>1. ASSUME NEW q \in Procs, q # p, MayRun(q)' PROVE MayRun(q) /\ job[q] \in Runs \ {r}
      BY <1>1, <1>2, <1>3, <2>1 DEF MayRun, ProcInv, Confirmed
    <2>2. MayRun(p)' => MayRun(p) \/ durable'[r] = "confirmed"
      BY <1>1, <1>2 DEF MayRun
    <2> QED
      BY <1>1, <1>2, <2>1, <2>2 DEF MayaKeepsHost
  <1>12. QuarantineFences'
    BY <1>1, <1>2 DEF QuarantineFences, SlotInv
  <1> QED
    BY <1>5, <1>6, <1>7, <1>8, <1>9, <1>10, <1>11, <1>12

\* The step that ends (or keeps) the assignment of a process that has sent its
\* completion or failure: Maya was seen stopped, and nobody else runs for it.
LEMMA Ending ==
  ASSUME IInv, TypeOK', NEW p \in Procs, NEW r \in Runs, NEW a \in Agents,
         r = job[p], a = AgentOf[p], host[r] = a,
         asg[r] \in {"confirmed", "finishing"}, sent[p] \cap Terminals # {},
         UNCHANGED <<reserved, host, marker, queue, pc, job, sent, maya>>,
         \A q \in Procs : /\ ok'[q] \subseteq ok[q] \cup sent[q]
                          /\ "confirm" \in ok'[q] <=> "confirm" \in ok[q],
         \A s \in Runs : s # r => UNCHANGED <<asg[s], durable[s]>>,
         \A b \in Agents : b # a => UNCHANGED <<run[b], state[b], session[b]>>,
         session'[a] \in {session[a], None},
         durable'[r] \in {durable[r], "finishing", "completed", "quarantined"},
         \/ asg'[r] = None /\ durable'[r] = "completed" /\ run'[a] = None
         \/ asg'[r] \in {asg[r], "finishing"} /\ run'[a] = run[a]
         \/ /\ asg'[r] = "quarantined" /\ durable'[r] = "quarantined" /\ run'[a] = run[a]
            /\ state'[a] = "quarantined" /\ session'[a] = None
  PROVE  IInv'
  <1> USE DEF IInv, TypeOK
  <1>1. Confirmed(p) /\ ~MayRun(p) /\ run[a] = r
    BY DEF ProcInv, MayRun, SlotInv
  <1>2. \A q \in Procs : MayRun(q) => Confirmed(q) /\ job[q] \in Runs \ {r}
    BY <1>1 DEF SingleConfirm, MayRun, ProcInv, Confirmed
  <1>3. ProcInv' /\ SingleConfirm'
    BY DEF ProcInv, SingleConfirm, Confirmed
  <1>4. ConfirmedInv'
    BY DEF ConfirmedInv, Confirmed, ProcInv
  <1>5. SlotInv'
    BY <1>1 DEF SlotInv
  <1>6. DurableInv'
    BY DEF DurableInv
  <1>7. QueueInv'
    BY DEF QueueInv
  <1>8. MarkerInv'
    BY DEF MarkerInv
  <1>9. MayaKeepsHost'
    <2>1. \A q \in Procs : MayRun(q)' => MayRun(q)
      BY DEF MayRun
    <2> QED
      BY <1>2, <2>1 DEF MayaKeepsHost
  <1>10. QuarantineFences'
    BY <1>1 DEF QuarantineFences, SlotInv
  <1> QED
    BY <1>3, <1>4, <1>5, <1>6, <1>7, <1>8, <1>9, <1>10

\* A completion or failure is committed, or one of its steps fails.
LEMMA FinishSteps ==
  ASSUME IInv, TypeOK', NEW p \in Procs,
         ResumeFinish(p) \/ \E q \in Terminals : Finish(p, q)
  PROVE  IInv'
  <1> DEFINE r == job[p]
  <1> DEFINE a == AgentOf[p]
  <1>1. PICK q \in Terminals : (ResumeFinish(p) /\ q = "complete") \/ Finish(p, q)
    BY DEF Terminals
  <1>2. TypeOK
    BY DEF IInv
  <1>3. /\ r \in Runs /\ a \in Agents /\ host[r] = a /\ asg[r] \in {"confirmed", "finishing"}
        /\ sent[p] \cap Terminals # {} /\ q \in sent[p]
        /\ UNCHANGED <<reserved, host, marker, queue, pc, job, sent, maya>>
    BY <1>1, <1>2 DEF TypeOK, ResumeFinish, Finish, Assigned, Handling
  <1>4. \A u \in Procs : /\ ok'[u] \subseteq ok[u] \cup sent[u]
                         /\ "confirm" \in ok'[u] <=> "confirm" \in ok[u]
    BY <1>1, <1>2, <1>3 DEF ResumeFinish, Finish, Answer, TypeOK, Terminals
  <1>5. /\ \A s \in Runs : s # r => UNCHANGED <<asg[s], durable[s]>>
        /\ \A b \in Agents : b # a => UNCHANGED <<run[b], state[b], session[b]>>
        /\ session'[a] \in {session[a], None}
    BY <1>1, <1>2, <1>3 DEF ResumeFinish, Finish, Release, TakeOutOfService, CommitOk, CommitFails,
                           TypeOK
  <1>6. /\ durable'[r] \in {durable[r], "finishing", "completed", "quarantined"}
        /\ \/ asg'[r] = None /\ durable'[r] = "completed" /\ run'[a] = None
           \/ asg'[r] \in {asg[r], "finishing"} /\ run'[a] = run[a]
           \/ /\ asg'[r] = "quarantined" /\ durable'[r] = "quarantined" /\ run'[a] = run[a]
              /\ state'[a] = "quarantined" /\ session'[a] = None
    BY <1>1, <1>2, <1>3 DEF ResumeFinish, Finish, Release, TakeOutOfService, CommitOk, CommitFails,
                           TypeOK
  <1> QED
    BY <1>3, <1>4, <1>5, <1>6, Ending

-----------------------------------------------------------------------------
(* Restart.                                                                *)

\* What loadHostAgentState makes of a run: a marker wins, and names the host
\* the record names, if there is one.
LEMMA LoadedFacts ==
  ASSUME IInv, NEW r \in Runs
  PROVE  /\ \A a \in Agents : marker[a] = r => Loaded(r) = "quarantined" /\ OwnerOf(r) = a
         /\ host[r] # None => OwnerOf(r) = host[r]
         /\ (\A a \in Agents : marker[a] # r) =>
              /\ OwnerOf(r) = host[r]
              /\ Loaded(r) = IF durable[r] = "finishing" THEN "completed" ELSE durable[r]
         /\ Loaded(r) \in {"assigned", "confirmed", "quarantined", "completed", None}
         /\ Loaded(r) # None => OwnerOf(r) \in Agents
  <1> USE DEF IInv, TypeOK
  <1>1. ASSUME NEW a \in Agents, marker[a] = r
        PROVE  Loaded(r) = "quarantined" /\ OwnerOf(r) = a /\ host[r] \in {None, a}
    <2>1. \A b \in Agents : marker[b] = r => b = a
      BY <1>1 DEF MarkerInv
    <2>2. OwnerOf(r) = CHOOSE b \in Agents : marker[b] = r
      BY <1>1 DEF OwnerOf
    <2> QED
      BY <1>1, <2>1, <2>2 DEF Loaded, MarkerInv
  <1>2. ASSUME \A a \in Agents : marker[a] # r
        PROVE  /\ OwnerOf(r) = host[r]
               /\ Loaded(r) = IF durable[r] = "finishing" THEN "completed" ELSE durable[r]
    BY <1>2 DEF OwnerOf, Loaded
  <1>3. Loaded(r) \in {"assigned", "confirmed", "quarantined", "completed", None}
    BY <1>1, <1>2
  <1>4. Loaded(r) # None => OwnerOf(r) \in Agents
    BY <1>1, <1>2 DEF DurableInv
  <1> QED
    BY <1>1, <1>2, <1>3, <1>4

\* A restart finds at most one run for a host.
LEMMA OneOwnerFromInv == IInv => OneOwner
  <1> SUFFICES ASSUME IInv, NEW a \in Agents, NEW r \in ActiveRuns(a), NEW s \in ActiveRuns(a)
               PROVE  r = s
    BY DEF OneOwner
  <1> USE DEF IInv, TypeOK
  <1>1. ASSUME NEW u \in ActiveRuns(a) PROVE marker[a] = u \/ run[a] = u
    <2>1. u \in Runs /\ OwnerOf(u) = a /\ Loaded(u) \in {"assigned", "confirmed", "quarantined"}
      BY DEF ActiveRuns
    <2>2. CASE \E b \in Agents : marker[b] = u
      BY <2>1, <2>2, LoadedFacts
    <2>3. CASE \A b \in Agents : marker[b] # u
      <3>1. host[u] = a /\ durable[u] \in {"assigned", "confirmed", "quarantined"}
        BY <2>1, <2>3, LoadedFacts
      <3> QED
        BY <2>1, <3>1 DEF DurableInv, SlotInv
    <2> QED
      BY <2>2, <2>3
  <1>2. r \in Runs /\ s \in Runs
    BY DEF ActiveRuns
  <1> QED
    BY <1>1, <1>2 DEF MarkerInv

\* Startup rebuilds the memory from the records and the markers.
LEMMA RestartStep ==
  ASSUME IInv, TypeOK', Restart
  PROVE  IInv'
  <1>1. TypeOK
    BY DEF IInv
  <1>2. /\ \A r \in Runs : /\ durable'[r] = Loaded(r) /\ host'[r] = OwnerOf(r)
                           /\ asg'[r] = IF Loaded(r) = "completed" THEN None ELSE Loaded(r)
        /\ \A a \in Agents : marker'[a] = None /\ reserved'[a] = None /\ session'[a] = None
        /\ queue' = queue \ {r \in Runs : Loaded(r) # None}
        /\ UNCHANGED <<pc, job, sent, ok, maya>>
    BY DEF Restart, procs
  <1>3. ASSUME NEW a \in Agents, NEW r \in ActiveRuns(a) PROVE run'[a] = r /\ r \in Runs
    <2>1. (CHOOSE s \in ActiveRuns(a) : TRUE) \in ActiveRuns(a)
      BY <1>3
    <2> QED
      BY <1>3, <2>1, OneOwnerFromInv DEF OneOwner, Restart, ActiveRuns
  <1>4. ASSUME NEW a \in Agents, run'[a] # None PROVE run'[a] \in ActiveRuns(a)
    BY <1>4 DEF Restart
  <1>5. ASSUME NEW a \in Agents, NEW r \in ActiveRuns(a), Loaded(r) = "quarantined"
        PROVE  state'[a] = "quarantined"
    BY <1>5 DEF Restart
  <1>6. \A r \in Runs : asg'[r] # None => r \in ActiveRuns(host'[r]) /\ host'[r] \in Agents
    BY <1>2, LoadedFacts DEF ActiveRuns
  <1>7. ProcInv' /\ SingleConfirm'
    BY <1>2 DEF IInv, ProcInv, SingleConfirm, Confirmed
  <1>8. ASSUME NEW r \in Runs, host[r] # None
        PROVE  /\ OwnerOf(r) = host[r]
               /\ durable[r] \in {"confirmed", "quarantined"} =>
                    Loaded(r) \in {"confirmed", "quarantined"}
               /\ durable[r] \in {"confirmed", "finishing", "quarantined", "completed"} =>
                    Loaded(r) \in {"confirmed", "quarantined", "completed"}
    BY <1>8, LoadedFacts
  <1>9. ConfirmedInv'
    <2> SUFFICES ASSUME NEW p \in Procs, Confirmed(p)
                 PROVE  /\ host'[job[p]] = AgentOf[p]
                        /\ durable'[job[p]] \in {"confirmed", "finishing", "quarantined", "completed"}
                        /\ asg'[job[p]] # "assigned"
                        /\ session'[AgentOf[p]] = None
      BY <1>2 DEF ConfirmedInv, Confirmed
    <2>1. job[p] \in Runs /\ host[job[p]] = AgentOf[p] /\ host[job[p]] # None
      BY <1>1 DEF IInv, ConfirmedInv, ProcInv, Confirmed
    <2>2. durable[job[p]] \in {"confirmed", "finishing", "quarantined", "completed"}
      BY DEF IInv, ConfirmedInv
    <2> QED
      BY <1>2, <1>8, <2>1, <2>2
  <1>10. SlotInv'
    <2>1. \A r \in Runs : asg'[r] # None => host'[r] \in Agents /\ run'[host'[r]] = r
      BY <1>3, <1>6
    <2>2. ASSUME NEW a \in Agents, run'[a] # None
          PROVE  asg'[run'[a]] # None /\ host'[run'[a]] = a
      BY <1>2, <1>4, <2>2 DEF ActiveRuns
    <2> QED
      BY <2>1, <2>2 DEF SlotInv
  <1>11. DurableInv'
    BY <1>2, LoadedFacts DEF DurableInv
  <1>12. QueueInv'
    <2>1. ASSUME NEW r \in queue'
          PROVE  asg'[r] = None /\ durable'[r] = None /\ host'[r] = None
      <3>1. r \in queue /\ r \in Runs /\ Loaded(r) = None
        BY <1>1, <1>2 DEF TypeOK
      <3>2. host[r] = None /\ \A a \in Agents : marker[a] # r
        BY <3>1, LoadedFacts DEF IInv, QueueInv
      <3> QED
        BY <1>2, <3>1, <3>2, LoadedFacts
    <2> QED
      BY <1>2, <2>1 DEF QueueInv
  <1>13. MarkerInv'
    BY <1>2 DEF MarkerInv
  <1>14. MayaKeepsHost'
    <2> SUFFICES ASSUME NEW p \in Procs, MayRun(p)
                 PROVE  /\ host'[job[p]] = AgentOf[p]
                        /\ durable'[job[p]] \in {"confirmed", "quarantined"}
      BY <1>2 DEF MayaKeepsHost, MayRun
    <2>1. job[p] \in Runs /\ host[job[p]] = AgentOf[p] /\ host[job[p]] # None
      BY <1>1 DEF IInv, MayaKeepsHost, MayRun, ProcInv, Confirmed
    <2>2. durable[job[p]] \in {"confirmed", "quarantined"}
      BY DEF IInv, MayaKeepsHost
    <2> QED
      BY <1>2, <1>8, <2>1, <2>2
  <1>15. QuarantineFences'
    <2> SUFFICES ASSUME NEW r \in Runs, asg'[r] = "quarantined"
                 PROVE  /\ state'[host'[r]] = "quarantined"
                        /\ run'[host'[r]] = r
                        /\ session'[host'[r]] = None
      BY DEF QuarantineFences
    <2> QED
      BY <1>2, <1>3, <1>5, <1>6
  <1> QED
    BY <1>7, <1>9, <1>10, <1>11, <1>12, <1>13, <1>14, <1>15 DEF IInv

-----------------------------------------------------------------------------
(* The invariant and the theorems.                                         *)

\* A new Control Plane, with enrolled Agents and no assignment, satisfies IInv.
LEMMA InitInv == Init => IInv
  <1> SUFFICES ASSUME Init PROVE IInv
    OBVIOUS
  <1> USE DEF Init, Confirmed
  <1>1. TypeOK
    BY DEF TypeOK, AgentStates, Requests, Places
  <1>2. ProcInv /\ ConfirmedInv /\ SingleConfirm /\ SlotInv /\ MarkerInv
    BY DEF ProcInv, ConfirmedInv, SingleConfirm, SlotInv, MarkerInv, Terminals
  <1>3. DurableInv /\ QueueInv /\ MayaKeepsHost /\ QuarantineFences
    BY DEF DurableInv, QueueInv, MayaKeepsHost, MayRun, QuarantineFences
  <1> QED
    BY <1>1, <1>2, <1>3 DEF IInv

\* Every step of the Control Plane and of the Agents keeps the invariant.
LEMMA StepInv == IInv /\ [Next]_vars => IInv'
  <1> SUFFICES ASSUME IInv, [Next]_vars PROVE IInv'
    OBVIOUS
  <1>1. TypeOK'
    BY TypeStep DEF IInv
  <1>2. ASSUME ControlPlane PROVE IInv'
    BY <1>1, <1>2, QuietSteps, QuarantineSteps, ReservationSteps, AssignStep DEF ControlPlane
  <1>3. ASSUME NEW p \in Procs, Request(p) PROVE IInv'
    BY <1>1, <1>3, QuietSteps, StagingSteps, RejectSteps, QuarantineSteps, RegisterStep, PollStep,
       ConfirmStep, FinishSteps DEF Request, Terminals
  <1>4. ASSUME NEW p \in Procs, Process(p) PROVE IInv'
    BY <1>1, <1>4, ProcessSteps
  <1>5. CASE Stop
    BY <1>1, <1>5, QuietSteps
  <1>6. CASE Restart
    BY <1>1, <1>6, RestartStep
  <1>7. CASE UNCHANGED vars
    BY <1>1, <1>7, Quiet DEF vars, memory, disk, procs, IInv
  <1> QED
    BY <1>2, <1>3, <1>4, <1>5, <1>6, <1>7 DEF Next

\* The inductive invariant: how the slots, the records, the markers, the queue
\* and the processes told to run fit together, in every reachable state.
THEOREM Invariance == Spec => []IInv
  BY InitInv, StepInv, PTL DEF Spec

\* The handlers and the processes keep every variable within its type.
THEOREM TypeCorrect == Spec => []TypeOK
  <1>1. IInv => TypeOK
    BY DEF IInv
  <1> QED
    BY <1>1, Invariance, PTL

\* Neither a restart nor a completion frees a host under a Maya that nobody has
\* seen stop: the durable record stays confirmed or quarantined there.
THEOREM MayaKeepsItsHost == Spec => []MayaKeepsHost
  <1>1. IInv => MayaKeepsHost
    BY DEF IInv
  <1> QED
    BY <1>1, Invariance, PTL

\* A Maya Host never has two Maya UI Sessions, nor one beside a process that may
\* still start one.  Two processes told to run on a host have the host's
\* one durable owner as their run, and a run is confirmed to one process only.
THEOREM Exclusion == Spec => []ExclusiveMaya
  <1>1. IInv => ExclusiveMaya
    <2> SUFFICES ASSUME IInv, NEW p \in Procs, NEW q \in Procs, MayRun(p), MayRun(q),
                        AgentOf[p] = AgentOf[q]
                 PROVE  p = q
      BY DEF ExclusiveMaya
    <2>1. ASSUME NEW u \in Procs, MayRun(u)
          PROVE  Confirmed(u) /\ job[u] \in Runs /\ job[u] \in ActiveRuns(AgentOf[u])
      <3>1. Confirmed(u) /\ job[u] \in Runs
        BY <2>1 DEF IInv, MayRun, ProcInv, Confirmed
      <3>2. host[job[u]] = AgentOf[u] /\ durable[job[u]] \in {"confirmed", "quarantined"}
        BY <2>1 DEF IInv, MayaKeepsHost
      <3>3. OwnerOf(job[u]) = AgentOf[u] /\ Loaded(job[u]) \in {"confirmed", "quarantined"}
        BY <3>1, <3>2, LoadedFacts
      <3> QED
        BY <3>1, <3>3 DEF ActiveRuns
    <2>2. job[p] = job[q]
      BY <2>1, OneOwnerFromInv DEF OneOwner
    <2> QED
      BY <2>1, <2>2 DEF IInv, SingleConfirm
  <1> QED
    BY <1>1, Invariance, PTL

\* A restart finds at most one run for each host, in the records and in the
\* write-ahead markers together.
THEOREM OwnerUnique == Spec => []OneOwner
  BY OneOwnerFromInv, Invariance, PTL

\* No process holds a session on a quarantined host.
THEOREM Fencing == Spec => []QuarantineFences
  <1>1. IInv => QuarantineFences
    BY DEF IInv
  <1> QED
    BY <1>1, Invariance, PTL

\* A quarantined slot stays quarantined for its run: no handler releases it, and
\* a restart finds the quarantined record or, if its Commit failed, the marker.
THEOREM QuarantineForever == Spec => QuarantineIsFinal
  <1> DEFINE Stays == \A r \in Runs : asg[r] = "quarantined" => asg'[r] = "quarantined"
  <1>1. ASSUME IInv, [Next]_vars PROVE Stays
    <2> SUFFICES ASSUME NEW r \in Runs, asg[r] = "quarantined" PROVE asg'[r] = "quarantined"
      OBVIOUS
    <2>1. TypeOK
      BY <1>1 DEF IInv
    <2>2. CASE asg' = asg
      BY <2>2
    <2>3. ASSUME NEW s \in Runs, asg[s] # "quarantined",
                 \A u \in Runs \ {s} : asg'[u] = asg[u]
          PROVE  asg'[r] = "quarantined"
      BY <2>3
    <2> USE DEF memory, disk, procs
    <2>4. ASSUME NEW s \in Runs, QuarantineCommit(s) PROVE asg'[r] = "quarantined"
      BY <2>1, <2>4 DEF QuarantineCommit, TypeOK
    <2>5. CASE ControlPlane
      <3>1. ASSUME NEW a \in Agents, Status(a) PROVE asg'[r] = "quarantined"
        BY <2>1, <2>2, <2>4, <3>1 DEF Status, CanQuarantine, TypeOK
      <3>2. ASSUME NEW s \in Runs, NEW a \in Agents, Assign(s, a) PROVE asg'[r] = "quarantined"
        <4>1. asg[s] = None
          BY <1>1, <3>2 DEF Assign, IInv, QueueInv
        <4> QED
          BY <2>1, <2>3, <3>2, <4>1 DEF Assign, QuarantineSlot, TypeOK
      <3> QED
        BY <2>2, <2>4, <2>5, <3>1, <3>2 DEF ControlPlane, LeaseExpires, GraceEnds, Enroll, Watch,
             Reserve, WriteMarker, Unreserve, Rollback
    <2>6. ASSUME NEW p \in Procs, Request(p) PROVE asg'[r] = "quarantined"
      <3>1. CASE Confirm(p) \/ ResumeFinish(p) \/ \E q \in Terminals : Finish(p, q)
        <4>1. job[p] \in Runs /\ asg[job[p]] # "quarantined"
          BY <2>1, <3>1 DEF Confirm, ResumeFinish, Finish, Assigned, TypeOK
        <4>2. \A u \in Runs \ {job[p]} : asg'[u] = asg[u]
          BY <2>1, <3>1, <4>1 DEF Confirm, ResumeFinish, Finish, Release, TypeOK
        <4> QED
          BY <2>3, <4>1, <4>2
      <3>2. CASE RegisterQuarantines(p) \/ FailQuarantine(p)
        BY <2>1, <2>4, <3>2 DEF RegisterQuarantines, FailQuarantine, Assigned, CanQuarantine, TypeOK
      <3>3. ASSUME NEW q \in Requests, RejectRequest(p, q) \/ RejectExpired(p, q)
            PROVE  asg' = asg
        BY <3>3 DEF RejectRequest, RejectExpired
      <3>4. CASE ConfirmRejected(p) \/ BindRejected(p) \/ FailQuarantineRejected(p)
                 \/ \E q \in Terminals : FinishRejected(p, q)
        BY <2>2, <3>3, <3>4 DEF ConfirmRejected, BindRejected, FailQuarantineRejected,
             FinishRejected, Requests, Terminals
      <3>5. CASE Register(p) \/ HeartbeatExpired(p) \/ Poll(p) \/ Disconnect(p) \/ Bind(p)
                 \/ CompleteAgain(p) \/ \E q \in Terminals : BeginFinish(p, q) \/ FinishReset(p, q)
        BY <2>2, <3>5 DEF Register, HeartbeatExpired, Poll, Disconnect, Bind, CompleteAgain,
             BeginFinish, FinishReset
      <3> QED
        BY <2>6, <3>1, <3>2, <3>4, <3>5 DEF Request, Terminals
    <2>7. ASSUME NEW p \in Procs, Process(p) PROVE asg'[r] = "quarantined"
      BY <2>2, <2>7 DEF Process, ReadConfirm, StartMaya, ReadBind, StopMaya, StopUnresolved,
           PostTerminal, Exit, Kill, OrphanEnds, Moves
    <2>8. CASE Restart
      <3>1. durable[r] = "quarantined" \/ \E a \in Agents : marker[a] = r
        BY <1>1, <2>1 DEF IInv, DurableInv, SlotInv, TypeOK
      <3>2. Loaded(r) = "quarantined"
        BY <3>1 DEF Loaded
      <3> QED
        BY <2>8, <3>2 DEF Restart
    <2> QED
      BY <1>1, <2>2, <2>5, <2>6, <2>7, <2>8 DEF Next, Stop, vars
  <1> QED
    BY <1>1, Invariance, PTL DEF Spec, QuarantineIsFinal

=============================================================================
