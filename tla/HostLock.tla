------------------------------ MODULE HostLock ------------------------------
(***************************************************************************)
(* The Host Lock of one Maya Host (internal/cli/host_pool.go and           *)
(* host_lock_ssh.go) and the controllers that contend for it.  The lock is *)
(* a file; where it lives decides how it is guarded:                       *)
(*   "ssh"   in the work root of a remote Host: every operation is a       *)
(*           PowerShell script that runs under a mutex on the Host; its    *)
(*           answer can be lost and the script can run after the           *)
(*           controller gave up on it;                                     *)
(*   "local" in the work root on this machine: the operation runs here,    *)
(*           between taking and removing a mutex file;                     *)
(*   "repo"  in the checkout, for a Host without a work root: the same     *)
(*           mutex file, but the lock is owned by a process, not a lease.  *)
(* Each controller process serves one Run, named like it; the Run's lock   *)
(* token is the name.  A lock's content is identified by the Run and by    *)
(* the number of times the Run has written it (the code writes timestamps).*)
(***************************************************************************)
EXTENDS Naturals, FiniteSets

CONSTANTS Clients,    \* controller processes, each with one Run
          Places,     \* the kinds of lock that are explored
          MaxRev,     \* bound on the writes of one Run to its lock
          MaxFaults,  \* bound on lost answers and late scripts
          MaxDeaths,  \* bound on killed processes
          None, Standing

Content == [run : Clients, rev : 0..MaxRev, state : {"claimed", "active", "kept"}]
Lock == [content : Content, version : Nat, expired : BOOLEAN]

ASSUME PlacesAssumption == Places \subseteq {"ssh", "local", "repo"}
ASSUME BoundAssumption == MaxRev \in Nat /\ MaxFaults \in Nat /\ MaxDeaths \in Nat
ASSUME NamesAssumption == /\ {None, Standing} \cap Clients = {} /\ None # Standing
                          /\ None \notin Content /\ None \notin Lock

VARIABLES place,    \* where this Host's lock lives
          file,     \* the lock file, or None
          mutex,    \* the process named in the mutex file, or None
          late,     \* scripts given up by their controller, not yet executed
          maya,     \* whose Maya UI Session is alive on the Host
          client,   \* the controllers
          known,    \* Runs whose session identity is recorded
          broken,   \* what was taken from a process or a session that lives
          faults, deaths

vars == <<place, file, mutex, late, maya, client, known, broken, faults, deaths>>
lockVars == <<place, mutex, known, broken, deaths>>

SessionOps == {"clear", "start", "stop"}

\* A lock file just written with this content.
Written(content) == [content |-> content, version |-> 0, expired |-> FALSE]

\* A controller before it asks for the Host: expected is the content it last
\* wrote, new the content it is writing, seen the foreign lock it judges, ok
\* what the operation inside the mutex returned, session what the Run knows
\* of the Maya UI Session it started.
Idle == [pc |-> "idle", op |-> "none", expected |-> None, new |-> None,
         seen |-> None, attempt |-> 0, ok |-> FALSE, session |-> "none"]

Init == /\ place \in Places
        /\ file = None /\ mutex = None /\ late = {}
        /\ maya \in (IF place = "repo" THEN {None} ELSE {None, Standing})
        /\ client = [c \in Clients |-> Idle]
        /\ known = {} /\ broken = {} /\ faults = 0 /\ deaths = 0

At(c, pc) == client[c].pc = pc
Alive(c) == ~At(c, "ended")
\* The controller believes that the Host is its Run's; a kept lock is no longer
\* the process's but that of the record an operator can stop.
Holds(c) == Alive(c) /\ client[c].expected # None /\ client[c].expected.state # "kept"

-----------------------------------------------------------------------------
(* What a script, or the body of a local operation, does to the lock.      *)

Is(content) == file # None /\ file.content = content
OwnedBy(run) == file # None /\ file.content.run = run
Expired == file # None /\ file.content.state # "kept" /\ file.expired

\* The Host-side preamble of a broker action: the lock names the Run's token,
\* and its lease has not run out; the preamble renews it by touching the file.
Fenced(run) == OwnedBy(run) /\ ~Expired
Touched == IF file.content.state = "kept" THEN file
           ELSE [file EXCEPT !.version = @ + 1]

\* Whether a script takes effect, and the lock and the session it leaves.
AcquireTakes(s) == file = None
ReclaimTakes(s) == file = None \/ (Is(s.seen.content) /\ file.version = s.seen.version)
ReplaceTakes(s) == Is(s.expected) \/ Is(s.new)
RemoveTakes(s)  == file = None \/ Is(s.expected)
\* Faulty variant: a fence that forgets the lease.
FenceTakesExpired(s) == OwnedBy(s.run)

FenceTakes(s) == Fenced(s.run)

Takes(s) == CASE s.op = "acquire" -> AcquireTakes(s)
              [] s.op = "reclaim" -> ReclaimTakes(s)
              [] s.op = "replace" -> ReplaceTakes(s)
              [] s.op = "remove"  -> RemoveTakes(s)
              [] s.op \in SessionOps -> FenceTakes(s)

Leaves(s) == CASE s.op = "remove" -> None
               [] s.op \in SessionOps -> Touched
               [] OTHER -> IF Is(s.new) THEN file ELSE Written(s.new)

Session(op, run) == CASE op = "start" -> run
                      [] op \in {"clear", "stop"} -> None
                      [] OTHER -> maya

Execute(s) == IF Takes(s) THEN file' = Leaves(s) /\ maya' = Session(s.op, s.run)
              ELSE UNCHANGED <<file, maya>>

Script(c) == [op |-> client[c].op, run |-> c, expected |-> client[c].expected,
              new |-> client[c].new, seen |-> client[c].seen]

-----------------------------------------------------------------------------
(* How a controller goes on when an operation has returned.                *)

\* The broker steps: a session is cleared before one is started.  A start that
\* brings Maya up but is then found wanting has an identity all the same and
\* goes on like one that worked: it is stopped and the lock released, or kept.
\* A start that fails without an identity, or a stop that fails, leaves the Run
\* unsure, and such a Run gives its lock to nobody.
AfterSession(k, ok) ==
  CASE k.op = "clear" /\ ok -> [k EXCEPT !.op = "start", !.pc = "next"]
    [] k.op = "clear" /\ ~ok -> [k EXCEPT !.pc = "held"]
    [] k.op = "start" -> [k EXCEPT !.pc = "held", !.session = IF ok THEN "running" ELSE "unsure"]
    [] k.op = "stop" -> [k EXCEPT !.pc = "held", !.session = IF ok THEN "stopped" ELSE "unsure"]

After(k, ok) ==
  CASE k.op \in {"acquire", "reclaim"} ->
         IF ok THEN [k EXCEPT !.pc = "held", !.expected = k.new] ELSE [k EXCEPT !.pc = "idle"]
    [] k.op = "replace" -> IF ok THEN [k EXCEPT !.pc = "held", !.expected = k.new]
                           ELSE [k EXCEPT !.pc = "held"]
    [] k.op = "remove" -> [k EXCEPT !.pc = "ended"]
    [] k.op \in SessionOps -> AfterSession(k, ok)

Return(c, ok) == client' = [client EXCEPT ![c] = After(@, ok)]

\* An operation starts with a script, or at the mutex file.
Begin(c, op, new) ==
  client' = [client EXCEPT ![c].pc = IF place = "ssh" THEN "call" ELSE "mutex",
                           ![c].op = op, ![c].new = new, ![c].attempt = 0]
Quiet == UNCHANGED <<place, file, mutex, late, maya, known, broken, faults, deaths>>

\* The next content of the Run's own lock.
NewContent(c, state) == [client[c].expected EXCEPT !.rev = @ + 1, !.state = state]
CanWrite(c) == At(c, "held") /\ client[c].expected.rev < MaxRev
State(c) == client[c].expected.state
\* What a fence writes: a local claim renews the lease by writing it again.
Claim(c) == IF place = "ssh" \/ State(c) = "kept" THEN client[c].expected
            ELSE NewContent(c, State(c))

-----------------------------------------------------------------------------
(* What a Run asks of its lock.                                            *)

Acquire(c) == /\ At(c, "idle")
              /\ Begin(c, "acquire", [run |-> c, rev |-> 0, state |-> "claimed"])
              /\ Quiet

MarkActive(c) == /\ CanWrite(c) /\ State(c) = "claimed"
                 /\ Begin(c, "replace", NewContent(c, "active"))
                 /\ Quiet

\* The heartbeat, and the binding of the session.
Renew(c) == /\ CanWrite(c) /\ State(c) # "kept" /\ place # "repo"
            /\ Begin(c, "replace", NewContent(c, State(c)))
            /\ Quiet

\* Faulty variant: a state that no reader of the lock knows.
MarkKeep(c) == /\ CanWrite(c) /\ State(c) = "active"
               /\ Begin(c, "replace", NewContent(c, "keep"))
               /\ Quiet

\* For a Kept Session, which a failed start is offered to as well, and before
\* the cleanup of a stopped one.
MarkKept(c) == /\ CanWrite(c) /\ State(c) = "active"
               /\ place = "repo" \/ client[c].session # "none"
               /\ Begin(c, "replace", NewContent(c, "kept"))
               /\ Quiet

\* A fresh session: what the broker still runs is stopped first.
Launch(c) == /\ At(c, "held") /\ State(c) = "active" /\ client[c].session = "none"
             /\ place = "ssh" \/ CanWrite(c)
             /\ place # "repo"
             /\ Begin(c, IF maya # None THEN "clear" ELSE "start", Claim(c))
             /\ Quiet

\* The second broker action of Launch is fenced like the first.
LaunchNext(c) == /\ At(c, "next")
                 /\ place = "ssh" \/ client[c].expected.rev < MaxRev
                 /\ Begin(c, "start", Claim(c))
                 /\ Quiet

\* The identity of the session is written to the manifest of the Run (a write
\* that fails leaves it unrecorded).
Record(c) == /\ At(c, "held") /\ client[c].session = "running" /\ c \notin known
             /\ known' = known \cup {c}
             /\ UNCHANGED <<place, file, mutex, late, maya, client, broken, faults, deaths>>

\* The broker's status decides: the Run's session is stopped, one that is
\* already gone needs no stop, and another Run's is left alone.
StopSession(c) ==
  /\ At(c, "held") /\ client[c].session = "running"
  /\ place = "ssh" \/ State(c) = "kept" \/ CanWrite(c)
  /\ CASE maya = c -> Begin(c, "stop", Claim(c))
       [] maya = None -> client' = [client EXCEPT ![c].session = "stopped"]
       [] OTHER -> client' = [client EXCEPT ![c].session = "unsure"]
  /\ Quiet

\* A Host without a work root has a fake broker, and no Maya to stop.
StopFake(c) == /\ At(c, "held") /\ place = "repo" /\ State(c) = "active"
               /\ client[c].session = "none"
               /\ client' = [client EXCEPT ![c].session = "stopped"]
               /\ Quiet

\* A lock is released when the Run never started Maya or has stopped it.
Release(c) == /\ At(c, "held") /\ client[c].session \in {"none", "stopped"}
              /\ place = "repo" => State(c) # "claimed"
              /\ Begin(c, "remove", None)
              /\ Quiet

\* The process ends and leaves its lock: a Kept Session, or an unsettled one.
Leave(c) == /\ At(c, "held")
            /\ client[c].session = "unsure" \/ State(c) = "kept"
            /\ client' = [client EXCEPT ![c].pc = "ended"]
            /\ Quiet

-----------------------------------------------------------------------------
(* A lock on a remote Host.                                                *)

Fault == faults < MaxFaults /\ faults' = faults + 1
Remote(c, pc) == place = "ssh" /\ At(c, pc)

\* A foreign lock is reclaimed by a controller that found it expired, at most
\* twice in one attempt to acquire.
Judge(c) == client' = [client EXCEPT ![c].pc = "judge", ![c].seen = file]
MayJudge(c) == client[c].attempt < 2 /\ Expired

\* The script runs on the Host and its answer arrives.
Answered(c) ==
  /\ Remote(c, "call")
  /\ Execute(Script(c))
  /\ IF client[c].op \in {"acquire", "reclaim"} /\ ~Takes(Script(c)) /\ MayJudge(c)
     THEN Judge(c) ELSE Return(c, Takes(Script(c)))
  /\ UNCHANGED <<lockVars, late, faults>>

\* After an error the lock is read again; a broker action is not repeated.
Doubt(c) == client' = [client EXCEPT ![c] =
              IF @.op \in SessionOps THEN AfterSession(@, FALSE) ELSE [@ EXCEPT !.pc = "doubt"]]

\* The script ran but the controller saw an error ...
AnswerLost(c) == /\ Remote(c, "call") /\ Fault
                 /\ Execute(Script(c))
                 /\ Doubt(c)
                 /\ UNCHANGED <<lockVars, late>>

\* ... or the controller gave up on a script that may still run.
TimedOut(c) == /\ Remote(c, "call") /\ Fault
               /\ late' = late \cup {Script(c)}
               /\ Doubt(c)
               /\ UNCHANGED <<lockVars, file, maya>>

RunLate(s) == /\ Execute(s)
              /\ late' = late \ {s}
              /\ UNCHANGED <<lockVars, client, faults>>

\* Again, if the script was not seen to have run and attempts are left.
Again(c, attempts) ==
  IF client[c].attempt + 1 < attempts
  THEN client' = [client EXCEPT ![c].pc = "call", ![c].attempt = @ + 1]
  ELSE Return(c, FALSE)

\* What the controller concludes from the lock it reads, if it can read it.
ReadState(c) ==
  /\ Remote(c, "doubt")
  /\ LET k == client[c] IN
     CASE k.op \in {"acquire", "reclaim"} ->
            client' = [client EXCEPT ![c] = IF Is(k.new) THEN After(@, TRUE)
                                            ELSE [@ EXCEPT !.pc = "ended"]]
       [] k.op = "replace" -> IF Is(k.new) THEN Return(c, TRUE)
                              ELSE IF ~Is(k.expected) THEN Return(c, FALSE)
                              ELSE Again(c, 2)
       [] k.op = "remove"  -> IF ~Is(k.expected) THEN Return(c, TRUE) ELSE Again(c, 3)
  /\ Quiet

\* A read may fail as well; it belongs to the broken connection that left the
\* doubt, and the attempts bound how often it happens.
ReadFails(c) ==
  /\ Remote(c, "doubt")
  /\ CASE client[c].op = "replace" -> Again(c, 2)
       [] client[c].op = "remove" -> Again(c, 3)
       [] OTHER -> client' = [client EXCEPT ![c].pc = "ended"]
  /\ Quiet

\* Faulty variant: an expired lease alone is taken as proof.
SessionUnprobed == TRUE

\* An expired lock is taken over once the Session Broker proves that neither
\* Maya nor a broker process is alive; the script then compares the content
\* and the version that were judged.
SessionInactive == maya = None
Reclaim(c) ==
  /\ Remote(c, "judge")
  /\ client' = [client EXCEPT ![c].pc = IF SessionInactive THEN "call" ELSE "idle",
                              ![c].op = "reclaim", ![c].attempt = @ + 1]
  /\ Quiet

-----------------------------------------------------------------------------
(* A lock on this machine, behind a mutex file.                            *)

Here(c, pc) == place # "ssh" /\ At(c, pc)
Inside == {c \in Clients : client[c].pc \in {"in", "look", "take", "write", "out"}}
Step(c, pc) == client' = [client EXCEPT ![c].pc = pc]
Body(c, ok) == client' = [client EXCEPT ![c].pc = "out", ![c].ok = ok]
Outside == UNCHANGED <<place, late, maya, known, faults, deaths>>

\* The mutex file is linked into place; an existing one is examined.
Link(c) == /\ Here(c, "mutex")
           /\ mutex' = IF mutex = None THEN c ELSE mutex
           /\ Step(c, IF mutex = None THEN "in" ELSE "stale")
           /\ UNCHANGED <<file, broken>> /\ Outside

\* A mutex file that is gone, or names a process that is gone, is stale.
MutexStale == mutex = None \/ ~Alive(mutex)
Examine(c) == /\ Here(c, "stale")
              /\ Step(c, IF MutexStale THEN "steal" ELSE "mutex")
              /\ UNCHANGED <<file, mutex, broken>> /\ Outside

\* Whatever is at the path by now is removed.
Steal(c) == /\ Here(c, "steal")
            /\ mutex' = None
            /\ broken' = broken \cup (IF mutex # None /\ Alive(mutex) THEN {"mutex"} ELSE {})
            /\ Step(c, "mutex")
            /\ UNCHANGED file /\ Outside

\* A live holder is waited for, up to a deadline.
MutexTimeout(c) == /\ Here(c, "mutex") /\ mutex # None /\ Fault
                   /\ Return(c, FALSE)
                   /\ UNCHANGED <<lockVars, file, late, maya>>

\* Faulty variant: a checkout's lock that is not kept is stale, whether or not its process is.
LockStaleAlive ==
  \/ file = None
  \/ place = "local" /\ Expired /\ SessionInactive
  \/ place = "repo" /\ file.content.state # "kept"

\* The lock is stale when its lease ran out and the broker proves inactivity,
\* or, in a checkout, when its process is gone and no Run is kept.
LockStale ==
  \/ file = None
  \/ place = "local" /\ Expired /\ SessionInactive
  \/ place = "repo" /\ file.content.state # "kept" /\ ~Alive(file.content.run)

\* The first look of the operation, inside the mutex.
Enter(c) ==
  /\ Here(c, "in")
  /\ LET k == client[c] IN
     CASE k.op = "acquire" ->
            IF file = None THEN file' = Written(k.new) /\ Body(c, TRUE)
            ELSE UNCHANGED file /\ Step(c, "look")
       [] k.op = "remove" ->
            /\ UNCHANGED file
            /\ IF file = None THEN Body(c, TRUE)
               ELSE IF place = "repo" /\ OwnedBy(c) THEN Step(c, "write")
               ELSE IF Is(k.expected) THEN Step(c, "write")
               ELSE Body(c, place = "repo" /\ file.content.state # "claimed")
       [] OTHER ->
            /\ UNCHANGED file
            /\ IF place = "repo" \/ (Is(k.expected) /\ (k.op \in SessionOps => ~Expired))
               THEN Step(c, "write") ELSE Body(c, FALSE)
  /\ UNCHANGED <<mutex, broken>> /\ Outside

\* An existing lock is judged, removed if stale, and linked again.
Look(c) == /\ Here(c, "look")
           /\ IF LockStale THEN Step(c, "take") ELSE Body(c, FALSE)
           /\ UNCHANGED <<file, mutex, broken>> /\ Outside
TakeOver(c) == /\ Here(c, "take")
               /\ file' = None
               /\ Step(c, "in")
               /\ UNCHANGED <<mutex, broken>> /\ Outside

\* The rename, or the removal, that the first look allowed.
Write(c) == /\ Here(c, "write")
            /\ file' = IF client[c].op = "remove" \/ file = None THEN None
                       ELSE Written(client[c].new)
            /\ Body(c, file # None)
            /\ UNCHANGED <<mutex, broken>> /\ Outside

\* The mutex file is removed, whoever it names; a missing one is an error of
\* the whole operation.
Exit(c) ==
  /\ Here(c, "out")
  /\ mutex' = None
  /\ LET k == client[c]
         ok == k.ok /\ mutex # None
     IN client' = [client EXCEPT ![c] =
          IF k.op \in SessionOps /\ ok THEN [k EXCEPT !.pc = "act", !.expected = k.new]
          ELSE IF k.op = "acquire" /\ k.ok /\ ~ok THEN [k EXCEPT !.pc = "ended"]
          ELSE After(k, ok)]
  /\ UNCHANGED <<file, broken>> /\ Outside

\* The broker command that the claim preceded.
Act(c) == /\ Here(c, "act")
          /\ maya' = Session(client[c].op, c)
          /\ Return(c, TRUE)
          /\ UNCHANGED <<lockVars, file, late, faults>>

\* Before its Run is recorded in it, a checkout's lock is removed directly.
ReleaseClaim(c) == /\ Here(c, "held") /\ place = "repo" /\ State(c) = "claimed"
                   /\ file' = None
                   /\ Step(c, "ended")
                   /\ UNCHANGED <<mutex, broken>> /\ Outside

-----------------------------------------------------------------------------
(* The operator, and what happens to processes and leases.                 *)

\* maya-stall stop ends the recorded session of a Run behind the kept fence,
\* which refuses it as long as the lock is the controller's ...
StopRetained(r) == /\ OwnedBy(r) /\ file.content.state = "kept" /\ maya = r /\ r \in known
                   /\ maya' = None
                   /\ UNCHANGED <<lockVars, file, late, client, faults>>

\* A stop goes on with a kept Run, with one whose controller is gone, and with
\* one whose session has been stopped, even before its controller is done.
MayStop(r) == \/ file.content.state = "kept"
              \/ /\ file.content.state = "active"
                 /\ ~Alive(r) \/ client[r].session = "stopped"

\* ... and releases the lock that names the Run, as kept or as active, unless
\* the recorded session is reported alive.  What it takes from the living is
\* noted (verification/embedded-ledger lists the lock as LiveRunOwnsLock).
ReleaseForRun(r) ==
  /\ OwnedBy(r) /\ MayStop(r) /\ Inside = {}
  /\ ~(maya = r /\ r \in known)
  /\ file' = None
  /\ broken' = broken \cup (IF maya = r THEN {"session"} ELSE {})
                     \cup (IF place = "repo" /\ Holds(r) THEN {"lock"} ELSE {})
  /\ UNCHANGED <<place, mutex, late, maya, client, known, faults, deaths>>

\* The lease is an hour: it does not run out between a claim and the command
\* that follows it at once.
Expire == /\ place # "repo" /\ file # None /\ ~file.expired
          /\ file.content.state # "kept"
          /\ \A c \in Clients : client[c].op \in SessionOps => client[c].pc \notin {"out", "act"}
          /\ file' = [file EXCEPT !.expired = TRUE]
          /\ UNCHANGED <<lockVars, late, maya, client, faults>>

\* A killed process leaves its mutex file, its lock, and a script on its way.
Die(c) == /\ Alive(c) /\ ~At(c, "idle") /\ deaths < MaxDeaths
          /\ deaths' = deaths + 1
          /\ client' = [client EXCEPT ![c].pc = "ended"]
          /\ late' \in {late, late \cup (IF Remote(c, "call") THEN {Script(c)} ELSE {})}
          /\ UNCHANGED <<place, file, mutex, maya, known, broken, faults>>

-----------------------------------------------------------------------------
RunStep(c) == \/ Acquire(c) \/ MarkActive(c) \/ Renew(c) \/ MarkKept(c) \/ Launch(c)
              \/ LaunchNext(c) \/ Record(c) \/ StopSession(c) \/ StopFake(c) \/ Release(c)
              \/ Leave(c)
RemoteStep(c) == \/ Answered(c) \/ AnswerLost(c) \/ TimedOut(c) \/ ReadState(c)
                 \/ ReadFails(c) \/ Reclaim(c)
LocalStep(c) == \/ Link(c) \/ Examine(c) \/ Steal(c) \/ MutexTimeout(c) \/ Enter(c)
                \/ Look(c) \/ TakeOver(c) \/ Write(c) \/ Exit(c) \/ Act(c)
                \/ ReleaseClaim(c)
Environment == \/ \E s \in late : RunLate(s)
               \/ Expire
               \/ \E c \in Clients : StopRetained(c) \/ ReleaseForRun(c) \/ Die(c)

Next == (\E c \in Clients : RunStep(c) \/ RemoteStep(c) \/ LocalStep(c)) \/ Environment

Spec == Init /\ [][Next]_vars

-----------------------------------------------------------------------------
Ops == {"acquire", "reclaim", "replace", "remove"} \cup SessionOps
Scripts == [op : Ops, run : Clients, expected : Content \cup {None},
            new : Content \cup {None}, seen : Lock \cup {None}]
Controllers ==
  [pc : {"idle", "held", "next", "act", "ended", "call", "doubt", "judge",
         "mutex", "stale", "steal", "in", "look", "take", "write", "out"},
   op : Ops \cup {"none"}, expected : Content \cup {None}, new : Content \cup {None},
   seen : Lock \cup {None}, attempt : Nat, ok : BOOLEAN,
   session : {"none", "running", "stopped", "unsure"}]

\* What takes something from a process or a session that lives: a second removal
\* of a stale mutex file hits the new one ("mutex"); a stop releases the lock of
\* a checkout under a controller that has not marked it kept ("lock"), or the
\* lock of a session whose identity was never recorded ("session").
Breaks == {"mutex", "lock", "session"}

\* Every variable has its type.
TypeOK ==
  /\ place \in Places /\ known \subseteq Clients /\ broken \subseteq Breaks
  /\ file \in Lock \cup {None}
  /\ mutex \in Clients \cup {None}
  /\ late \subseteq Scripts
  /\ maya \in Clients \cup {None, Standing}
  /\ client \in [Clients -> Controllers]
  /\ faults \in 0..MaxFaults /\ deaths \in 0..MaxDeaths

\* No other Run can own a live session while a Run holds the lock
\* (sessiond_broker.go:116): a Maya UI Session that some Run started is alive
\* only while the Host Lock names that Run, through lost answers, late
\* scripts, expiry, takeover, killed processes and stops of Runs that live or
\* have died.  It is not claimed after a break.
SessionUnderLock == maya \in Clients => OwnedBy(maya) \/ broken # {}

\* Where a process owns the lock, two live processes never both believe that
\* they do, unless a mutex file or the lock itself was taken from a live one.
OneHolder ==
  place = "repo" => broken # {} \/ \A c, d \in Clients : Holds(c) /\ Holds(d) => c = d

\* The lock implements what a Host Lock promises.
Ownership == INSTANCE HostOwnership WITH
  owner <- IF file = None THEN None ELSE file.content.run,
  lease <- IF file = None THEN "none" ELSE IF file.content.state = "kept" THEN "kept"
           ELSE IF file.expired THEN "expired" ELSE "active",
  session <- maya,
  sound <- broken = {}

\* A Maya UI Session starts and stops only under its own Run's unexpired or
\* kept lock, and the lock passes on only when no session of its Run is alive.
ImplementsOwnership == Ownership!Spec
=============================================================================
