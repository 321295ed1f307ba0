--------------------------- MODULE HostLockProofs ---------------------------
(***************************************************************************)
(* Proofs about HostLock, for any number of controllers, writes, lost      *)
(* answers, late scripts and killed processes.                             *)
(***************************************************************************)
EXTENDS HostLock, TLAPS

Claims == {"acquire", "reclaim"}
Mutexed == {"in", "look", "take", "write", "out"}
Waits == {"mutex", "stale", "steal"}
\* An operation is under way.
Pending == {"call", "doubt"} \cup Waits \cup Mutexed

\* The content of the first lock of a Run.
First(c) == [run |-> c, rev |-> 0, state |-> "claimed"]

\* Whose a content is.
Own(content, c) == content \in Content /\ content.run = c

\* What an operation under way writes and compares with.
Asks(c, op, expected, new) ==
  /\ op \in Claims => new = First(c)
  /\ op \in Ops \ Claims => Own(expected, c)
  /\ op = "replace" => Own(new, c) /\ new.rev = expected.rev + 1 /\ expected.state # "kept"
  /\ op \in SessionOps => Own(new, c) /\ new.state = expected.state
  /\ op \in {"clear", "start"} => expected.state = "active"

\* Where the controller of Run c, with record k, is, and what it then knows.
Ctl(c, k) ==
  /\ k.pc \in {"call", "doubt", "judge"} => place = "ssh"
  /\ k.pc \in Waits \cup Mutexed \cup {"act"} => place # "ssh"
  /\ k.op = "reclaim" => place = "ssh"
  /\ k.op \in SessionOps \/ k.session \notin {"none", "stopped"} => place # "repo"
  /\ k.op = "none" => k.pc = "idle"
  /\ k.pc \in {"look", "take"} => k.op = "acquire"
  /\ k.pc = "write" => k.op \notin Claims
  /\ k.pc = "judge" => k.op \in Claims
  /\ k.pc = "doubt" => k.op \notin SessionOps
  /\ k.pc \in {"next", "act"} => k.op \in SessionOps
  /\ k.pc = "next" => k.op = "start"
  /\ k.expected # None => Own(k.expected, c)
  /\ k.pc \in {"held", "next", "act"} => k.expected # None
  /\ k.pc = "idle" => k.expected = None /\ k.session = "none" /\ k.op \in Claims \cup {"none"}
  /\ k.op \in Claims /\ k.pc \notin {"held", "ended"} => k.expected = None /\ k.session = "none"
  /\ k.pc \in Pending \cup {"judge"} => k.op # "none" /\ Asks(c, k.op, k.expected, k.new)
  /\ k.pc \in {"next", "act"} /\ k.op # "stop" => k.expected.state = "active"
  /\ k.op \in {"clear", "start"} /\ k.pc \in Pending \cup {"next", "act"} => k.session = "none"
  /\ k.op = "stop" /\ k.pc \in Pending \cup {"act"} => k.session = "running"
  /\ k.op = "remove" => k.session \in {"none", "stopped"} /\ k.pc \in Pending \cup {"ended"}

\* A Run that has stopped its session, or was never to start one, has none;
\* the Host's standing session is gone before one is started.
Settled(c) == /\ client[c].session \in {"none", "stopped"}
              /\ ~(At(c, "ended") /\ client[c].op = "start")
SettledInv(c) ==
  /\ Settled(c) => maya # c
  /\ client[c].op = "start" \/ client[c].session # "none" => maya # Standing

\* The first lock of a Run may still be written.
Fresh(c) == \/ client[c].op \in Claims \cup {"none"} /\ client[c].pc \in {"idle", "call", "judge"}
            \/ \E s \in late : s.op \in Claims /\ s.run = c

\* A script on its way is one its controller asked for and gave up on.
LateInv(s) ==
  LET k == client[s.run] IN
  /\ place = "ssh"
  /\ Asks(s.run, s.op, s.expected, s.new)
  /\ s.op \in Claims => /\ k.op \in Claims /\ k.pc \in {"doubt", "ended"} /\ k.expected = None
                        /\ \A t \in late : t.op \in Claims /\ t.run = s.run => t = s
  /\ s.op = "remove" => k.op = "remove"
  /\ s.op = "start" => (k.op = "start" /\ k.pc = "ended") \/ k.session = "unsure"

\* Writes and touches after x have moved on from it, and as long as there was
\* none the lease stays run out.
MovedOn(x) ==
  OwnedBy(x.content.run) =>
    \/ x.content.rev < file.content.rev
    \/ /\ file.content = x.content
       /\ x.version < file.version \/ (x.version = file.version /\ file.expired)

\* A lock that was judged and found expired, after its Run had written it.
Judged(x) == /\ x \in Lock /\ x.expired /\ x.content.state # "kept"
             /\ ~Fresh(x.content.run) /\ MovedOn(x)

\* The takeover that was decided on.
Reclaiming(x) == Judged(x) /\ (Is(x.content) /\ file.version = x.version => maya = None)

RemoteInv ==
  /\ \A s \in late : LateInv(s) /\ (s.op = "reclaim" => Reclaiming(s.seen))
  /\ \A c \in Clients :
       /\ Fresh(c) /\ place = "ssh" => ~OwnedBy(c)
       /\ At(c, "judge") => Judged(client[c].seen)
       /\ At(c, "call") /\ client[c].op = "reclaim" => Reclaiming(client[c].seen)

\* Behind the mutex file: what a process has seen there stays as it was.
LocalInv(c) ==
  LET k == client[c] IN
  /\ k.pc \in Mutexed => mutex = c
  /\ At(c, "write") => OwnedBy(c) /\ (Is(k.expected) \/ (place = "repo" /\ k.op = "remove"))
  /\ At(c, "out") /\ k.ok /\ k.op # "remove" => Is(k.new)
  /\ k.pc \in {"out", "act"} /\ k.op \in SessionOps => file = None \/ ~file.expired \/ ~k.ok
  /\ At(c, "act") => k.ok
  /\ At(c, "act") /\ k.op # "stop" => Is(k.expected)
  /\ At(c, "take") => LockStale

\* In a checkout the lock names its live holder.
HolderInv(c) ==
  LET k == client[c] IN
  Holds(c) => \/ Is(k.expected) \/ (At(c, "out") /\ k.op = "replace" /\ k.ok /\ Is(k.new))
              \/ At(c, "out") /\ k.op = "remove" /\ file = None

IInv ==
  /\ TypeOK
  /\ \A c \in Clients : Ctl(c, client[c]) /\ SettledInv(c)
  /\ RemoteInv
  /\ place # "ssh" /\ broken = {} => \A c \in Clients : LocalInv(c)
  /\ place = "repo" => maya = None /\ (broken = {} => \A c \in Clients : HolderInv(c))
  /\ SessionUnderLock

-----------------------------------------------------------------------------
(* Types.                                                                  *)

\* What an operation returns to, by operation.
LEMMA AfterIs ==
  ASSUME NEW k, NEW ok
  PROVE  /\ k.op \in Claims => After(k, ok) = IF ok THEN [k EXCEPT !.pc = "held", !.expected = k.new]
                                               ELSE [k EXCEPT !.pc = "idle"]
         /\ k.op = "replace" => After(k, ok) = IF ok THEN [k EXCEPT !.pc = "held", !.expected = k.new]
                                               ELSE [k EXCEPT !.pc = "held"]
         /\ k.op = "remove" => After(k, ok) = [k EXCEPT !.pc = "ended"]
         /\ k.op \in SessionOps => After(k, ok) = AfterSession(k, ok)
  BY DEF After, Claims, SessionOps

LEMMA AfterSessionIs ==
  ASSUME NEW k, NEW ok \in BOOLEAN
  PROVE  /\ k.op = "clear" => AfterSession(k, ok) = IF ok THEN [k EXCEPT !.op = "start", !.pc = "next"]
                                                   ELSE [k EXCEPT !.pc = "held"]
         /\ k.op = "start" => AfterSession(k, ok) =
              [k EXCEPT !.pc = "held", !.session = IF ok THEN "running" ELSE "unsure"]
         /\ k.op = "stop" => AfterSession(k, ok) =
              [k EXCEPT !.pc = "held", !.session = IF ok THEN "stopped" ELSE "unsure"]
  BY DEF AfterSession

\* The record of one controller changes to k.
Becomes(c, k) == client' = [client EXCEPT ![c] = k]

LEMMA Becoming ==
  ASSUME TypeOK, NEW c \in Clients, NEW k, Becomes(c, k)
  PROVE  client'[c] = k /\ \A d \in Clients \ {c} : client'[d] = client[d]
  BY DEF Becomes, TypeOK

\* Its type and what it knows are kept when k has them.
Good(c, k) == k \in Controllers /\ Ctl(c, k)

LEMMA BecomingGood ==
  ASSUME TypeOK, \A d \in Clients : Ctl(d, client[d]), place' = place,
         NEW c \in Clients, NEW k, Becomes(c, k), Good(c, k)
  PROVE  client' \in [Clients -> Controllers] /\ (\A d \in Clients : Ctl(d, client[d]))'
  <1>1. client' \in [Clients -> Controllers]
    BY DEF Becomes, TypeOK, Good
  <1>2. \A d \in Clients : Ctl(d, client'[d])
    BY Becoming DEF Good
  <1>3. ASSUME NEW d \in Clients PROVE Ctl(d, client[d])'
    BY <1>2 DEF Ctl, Asks, Own
  <1> QED
    BY <1>1, <1>3

LEMMA GoodAfter ==
  ASSUME NEW c \in Clients, NEW k, Good(c, k), k.pc \in Pending \cup {"act"}, NEW ok \in BOOLEAN
  PROVE  Good(c, After(k, ok))
  <1> DEFINE j == After(k, ok)
  <1>0. k \in Controllers /\ Ctl(c, k) /\ k.op # "none"
    BY DEF Good, Ctl, Pending, Waits, Mutexed
  <1>1. CASE k.op \in Claims
    <2>1. k.pc \in Pending /\ k.new \in Content /\ k.new.run = c /\ k.session = "none" /\ k.expected = None
      BY <1>0, <1>1, BoundAssumption
         DEF Ctl, Asks, First, Content, Claims, SessionOps, Pending, Waits, Mutexed
    <2>2. j = IF ok THEN [k EXCEPT !.pc = "held", !.expected = k.new] ELSE [k EXCEPT !.pc = "idle"]
      BY <1>1, AfterIs
    <2>3. j \in Controllers
      BY <1>0, <2>2 DEF Controllers
    <2>4. Ctl(c, j)
      BY <1>0, <1>1, <2>1, <2>2, NamesAssumption
         DEF Ctl, Claims, SessionOps, Pending, Waits, Mutexed, Own, Controllers
    <2> QED
      BY <2>3, <2>4 DEF Good
  <1>2. CASE k.op = "replace"
    <2>1. k.pc \in Pending /\ Own(k.new, c) /\ Own(k.expected, c)
      BY <1>0, <1>2 DEF Ctl, Asks, Claims, Ops, SessionOps, Pending, Waits, Mutexed
    <2>2. j = IF ok THEN [k EXCEPT !.pc = "held", !.expected = k.new] ELSE [k EXCEPT !.pc = "held"]
      BY <1>2, AfterIs
    <2>3. j \in Controllers
      BY <1>0, <2>2 DEF Controllers
    <2>4. Ctl(c, j)
      BY <1>0, <1>2, <2>1, <2>2, NamesAssumption
         DEF Ctl, Claims, SessionOps, Pending, Waits, Mutexed, Own, Controllers
    <2> QED
      BY <2>3, <2>4 DEF Good
  <1>3. CASE k.op = "remove"
    <2>2. j = [k EXCEPT !.pc = "ended"]
      BY <1>3, AfterIs
    <2>3. j \in Controllers
      BY <1>0, <2>2 DEF Controllers
    <2>4. Ctl(c, j)
      BY <1>0, <1>3, <2>2 DEF Ctl, Claims, SessionOps, Pending, Waits, Mutexed, Own, Controllers
    <2> QED
      BY <2>3, <2>4 DEF Good
  <1>4. CASE k.op \in SessionOps
    <2>1. Own(k.expected, c) /\ (k.op = "clear" => k.expected.state = "active" /\ k.session = "none")
      BY <1>0, <1>4 DEF Ctl, Asks, Claims, Ops, SessionOps, Pending
    <2>2. j = AfterSession(k, ok)
      BY <1>4, AfterIs
    <2> SUFFICES Good(c, j)
      OBVIOUS
    <2> HIDE DEF j
    <2>3. CASE k.op = "clear"
      <3>1. j = IF ok THEN [k EXCEPT !.op = "start", !.pc = "next"] ELSE [k EXCEPT !.pc = "held"]
        BY <2>2, <2>3, AfterSessionIs
      <3>2. /\ j.pc \in {"next", "held"} /\ (j.pc = "next" => j.op = "start")
            /\ j.op \in {"clear", "start"} /\ j.expected = k.expected /\ j.session = k.session
            /\ j \in Controllers
        BY <1>0, <2>3, <3>1 DEF Controllers, Ops, SessionOps
      <3> QED
        BY <1>0, <1>4, <2>1, <2>3, <3>2, NamesAssumption
           DEF Good, Ctl, Claims, SessionOps, Pending, Waits, Mutexed, Own
    <2>4. CASE k.op \in {"start", "stop"}
      <3>1. PICK session \in {"running", "stopped", "unsure"} :
              j = [k EXCEPT !.pc = "held", !.session = session]
        BY <2>2, <2>4, AfterSessionIs
      <3>2. j.pc = "held" /\ j.op = k.op /\ j.expected = k.expected /\ j \in Controllers
        BY <1>0, <3>1 DEF Controllers
      <3> QED
        BY <1>0, <1>4, <2>1, <2>4, <3>2, NamesAssumption
           DEF Good, Ctl, Claims, SessionOps, Pending, Waits, Mutexed, Own
    <2> QED
      BY <1>4, <2>3, <2>4 DEF SessionOps
  <1> QED
    BY <1>0, <1>1, <1>2, <1>3, <1>4 DEF Controllers, Ops, Claims

\* An operation begins.
Begun(k, op, new) ==
  [k EXCEPT !.pc = IF place = "ssh" THEN "call" ELSE "mutex",
            !.op = op, !.new = new, !.attempt = 0]

LEMMA GoodBegun ==
  ASSUME NEW c \in Clients, NEW k, Good(c, k), NEW op \in Ops \ {"reclaim"},
         NEW new \in Content \cup {None}, Asks(c, op, k.expected, new),
         op = "acquire" => k.pc = "idle",
         op \in SessionOps => place # "repo",
         op \in {"clear", "start"} => k.session = "none",
         op = "stop" => k.session = "running",
         op = "remove" => k.session \in {"none", "stopped"}
  PROVE  Good(c, Begun(k, op, new))
  <1> DEFINE j == Begun(k, op, new)
  <1>1. j \in Controllers
    BY DEF Begun, Good, Controllers
  <1>2. /\ j.pc = IF place = "ssh" THEN "call" ELSE "mutex"
        /\ j.op = op /\ j.new = new /\ j.expected = k.expected /\ j.session = k.session
    BY DEF Begun, Good, Controllers
  <1> HIDE DEF j
  <1>3. Ctl(c, j)
    BY <1>2 DEF Good, Ctl, Claims, Ops, SessionOps, Pending, Waits, Mutexed
  <1> QED
    BY <1>1, <1>3 DEF Good, j

\* The process ends.
LEMMA GoodEnd ==
  ASSUME NEW c \in Clients, NEW k, Good(c, k), k.op # "none"
  PROVE  Good(c, [k EXCEPT !.pc = "ended"])
  BY DEF Good, Ctl, Controllers, Claims, SessionOps, Pending, Waits, Mutexed

\* A move behind the mutex file.
LEMMA GoodStep ==
  ASSUME NEW c \in Clients, NEW k, Good(c, k), k.pc \in Waits \cup Mutexed,
         NEW pc \in Waits \cup Mutexed, NEW ok \in BOOLEAN,
         pc \in {"look", "take"} => k.op = "acquire", pc = "write" => k.op \notin Claims
  PROVE  Good(c, [k EXCEPT !.pc = pc]) /\ Good(c, [k EXCEPT !.pc = pc, !.ok = ok])
  <1>1. ASSUME NEW j \in {[k EXCEPT !.pc = pc], [k EXCEPT !.pc = pc, !.ok = ok]}
        PROVE  Good(c, j)
    <2>1. j \in Controllers
      BY ZenonT(40) DEF Good, Controllers, Waits, Mutexed
    <2>2. /\ j.pc = pc /\ j.op = k.op /\ j.new = k.new /\ j.expected = k.expected
          /\ j.session = k.session
      BY DEF Good, Controllers
    <2>3. Ctl(c, j)
      BY <2>2 DEF Good, Ctl, Claims, SessionOps, Pending, Waits, Mutexed
    <2> QED
      BY <2>1, <2>3 DEF Good
  <1> QED
    BY <1>1

-----------------------------------------------------------------------------
(* What a Run asks of its lock.                                            *)

\* The controller of Run c goes from client[c] to k while nothing else changes.
Front(c, k) ==
  /\ client[c].pc \in {"idle", "held", "next"} /\ k.pc \in {"call", "mutex", "held", "ended"}
  /\ k.expected = client[c].expected
  /\ k.pc \in {"call", "mutex"} => k.op # "reclaim" /\ (k.op \in Claims <=> At(c, "idle"))
  /\ k.op # client[c].op => k.pc \in {"call", "mutex"}
  /\ k.op = "start" => client[c].op = "start" \/ maya = None
  /\ \/ k.session = client[c].session
     \/ client[c].session = "running" /\ k.session = "unsure"
     \/ client[c].session = "running" /\ k.session = "stopped" /\ maya = None
     \/ place = "repo" /\ k.session = "stopped"

\* What such a step leaves alone; it may record the identity of a session.
Calm == /\ UNCHANGED <<place, file, mutex, late, maya, broken, faults, deaths>>
        /\ known' \subseteq Clients

LEMMA QuietCalm ==
  ASSUME TypeOK, Quiet PROVE Calm
  BY DEF TypeOK, Quiet, Calm

LEMMA BeginFront ==
  ASSUME NEW c \in Clients, Good(c, client[c]), client[c].pc \in {"idle", "held", "next"},
         NEW op \in Ops \ {"reclaim"}, NEW new, Begin(c, op, new),
         op \in Claims <=> At(c, "idle"),
         op = "start" => client[c].op = "start" \/ maya = None
  PROVE  Becomes(c, Begun(client[c], op, new)) /\ Front(c, Begun(client[c], op, new))
  BY DEF Begin, Becomes, Begun, Front, Good, Controllers, At

LEMMA FrontSteps ==
  ASSUME TypeOK, NEW c \in Clients, Ctl(c, client[c]), RunStep(c)
  PROVE  Calm /\ \E k : Becomes(c, k) /\ Good(c, k) /\ Front(c, k)
  <1> DEFINE k == client[c]
  <1>0. Good(c, k) /\ k \in Controllers
    BY DEF Good, TypeOK
  <1>h. ASSUME k.pc \in {"held", "next"}
        PROVE  Own(k.expected, c) /\ k.expected \in Content
    BY <1>0, <1>h DEF Ctl, Own
  <1>n. ASSUME k.pc \in {"held", "next"}, k.expected.rev < MaxRev,
               NEW state \in {"claimed", "active", "kept"}
        PROVE  /\ Own(NewContent(c, state), c) /\ NewContent(c, state) \in Content
               /\ NewContent(c, state).rev = k.expected.rev + 1
               /\ NewContent(c, state).state = state
    <2>1. k.expected \in Content /\ k.expected.run = c
      BY <1>h, <1>n DEF Own
    <2>2. k.expected.rev + 1 \in 0..MaxRev
      BY <1>n, <2>1, BoundAssumption DEF Content
    <2> QED
      BY <2>1, <2>2 DEF NewContent, Content, Own
  <1>1. CASE Acquire(c)
    <2>1. First(c) \in Content
      BY BoundAssumption DEF First, Content
    <2>2. Begin(c, "acquire", First(c)) /\ k.pc = "idle" /\ Quiet
      BY <1>1 DEF Acquire, At, First
    <2>3. Asks(c, "acquire", k.expected, First(c))
      BY DEF Asks, Claims, SessionOps
    <2> QED
      BY <1>0, <2>1, <2>2, <2>3, BeginFront, GoodBegun, QuietCalm DEF Ops, SessionOps, Claims, At
  <1>2. ASSUME NEW state \in {"claimed", "active", "kept"}, CanWrite(c), State(c) # "kept",
               Begin(c, "replace", NewContent(c, state)), Quiet
        PROVE  Calm /\ \E j : Becomes(c, j) /\ Good(c, j) /\ Front(c, j)
    <2>1. k.pc = "held" /\ k.expected.rev < MaxRev /\ k.expected.state # "kept"
      BY <1>2 DEF CanWrite, At, State
    <2>2. NewContent(c, state) \in Content /\ Asks(c, "replace", k.expected, NewContent(c, state))
      BY <1>h, <1>n, <2>1 DEF Asks, Claims, SessionOps
    <2> QED
      BY <1>0, <1>2, <2>1, <2>2, BeginFront, GoodBegun, QuietCalm DEF Ops, SessionOps, Claims, At
  <1>3. CASE MarkActive(c) \/ Renew(c) \/ MarkKept(c)
    <2>1. k.pc = "held" /\ k.expected.state \in {"claimed", "active", "kept"}
      BY <1>3, <1>h DEF MarkActive, Renew, MarkKept, CanWrite, At, Content
    <2> QED
      BY <1>2, <1>3, <2>1 DEF MarkActive, Renew, MarkKept, State
  <1>4. ASSUME NEW op \in SessionOps, Begin(c, op, Claim(c)), Quiet, place # "repo",
               k.pc \in {"held", "next"},
               place = "ssh" \/ State(c) = "kept" \/ k.expected.rev < MaxRev,
               op = "start" => k.op = "start" \/ maya = None,
               op \in {"clear", "start"} => k.session = "none" /\ State(c) = "active",
               op = "stop" => k.session = "running"
        PROVE  Calm /\ \E j : Becomes(c, j) /\ Good(c, j) /\ Front(c, j)
    <2>1. State(c) = k.expected.state /\ State(c) \in {"claimed", "active", "kept"}
      BY <1>4, <1>h DEF State, Content
    <2>2. Own(Claim(c), c) /\ Claim(c) \in Content /\ Claim(c).state = k.expected.state
      BY <1>4, <1>h, <1>n, <2>1 DEF Claim
    <2>3. Asks(c, op, k.expected, Claim(c))
      BY <1>4, <1>h, <2>1, <2>2 DEF Asks, Claims, SessionOps
    <2> QED
      BY <1>0, <1>4, <2>2, <2>3, BeginFront, GoodBegun, QuietCalm DEF Ops, SessionOps, Claims, At
  <1>5. CASE Launch(c)
    BY <1>4, <1>5 DEF Launch, CanWrite, At, SessionOps
  <1>6. CASE LaunchNext(c)
    <2>1. k.op = "start" /\ k.session = "none" /\ State(c) = "active" /\ place # "repo"
      BY <1>6, <1>0 DEF LaunchNext, At, Ctl, State, SessionOps
    <2> QED
      BY <1>4, <1>6, <2>1 DEF LaunchNext, At, SessionOps
  <1>7. CASE StopSession(c)
    <2>1. k.pc = "held" /\ k.session = "running" /\ Quiet
      BY <1>7 DEF StopSession, At
    <2>2. CASE maya = c
      <3>1. Begin(c, "stop", Claim(c)) /\ (place = "ssh" \/ State(c) = "kept" \/ CanWrite(c))
        BY <1>7, <2>2, NamesAssumption DEF StopSession
      <3>2. place # "repo"
        BY <1>0, <2>1 DEF Ctl
      <3> QED
        BY <1>4, <2>1, <3>1, <3>2 DEF SessionOps, CanWrite, At
    <2>3. CASE maya # c
      <3>1. PICK session \in {"stopped", "unsure"} :
              /\ client' = [client EXCEPT ![c].session = session]
              /\ session = "stopped" => maya = None
        BY <1>7, <2>3 DEF StopSession
      <3> DEFINE j == [k EXCEPT !.session = session]
      <3>2. Becomes(c, j)
        BY <3>1 DEF Becomes
      <3>3. /\ j \in Controllers /\ j.pc = "held" /\ j.op = k.op /\ j.expected = k.expected
            /\ j.session = session
        BY <1>0, <2>1 DEF Controllers
      <3> HIDE DEF j
      <3>4. Good(c, j)
        BY <1>0, <2>1, <3>3 DEF Good, Ctl, Claims, SessionOps, Pending, Waits, Mutexed
      <3>5. Front(c, j)
        BY <2>1, <3>1, <3>3 DEF Front
      <3> QED
        BY <2>1, <3>2, <3>4, <3>5, QuietCalm
    <2> QED
      BY <2>2, <2>3
  <1>8. CASE Release(c)
    <2>1. /\ k.pc = "held" /\ k.session \in {"none", "stopped"} /\ Begin(c, "remove", None) /\ Quiet
      BY <1>8 DEF Release, At
    <2>2. Asks(c, "remove", k.expected, None)
      BY <1>h, <2>1 DEF Asks, Claims, SessionOps
    <2> QED
      BY <1>0, <2>1, <2>2, BeginFront, GoodBegun, QuietCalm DEF Ops, SessionOps, Claims, At
  <1>9. CASE Leave(c)
    <2>1. k.pc = "held" /\ Quiet /\ Becomes(c, [k EXCEPT !.pc = "ended"]) /\ k.op # "none"
      BY <1>0, <1>9 DEF Leave, At, Becomes, Ctl
    <2>2. Front(c, [k EXCEPT !.pc = "ended"])
      BY <1>0, <2>1 DEF Front, Controllers
    <2> QED
      BY <1>0, <2>1, <2>2, GoodEnd, QuietCalm
  <1>10. CASE Record(c)
    <2>1. Calm /\ Becomes(c, k) /\ k.pc = "held" /\ k.op # "none"
      BY <1>0, <1>10 DEF Record, Calm, Becomes, TypeOK, At, Ctl
    <2>2. k.op = "start" => client[c].op = "start"
      OBVIOUS
    <2>3. k.session = client[c].session
      OBVIOUS
    <2>4. Front(c, k)
      BY <2>1, <2>2, <2>3 DEF Front, At
    <2> QED
      BY <1>0, <2>1, <2>4
  <1>11. CASE StopFake(c)
    <2>1. k.pc = "held" /\ k.session = "none" /\ place = "repo" /\ Quiet
      BY <1>11 DEF StopFake, At
    <2> DEFINE j == [k EXCEPT !.session = "stopped"]
    <2>2. Becomes(c, j)
      BY <1>11 DEF StopFake, Becomes
    <2>3. /\ j \in Controllers /\ j.pc = "held" /\ j.op = k.op /\ j.expected = k.expected
          /\ j.session = "stopped"
      BY <1>0, <2>1 DEF Controllers
    <2> HIDE DEF j
    <2>4. Good(c, j)
      BY <1>0, <2>1, <2>3 DEF Good, Ctl, Claims, SessionOps, Pending, Waits, Mutexed
    <2>5. Front(c, j)
      BY <2>1, <2>3 DEF Front
    <2> QED
      BY <2>1, <2>2, <2>4, <2>5, QuietCalm
  <1> QED
    BY <1>1, <1>3, <1>5, <1>6, <1>7, <1>8, <1>9, <1>10, <1>11 DEF RunStep

\* The parts of the invariant that a step must keep beyond types and Ctl.
Basic == TypeOK /\ \A c \in Clients : Ctl(c, client[c])

LEMMA FrontKeeps ==
  ASSUME IInv, NEW c \in Clients, Calm, NEW k, Becomes(c, k), Good(c, k), Front(c, k)
  PROVE  IInv'
  <1>1. Basic'
    BY BecomingGood DEF IInv, Basic, Calm, TypeOK
  <1>2. client'[c] = k /\ \A d \in Clients \ {c} : client'[d] = client[d]
    BY Becoming DEF IInv
  <1> USE DEF Calm
  <1>3. ASSUME NEW d \in Clients PROVE SettledInv(d)'
    <2>1. CASE d # c
      BY <1>2, <2>1 DEF IInv, SettledInv, Settled, At
    <2>2. CASE d = c
      BY <1>2, <2>2, NamesAssumption DEF IInv, SettledInv, Settled, At, Front, Ctl
    <2> QED
      BY <2>1, <2>2
  <1>4. ASSUME NEW d \in Clients, Fresh(d)' PROVE Fresh(d)
    <2>1. CASE d # c
      BY <1>2, <1>4, <2>1 DEF Fresh
    <2>2. CASE d = c
      BY <1>1, <1>2, <1>4, <2>2 DEF Fresh, Front, IInv, Basic, Ctl, At
    <2> QED
      BY <2>1, <2>2
  <1>5. RemoteInv'
    <2>1. ASSUME NEW x, Judged(x), x.content.run \in Clients PROVE Judged(x)'
      BY <1>4, <2>1 DEF Judged, MovedOn, OwnedBy, Is
    <2>2. ASSUME NEW x, Reclaiming(x) PROVE Reclaiming(x)'
      BY <2>1, <2>2 DEF Reclaiming, Is, Judged, Lock, Content
    <2>3. ASSUME NEW s \in late PROVE LateInv(s)'
      <3>1. LateInv(s) /\ s.run \in Clients
        BY DEF IInv, RemoteInv, TypeOK, Scripts
      <3>2. CASE s.run # c
        BY <1>2, <3>1, <3>2 DEF LateInv, Asks, Own
      <3>3. CASE s.run = c
        BY <1>2, <3>1, <3>3 DEF LateInv, Asks, Own, Front, IInv, Ctl, Pending, Waits, Mutexed
      <3> QED
        BY <3>2, <3>3
    <2>4. \A s \in late : s.op = "reclaim" => Reclaiming(s.seen)'
      BY <2>2 DEF IInv, RemoteInv
    <2>5. ASSUME NEW d \in Clients
          PROVE  /\ (Fresh(d) /\ place = "ssh" => ~OwnedBy(d))'
                 /\ (At(d, "judge") => Judged(client[d].seen))'
                 /\ (At(d, "call") /\ client[d].op = "reclaim" => Reclaiming(client[d].seen))'
      <3>1. (Fresh(d) /\ place = "ssh" => ~OwnedBy(d))'
        BY <1>4 DEF IInv, RemoteInv, OwnedBy
      <3>2. CASE d = c
        <4>1. k.pc # "judge" /\ ~(k.pc = "call" /\ k.op = "reclaim")
          BY DEF Front
        <4>2. client'[d] = k
          BY <1>2, <3>2
        <4> QED
          BY <3>1, <4>1, <4>2 DEF At
      <3>3. CASE d # c
        <4>1. client'[d] = client[d]
          BY <1>2, <3>3
        <4>2. ASSUME At(d, "judge") PROVE Judged(client[d].seen)'
          <5>1. Judged(client[d].seen) /\ client[d].seen.content.run \in Clients
            BY <4>2 DEF IInv, RemoteInv, Judged, Lock, Content
          <5> QED
            BY <2>1, <4>1, <5>1
        <4>3. ASSUME At(d, "call"), client[d].op = "reclaim" PROVE Reclaiming(client[d].seen)'
          <5>1. Reclaiming(client[d].seen)
            BY <4>3 DEF IInv, RemoteInv
          <5> QED
            BY <2>2, <4>1, <5>1
        <4> QED
          BY <3>1, <4>1, <4>2, <4>3 DEF At
      <3> QED
        BY <3>2, <3>3
    <2> QED
      BY <2>3, <2>4, <2>5 DEF RemoteInv
  <1>6. ASSUME NEW d \in Clients, LocalInv(d), place # "ssh" PROVE LocalInv(d)'
    <2>1. CASE d = c
      BY <1>2, <2>1 DEF LocalInv, Front, Mutexed, At
    <2>2. CASE d # c
      <3>1. ASSUME At(d, "take"), LockStale PROVE LockStale'
        <4>1. \A e \in Clients : Alive(e)' => Alive(e)
          BY <1>2 DEF Alive, At, Front
        <4>2. file # None => file.content.run \in Clients
          BY DEF IInv, TypeOK, Lock, Content
        <4> QED
          BY <3>1, <4>1, <4>2 DEF LockStale, Expired, SessionInactive
      <3> QED
        BY <1>2, <1>6, <2>2, <3>1 DEF LocalInv, Mutexed, At, OwnedBy, Is
    <2> QED
      BY <2>1, <2>2
  <1>7. ASSUME NEW d \in Clients, HolderInv(d) PROVE HolderInv(d)'
    BY <1>2, <1>7 DEF HolderInv, Holds, Alive, At, Is, Front
  <1>8. SessionUnderLock'
    BY DEF IInv, SessionUnderLock, OwnedBy
  <1> QED
    BY <1>1, <1>3, <1>5, <1>6, <1>7, <1>8 DEF IInv, Basic

-----------------------------------------------------------------------------
(* What a script does to the lock and the session.                         *)

LEMMA ExecuteIs ==
  ASSUME NEW s, Execute(s)
  PROVE  /\ s.op = "acquire" => /\ maya' = maya
                                /\ file' = file \/ (file = None /\ file' = Written(s.new))
         /\ s.op = "reclaim" =>
              /\ maya' = maya
              /\ file' = file \/ (file' = Written(s.new) /\ ReclaimTakes(s))
         /\ s.op = "replace" =>
              /\ maya' = maya
              /\ file' = file \/ (file' = Written(s.new) /\ Is(s.expected))
         /\ s.op = "remove" =>
              /\ maya' = maya
              /\ file' = file \/ (file' = None /\ Is(s.expected))
         /\ s.op \in SessionOps =>
              \/ file' = file /\ maya' = maya /\ ~Takes(s)
              \/ /\ Fenced(s.run) /\ file' = Touched
                 /\ maya' = IF s.op = "start" THEN s.run ELSE None
         /\ Takes(s) \/ UNCHANGED <<file, maya>>
  <1> USE DEF Execute
  <1>1. CASE s.op = "acquire"
    BY <1>1 DEF Takes, AcquireTakes, Leaves, Session, SessionOps
  <1>2. CASE s.op = "reclaim"
    BY <1>2 DEF Takes, Leaves, Session, SessionOps
  <1>3. CASE s.op = "replace"
    BY <1>3 DEF Takes, ReplaceTakes, Leaves, Session, SessionOps
  <1>4. CASE s.op = "remove"
    BY <1>4 DEF Takes, RemoveTakes, Leaves, Session, SessionOps
  <1>5. CASE s.op \in SessionOps
    BY <1>5 DEF Takes, FenceTakes, Leaves, Session, SessionOps
  <1>6. Takes(s) \/ UNCHANGED <<file, maya>>
    OBVIOUS
  <1> QED
    BY <1>1, <1>2, <1>3, <1>4, <1>5, <1>6 DEF SessionOps

\* A script that its controller had reason to send.
Legit(s) == /\ s \in Scripts /\ Asks(s.run, s.op, s.expected, s.new)
            /\ s.op \in Claims => ~OwnedBy(s.run)
            /\ s.op = "reclaim" => Reclaiming(s.seen)
            /\ s.op = "remove" => maya # s.run
            /\ s.op = "start" => maya # Standing

\* What a file is, and what the changes to it are.
LEMMA FileFacts ==
  ASSUME TypeOK
  PROVE  /\ file # None => /\ file \in Lock /\ file.content \in Content /\ file.content.run \in Clients
                           /\ file.content.rev \in Nat /\ file.version \in Nat /\ file.expired \in BOOLEAN
         /\ \A new \in Content : /\ Written(new) \in Lock /\ Written(new) # None
                                 /\ Written(new).content = new /\ Written(new).version = 0
                                 /\ Written(new).expired = FALSE
         /\ file # None => /\ Touched \in Lock /\ Touched # None /\ Touched.content = file.content
                           /\ Touched.expired = file.expired
                           /\ file.content.state # "kept" => Touched.version = file.version + 1
  <1>1. file # None => file \in Lock
    BY DEF TypeOK
  <1>2. file # None => /\ file.content \in Content /\ file.content.run \in Clients
                       /\ file.content.rev \in Nat /\ file.version \in Nat /\ file.expired \in BOOLEAN
    BY <1>1, BoundAssumption DEF Lock, Content
  <1>3. \A new \in Content : /\ Written(new) \in Lock /\ Written(new) # None
                             /\ Written(new).content = new /\ Written(new).version = 0
                             /\ Written(new).expired = FALSE
    <2> SUFFICES ASSUME NEW new \in Content
                 PROVE  /\ Written(new) \in Lock /\ Written(new) # None
                        /\ Written(new).content = new /\ Written(new).version = 0
                        /\ Written(new).expired = FALSE
      OBVIOUS
    <2>1. Written(new) \in Lock
      BY DEF Written, Lock
    <2>2. Written(new) # None
      BY <2>1, NamesAssumption
    <2> QED
      BY <2>1, <2>2 DEF Written
  <1>4. file # None => /\ Touched \in Lock /\ Touched # None /\ Touched.content = file.content
                       /\ Touched.expired = file.expired
                       /\ file.content.state # "kept" => Touched.version = file.version + 1
    <2> SUFFICES ASSUME file # None
                 PROVE  /\ Touched \in Lock /\ Touched # None /\ Touched.content = file.content
                        /\ Touched.expired = file.expired
                        /\ file.content.state # "kept" => Touched.version = file.version + 1
      OBVIOUS
    <2>1. CASE file.content.state = "kept"
      BY <1>1, <2>1 DEF Touched
    <2>2. CASE file.content.state # "kept"
      <3>1. Touched = [file EXCEPT !.version = @ + 1]
        BY <2>2 DEF Touched
      <3>2. file.version + 1 \in Nat
        BY <1>2
      <3> QED
        BY <1>1, <2>2, <3>1, <3>2, NamesAssumption DEF Lock
    <2> QED
      BY <2>1, <2>2
  <1> QED
    BY <1>1, <1>2, <1>3, <1>4

\* How a legitimate script can have changed the lock and the session.
Effect(s) ==
  \/ UNCHANGED <<file, maya>>
  \/ /\ s.op \in Claims /\ maya' = maya /\ file' = Written(s.new)
     /\ file = None \/ (file.content.state # "kept" /\ file.expired /\ maya = None)
  \/ /\ s.op = "replace" /\ maya' = maya /\ file' = Written(s.new) /\ Is(s.expected)
  \/ /\ s.op = "remove" /\ maya' = maya /\ file' = None /\ OwnedBy(s.run)
  \/ /\ s.op \in SessionOps /\ Fenced(s.run) /\ file' = Touched
     /\ maya' = IF s.op = "start" THEN s.run ELSE None

LEMMA ExecuteEffect ==
  ASSUME TypeOK, NEW s, Legit(s), Execute(s)
  PROVE  Effect(s) /\ s.run \in Clients /\ (s.op \in Claims \cup {"replace"} => Own(s.new, s.run))
  <1>1. s.op \in Ops /\ s.run \in Clients
    BY DEF Legit, Scripts
  <1>2. ASSUME s.op = "acquire" PROVE Effect(s)
    BY <1>2, ExecuteIs DEF Effect, Claims
  <1>3. ASSUME s.op = "reclaim" PROVE Effect(s)
    BY <1>3, ExecuteIs DEF Effect, Claims, Legit, Reclaiming, Judged, MovedOn, ReclaimTakes, Is, OwnedBy,
       Lock, Content
  <1>4. ASSUME s.op = "replace" PROVE Effect(s)
    BY <1>4, ExecuteIs DEF Effect
  <1>5. ASSUME s.op = "remove" PROVE Effect(s)
    BY <1>1, <1>5, ExecuteIs DEF Effect, Legit, Asks, Claims, Own, Is, OwnedBy
  <1>6. ASSUME s.op \in SessionOps PROVE Effect(s)
    BY <1>6, ExecuteIs DEF Effect
  <1>7. s.op \in Claims \cup {"replace"} => Own(s.new, s.run)
    BY <1>1, BoundAssumption DEF Legit, Asks, Own, First, Content
  <1> QED
    BY <1>1, <1>2, <1>3, <1>4, <1>5, <1>6, <1>7 DEF Ops

\* What every legitimate script leaves true.
LEMMA ExecuteKeeps ==
  ASSUME TypeOK, SessionUnderLock, NEW s, Legit(s), Execute(s), broken' = broken /\ known' = known
  PROVE  /\ file' \in Lock \cup {None} /\ maya' \in Clients \cup {None, Standing}
         /\ SessionUnderLock'
         /\ maya' \in {maya, None} \/ (s.op = "start" /\ maya' = s.run)
         /\ \A c \in Clients :
              ~OwnedBy(c) /\ ~(s.op \in Claims /\ s.run = c) => ~OwnedBy(c)'
         /\ \A x \in Lock :
              /\ x.expired /\ x.content.state # "kept" /\ MovedOn(x)
              /\ ~(s.op \in Claims /\ s.run = x.content.run)
              => /\ MovedOn(x)'
                 /\ (Is(x.content) /\ file.version = x.version => maya = None) =>
                      (Is(x.content) /\ file.version = x.version => maya = None)'
  <1> USE FileFacts
  <1>1. /\ Effect(s) /\ s.run \in Clients /\ s.op \in Ops
        /\ s.op \in Claims \cup {"replace"} => s.new \in Content /\ s.new.run = s.run
    BY ExecuteEffect DEF Own, Legit, Scripts
  <1>2. file' \in Lock \cup {None} /\ maya' \in Clients \cup {None, Standing}
    BY <1>1 DEF Effect, TypeOK, Fenced, OwnedBy
  <1>3. SessionUnderLock'
    BY <1>1, NamesAssumption DEF Effect, SessionUnderLock, OwnedBy, Is, Legit, Asks, Claims, Fenced, Own, Ops
  <1>4. maya' \in {maya, None} \/ (s.op = "start" /\ maya' = s.run)
    BY <1>1 DEF Effect
  <1>5. ASSUME NEW c \in Clients, ~OwnedBy(c), ~(s.op \in Claims /\ s.run = c) PROVE ~OwnedBy(c)'
    BY <1>1, <1>5 DEF Effect, OwnedBy, Is, Legit, Asks, Claims, Fenced, Own, Ops
  <1>6. ASSUME NEW x \in Lock, x.expired, x.content.state # "kept", MovedOn(x),
               ~(s.op \in Claims /\ s.run = x.content.run)
        PROVE  /\ MovedOn(x)'
               /\ (Is(x.content) /\ file.version = x.version => maya = None) =>
                    (Is(x.content) /\ file.version = x.version => maya = None)'
    <2>1. x.content \in Content /\ x.version \in Nat /\ x.content.rev \in Nat
      BY BoundAssumption DEF Lock, Content
    <2>2. CASE UNCHANGED <<file, maya>>
      BY <1>6, <2>2 DEF MovedOn, OwnedBy, Is
    <2>3. CASE s.op \in Claims /\ file' = Written(s.new)
      BY <1>1, <1>6, <2>1, <2>3 DEF MovedOn, OwnedBy, Is
    <2>4. CASE s.op = "replace" /\ file' = Written(s.new) /\ Is(s.expected)
      <3>1. s.new.rev = file.content.rev + 1 /\ s.new.run = file.content.run /\ file # None
        BY <2>4 DEF Legit, Asks, Is, Own, Claims, Ops
      <3>2. file' # None /\ file'.content = s.new
        BY <1>1, <2>4
      <3>3. x.content.run = file.content.run => x.content.rev < s.new.rev
        BY <1>6, <2>1, <3>1 DEF MovedOn, OwnedBy
      <3>4. MovedOn(x)'
        BY <3>1, <3>2, <3>3 DEF MovedOn, OwnedBy
      <3>5. ~Is(x.content)'
        BY <2>1, <3>1, <3>2, <3>3 DEF Is
      <3> QED
        BY <3>4, <3>5
    <2>5. CASE file' = None
      BY <1>6, <2>5 DEF MovedOn, OwnedBy, Is
    <2>6. CASE s.op \in SessionOps /\ Fenced(s.run) /\ file' = Touched
      BY <1>6, <2>1, <2>6 DEF MovedOn, OwnedBy, Is, Fenced, Expired
    <2> QED
      BY <1>1, <2>2, <2>3, <2>4, <2>5, <2>6 DEF Effect
  <1> QED
    BY <1>2, <1>3, <1>4, <1>5, <1>6

-----------------------------------------------------------------------------
(* The steps of a lock on a remote Host.                                   *)

\* The lock changes hands only to q, and what was judged stays judged.
Benign(q) ==
  /\ \A d \in Clients \ {q} : ~OwnedBy(d) => ~OwnedBy(d)'
  /\ \A x \in Lock : x.expired /\ x.content.state # "kept" /\ MovedOn(x) /\ x.content.run # q =>
       /\ MovedOn(x)'
       /\ (Is(x.content) /\ file.version = x.version => maya = None) =>
            (Is(x.content) /\ file.version = x.version => maya = None)'

LEMMA ExecuteBenign ==
  ASSUME IInv, NEW s, Legit(s), Execute(s), broken' = broken /\ known' = known
  PROVE  /\ s.op \in Claims => Benign(s.run)
         /\ s.op \notin Claims => Benign(None)
         /\ ~Takes(s) => Benign(None)
  <1>1. TypeOK /\ SessionUnderLock
    BY DEF IInv
  <1>2. s.op \in Claims => Benign(s.run)
    BY <1>1, ExecuteKeeps DEF Benign
  <1>3. s.op \notin Claims => Benign(None)
    BY <1>1, ExecuteKeeps DEF Benign
  <1>4. ASSUME ~Takes(s) PROVE Benign(None)
    <2>1. UNCHANGED <<file, maya>>
      BY <1>4 DEF Execute
    <2> QED
      BY <2>1 DEF Benign, OwnedBy, MovedOn, Is
  <1> QED
    BY <1>2, <1>3, <1>4

LEMMA StillBenign ==
  ASSUME UNCHANGED <<file, maya>> PROVE Benign(None)
  BY DEF Benign, OwnedBy, MovedOn, Is

LEMMA RemoteKeeps ==
  ASSUME IInv, place = "ssh", place' = place, NEW c \in Clients,
         \A d \in Clients \ {c} : client'[d] = client[d],
         \A s \in late' : s \in late \/ s = Script(c),
         NEW q \in Clients \cup {None}, Benign(q), q # None => Fresh(q) /\ ~Fresh(q)',
         Fresh(c)' => Fresh(c),
         \A s \in late' : s.run = c => LateInv(s)',
         Script(c) \in late' \ late /\ client[c].op = "reclaim" => Reclaiming(client[c].seen),
         client'[c] = client[c] \/
           /\ At(c, "judge")' => Judged(client[c].seen)'
           /\ At(c, "call")' /\ client'[c].op = "reclaim" => Reclaiming(client[c].seen)'
  PROVE  RemoteInv'
  <1>0. TypeOK /\ RemoteInv
    BY DEF IInv
  <1>1. ASSUME NEW d \in Clients, Fresh(d)' PROVE Fresh(d) /\ ~OwnedBy(d)'
    <2>1. Fresh(d)
      <3>1. CASE d = c
        BY <1>1, <3>1
      <3>2. CASE d # c
        BY <1>1, <3>2 DEF Fresh, Script
      <3> QED
        BY <3>1, <3>2
    <2>2. ~OwnedBy(d)
      BY <1>0, <2>1 DEF RemoteInv
    <2>3. d # q
      BY <1>1, NamesAssumption
    <2> QED
      BY <2>1, <2>2, <2>3 DEF Benign
  <1>2. ASSUME NEW x, Judged(x) PROVE Judged(x)'
    <2>1. x \in Lock /\ x.content.run \in Clients /\ ~Fresh(x.content.run)
      BY <1>2 DEF Judged, Lock, Content
    <2>2. x.content.run # q /\ ~Fresh(x.content.run)'
      BY <1>1, <2>1, NamesAssumption
    <2>3. MovedOn(x)'
      BY <1>2, <2>1, <2>2 DEF Benign, Judged
    <2> QED
      BY <1>2, <2>1, <2>2, <2>3 DEF Judged
  <1>3. ASSUME NEW x, Reclaiming(x) PROVE Reclaiming(x)'
    <2>1. Judged(x)' /\ x \in Lock /\ x.content.run # q
      BY <1>2, <1>3, NamesAssumption DEF Reclaiming, Judged, Lock, Content
    <2>2. (Is(x.content) /\ file.version = x.version => maya = None)'
      BY <1>3, <2>1 DEF Benign, Judged, Reclaiming
    <2> QED
      BY <2>1, <2>2 DEF Reclaiming
  <1>4. ASSUME NEW s \in late' PROVE LateInv(s)' /\ (s.op = "reclaim" => Reclaiming(s.seen)')
    <2>1. LateInv(s)'
      <3>1. CASE s.run = c
        BY <3>1
      <3>2. CASE s.run # c
        <4>1. s \in late /\ LateInv(s) /\ s.run \in Clients /\ client'[s.run] = client[s.run]
          BY <1>0, <1>4, <3>2 DEF Script, RemoteInv, TypeOK, Scripts
        <4>2. \A t \in late' : t.run = s.run => t \in late
          BY <3>2 DEF Script
        <4> QED
          BY <3>2, <4>1, <4>2 DEF LateInv, Asks, Own
      <3> QED
        BY <3>1, <3>2
    <2>2. ASSUME s.op = "reclaim" PROVE Reclaiming(s.seen)'
      <3>1. Reclaiming(s.seen)
        BY <1>0, <1>4, <2>2 DEF RemoteInv, Script
      <3> QED
        BY <1>3, <3>1
    <2> QED
      BY <2>1, <2>2
  <1>5. ASSUME NEW d \in Clients
        PROVE  /\ At(d, "judge")' => Judged(client[d].seen)'
               /\ At(d, "call")' /\ client'[d].op = "reclaim" => Reclaiming(client[d].seen)'
    <2>1. CASE d = c /\ client'[d] # client[d]
      BY <2>1
    <2>2. CASE client'[d] = client[d]
      <3>1. client'[d] = client[d]
        BY <2>2
      <3>2. At(d, "judge")' => Judged(client[d].seen)
        BY <1>0, <3>1 DEF RemoteInv, At
      <3>3. At(d, "call")' /\ client'[d].op = "reclaim" => Reclaiming(client[d].seen)
        BY <1>0, <3>1 DEF RemoteInv, At
      <3> QED
        BY <1>2, <1>3, <3>1, <3>2, <3>3
    <2> QED
      BY <2>1, <2>2
  <1> QED
    BY <1>1, <1>4, <1>5 DEF RemoteInv

\* On a remote Host the parts of the invariant about mutex files say nothing.
LEMMA RemoteParts ==
  ASSUME Basic', (\A c \in Clients : SettledInv(c))', RemoteInv', SessionUnderLock', place' = "ssh"
  PROVE  IInv'
  BY DEF IInv, Basic

\* A session comes from the Run c, if at all.
LEMMA SettledKeeps ==
  ASSUME IInv, NEW c \in Clients, \A d \in Clients \ {c} : client'[d] = client[d],
         maya' \in {maya, None, c}, SettledInv(c)'
  PROVE  (\A d \in Clients : SettledInv(d))'
  <1> SUFFICES ASSUME NEW d \in Clients, d # c PROVE SettledInv(d)'
    OBVIOUS
  <1>1. SettledInv(d) /\ client'[d] = client[d]
    BY DEF IInv
  <1> QED
    BY <1>1, NamesAssumption DEF SettledInv, Settled, At

\* A script that is sent, or was given up on, is legitimate.
LEMMA ScriptLegit ==
  ASSUME IInv, NEW c \in Clients, Remote(c, "call")
  PROVE  Legit(Script(c)) /\ (client[c].op \in Claims => Fresh(c))
  <1>1. TypeOK /\ Ctl(c, client[c]) /\ SettledInv(c) /\ client[c].pc = "call" /\ place = "ssh"
    BY DEF IInv, Remote, At
  <1>2. Script(c) \in Scripts
    BY <1>1 DEF Script, Scripts, TypeOK, Controllers, Ctl, Pending
  <1>3. Asks(c, client[c].op, client[c].expected, client[c].new)
    BY <1>1 DEF Ctl, Pending
  <1>4. client[c].op \in Claims => Fresh(c) /\ ~OwnedBy(c)
    BY <1>1 DEF Fresh, IInv, RemoteInv
  <1>5. client[c].op = "reclaim" => Reclaiming(client[c].seen)
    BY <1>1 DEF IInv, RemoteInv, At
  <1>6. client[c].op = "remove" => maya # c
    BY <1>1 DEF Ctl, SettledInv, Settled, At
  <1>7. client[c].op = "start" => maya # Standing
    BY <1>1 DEF SettledInv
  <1> QED
    BY <1>2, <1>3, <1>4, <1>5, <1>6, <1>7 DEF Legit, Script

LEMMA LateLegit ==
  ASSUME IInv, NEW s \in late
  PROVE  Legit(s) /\ s.run \in Clients /\ (s.op \in Claims => Fresh(s.run))
  <1>1. s \in Scripts /\ s.run \in Clients /\ LateInv(s)
    BY DEF IInv, TypeOK, RemoteInv, Scripts
  <1>2. Ctl(s.run, client[s.run]) /\ SettledInv(s.run)
    BY <1>1 DEF IInv
  <1>3. s.op \in Claims => Fresh(s.run) /\ ~OwnedBy(s.run)
    BY <1>1 DEF Fresh, IInv, RemoteInv, LateInv
  <1>4. s.op = "reclaim" => Reclaiming(s.seen)
    BY DEF IInv, RemoteInv
  <1>5. s.op = "remove" => maya # s.run
    BY <1>1, <1>2 DEF LateInv, Ctl, SettledInv, Settled
  <1>6. s.op = "start" => maya # Standing
    BY <1>1, <1>2 DEF LateInv, SettledInv
  <1> QED
    BY <1>1, <1>3, <1>4, <1>5, <1>6 DEF Legit, LateInv

LEMMA RunLateKeeps ==
  ASSUME IInv, NEW s \in late, RunLate(s)
  PROVE  IInv'
  <1>1. /\ Execute(s) /\ late' = late \ {s} /\ client' = client /\ place' = place /\ broken' = broken /\ known' = known
        /\ mutex' = mutex /\ faults' = faults /\ deaths' = deaths
    BY DEF RunLate, lockVars
  <1>2. Legit(s) /\ s.run \in Clients /\ (s.op \in Claims => Fresh(s.run)) /\ LateInv(s) /\ place = "ssh"
    BY LateLegit DEF IInv, RemoteInv, LateInv
  <1>3. TypeOK /\ SessionUnderLock
    BY DEF IInv
  <1>4. /\ file' \in Lock \cup {None} /\ maya' \in Clients \cup {None, Standing}
        /\ SessionUnderLock' /\ (maya' \in {maya, None} \/ (s.op = "start" /\ maya' = s.run))
    BY <1>1, <1>2, <1>3, ExecuteKeeps
  <1>5. Basic'
    <2>1. TypeOK'
      BY <1>1, <1>3, <1>4 DEF TypeOK
    <2> QED
      BY <1>1, <2>1 DEF Basic, IInv, Ctl, Asks, Own
  <1>6. (\A d \in Clients : SettledInv(d))'
    <2>1. SettledInv(s.run)'
      BY <1>1, <1>2, <1>4, NamesAssumption DEF IInv, SettledInv, Settled, At, LateInv
    <2> QED
      BY <1>1, <1>2, <1>4, <2>1, SettledKeeps
  <1>7. RemoteInv'
    <2>1. PICK q \in Clients \cup {None} :
            Benign(q) /\ (q # None => q = s.run /\ s.op \in Claims)
      BY <1>1, <1>2, ExecuteBenign
    <2>2. q # None => Fresh(q) /\ ~Fresh(q)'
      BY <1>1, <1>2, <2>1 DEF Fresh, LateInv
    <2>3. Fresh(s.run)' => Fresh(s.run)
      BY <1>1 DEF Fresh
    <2>4. \A t \in late' : LateInv(t)'
      BY <1>1 DEF IInv, RemoteInv, LateInv, Asks, Own
    <2> QED
      BY <1>1, <1>2, <2>1, <2>2, <2>3, <2>4, RemoteKeeps
  <1> QED
    BY <1>1, <1>2, <1>4, <1>5, <1>6, <1>7, RemoteParts

\* What an operation that returns changes in its controller.
Returned(k, ok, j) ==
  /\ j.pc = IF k.op \in Claims /\ ~ok THEN "idle" ELSE IF k.op = "remove" THEN "ended"
            ELSE IF k.op = "clear" /\ ok THEN "next" ELSE "held"
  /\ j.op = IF k.op = "clear" /\ ok THEN "start" ELSE k.op
  /\ j.session = IF k.op \in {"start", "stop"} /\ ~ok THEN "unsure" ELSE IF k.op = "start" THEN "running"
                 ELSE IF k.op = "stop" THEN "stopped" ELSE k.session
  /\ j.expected = IF k.op \in Claims \cup {"replace"} /\ ok THEN k.new ELSE k.expected
  /\ j.ok = k.ok /\ j.new = k.new

LEMMA AfterFields ==
  ASSUME NEW k \in Controllers, k.op # "none", NEW ok \in BOOLEAN
  PROVE  Returned(k, ok, After(k, ok))
  <1> DEFINE j == After(k, ok)
  <1> SUFFICES Returned(k, ok, j)
    OBVIOUS
  <1>1. k.op \in Ops
    BY DEF Controllers
  <1>2. CASE k.op \in Claims
    <2>1. j = IF ok THEN [k EXCEPT !.pc = "held", !.expected = k.new] ELSE [k EXCEPT !.pc = "idle"]
      BY <1>2, AfterIs
    <2> QED
      BY <1>2, <2>1 DEF Returned, Controllers, Claims
  <1>3. CASE k.op \in {"replace", "remove"}
    <2>1. j = IF k.op = "remove" THEN [k EXCEPT !.pc = "ended"]
              ELSE IF ok THEN [k EXCEPT !.pc = "held", !.expected = k.new] ELSE [k EXCEPT !.pc = "held"]
      BY <1>3, AfterIs
    <2> QED
      BY <1>3, <2>1 DEF Returned, Controllers, Claims
  <1>4. CASE k.op \in SessionOps
    <2>1. j = AfterSession(k, ok)
      BY <1>4, AfterIs
    <2> HIDE DEF j
    <2>2. CASE k.op = "clear"
      <3>1. j = IF ok THEN [k EXCEPT !.op = "start", !.pc = "next"] ELSE [k EXCEPT !.pc = "held"]
        BY <2>1, <2>2, AfterSessionIs
      <3> QED
        BY <2>2, <3>1 DEF Returned, Controllers, Claims
    <2>3. CASE k.op \in {"start", "stop"}
      <3>1. j = [k EXCEPT !.pc = "held", !.session = IF ~ok THEN "unsure" ELSE IF k.op = "start"
                                                     THEN "running" ELSE "stopped"]
        BY <2>1, <2>3, AfterSessionIs
      <3> QED
        BY <2>3, <3>1 DEF Returned, Controllers, Claims
    <2> QED
      BY <1>4, <2>2, <2>3 DEF SessionOps
  <1> QED
    BY <1>1, <1>2, <1>3, <1>4 DEF Ops, Claims

\* One controller moves from client[c] to j, on a remote Host.
LEMMA RemoteMove ==
  ASSUME IInv, place = "ssh", UNCHANGED <<place, mutex, known, broken>>, SessionUnderLock',
         faults' \in 0..MaxFaults, deaths' \in 0..MaxDeaths,
         file' \in Lock \cup {None}, maya' \in Clients \cup {None, Standing},
         NEW c \in Clients, NEW j, Becomes(c, j), Good(c, j), SettledInv(c)',
         maya' \in {maya, None, c},
         NEW s, s = Script(c),
         late' = late \/ (late' = late \cup {s} /\ Remote(c, "call") /\ LateInv(s)'),
         ~At(c, "ended"), client[c].op = "remove" => j.op = "remove",
         client[c].session = "unsure" => j.session = "unsure",
         At(c, "doubt") /\ Fresh(c) => j = [client[c] EXCEPT !.pc = "ended"],
         NEW q \in Clients \cup {None}, Benign(q), q # None => Fresh(q) /\ ~Fresh(q)',
         Fresh(c)' => Fresh(c),
         At(c, "judge")' => Judged(client[c].seen)',
         At(c, "call")' /\ j.op = "reclaim" => Reclaiming(client[c].seen)'
  PROVE  IInv'
  <1> DEFINE k == client[c]
  <1>1. TypeOK /\ k \in Controllers
    BY DEF IInv, TypeOK
  <1>2. client'[c] = j /\ \A d \in Clients \ {c} : client'[d] = client[d]
    BY <1>1, Becoming
  <1>3. Basic'
    <2>1. client' \in [Clients -> Controllers] /\ (\A d \in Clients : Ctl(d, client[d]))'
      BY <1>1, BecomingGood DEF IInv
    <2>2. late' \subseteq Scripts
      BY <1>1, ScriptLegit DEF TypeOK, Legit
    <2> QED
      BY <1>1, <2>1, <2>2 DEF Basic, TypeOK
  <1>4. (\A d \in Clients : SettledInv(d))'
    BY <1>2, SettledKeeps
  <1>5. ASSUME NEW t \in late', t.run = c PROVE LateInv(t)'
    <2>1. CASE t \in late
      <3>1. LateInv(t)
        BY <2>1 DEF IInv, RemoteInv
      <3>2. ASSUME t.op \in Claims
            PROVE  j.op \in Claims /\ j.pc = "ended" /\ j.expected = None /\ late' = late
        <4>1. k.pc = "doubt" /\ Fresh(c) /\ k.op \in Claims /\ k.expected = None
          BY <1>5, <2>1, <3>1, <3>2 DEF LateInv, Fresh, At
        <4>2. j = [k EXCEPT !.pc = "ended"]
          BY <4>1 DEF At
        <4> QED
          BY <1>1, <4>1, <4>2 DEF Controllers, Remote, At
      <3> QED
        BY <1>2, <1>5, <2>1, <3>1, <3>2 DEF LateInv, Asks, Own, At
    <2>2. CASE t \notin late
      BY <1>5, <2>2
    <2> QED
      BY <2>1, <2>2
  <1>6. Script(c) \in late' \ late /\ k.op = "reclaim" => Reclaiming(k.seen)
    BY DEF IInv, RemoteInv, Remote
  <1>7. RemoteInv'
    BY <1>2, <1>5, <1>6, RemoteKeeps
  <1> QED
    BY <1>3, <1>4, <1>7, RemoteParts

LEMMA AnsweredKeeps ==
  ASSUME IInv, NEW c \in Clients, Answered(c)
  PROVE  IInv'
  <1> DEFINE k == client[c]
             s == Script(c)
             ok == Takes(s)
  <1>1. /\ Remote(c, "call") /\ k.pc = "call" /\ place = "ssh" /\ Execute(s)
        /\ late' = late /\ place' = place /\ broken' = broken /\ known' = known
        /\ mutex' = mutex /\ faults' = faults /\ deaths' = deaths
    BY DEF Answered, Remote, At, lockVars
  <1>2. Legit(s) /\ s.run = c /\ s.op = k.op /\ (k.op \in Claims => Fresh(c)) /\ ok \in BOOLEAN
    BY <1>1, ScriptLegit DEF Script, Takes, AcquireTakes, ReclaimTakes, ReplaceTakes, RemoveTakes, FenceTakes,
       Fenced, Is, OwnedBy, Expired, Legit, Scripts, Ops, SessionOps
  <1>3. TypeOK /\ SessionUnderLock /\ Good(c, k) /\ SettledInv(c) /\ k.op # "none" /\ k.pc \in Pending
    BY <1>1 DEF IInv, Good, TypeOK, Ctl, Pending
  <1>4. /\ file' \in Lock \cup {None} /\ maya' \in Clients \cup {None, Standing}
        /\ SessionUnderLock' /\ (maya' \in {maya, None} \/ (k.op = "start" /\ maya' = c))
    BY <1>1, <1>2, <1>3, ExecuteKeeps
  <1>5. ASSUME NEW j, Becomes(c, j), Good(c, j), SettledInv(c)',
               j.op = "remove" \/ k.op # "remove", k.session = "unsure" => j.session = "unsure",
               j.pc # "call",
               NEW q \in Clients \cup {None}, Benign(q),
               q # None => q = c /\ k.op \in Claims /\ j.op \in Claims /\ j.pc = "held",
               j.op \in Claims \cup {"none"} /\ j.pc \in {"idle", "judge"} => Fresh(c),
               At(c, "judge")' => Judged(client[c].seen)'
        PROVE  IInv'
    <2>1. client'[c] = j
      BY <1>3, <1>5, Becoming
    <2>2. \A t \in late : t.run = c => t.op \notin Claims
      BY <1>1 DEF IInv, RemoteInv, LateInv
    <2>3. q # None => Fresh(q) /\ ~Fresh(q)'
      BY <1>1, <1>2, <1>5, <2>1, <2>2 DEF Fresh
    <2>4. Fresh(c)' => Fresh(c)
      BY <1>1, <1>5, <2>1 DEF Fresh
    <2>5. ~At(c, "call")' /\ ~At(c, "ended") /\ ~At(c, "doubt")
      BY <1>1, <1>5, <2>1 DEF At
    <2>6. faults' \in 0..MaxFaults /\ deaths' \in 0..MaxDeaths /\ maya' \in {maya, None, c}
      BY <1>1, <1>3, <1>4 DEF TypeOK
    <2> QED
      BY <1>1, <1>4, <1>5, <2>3, <2>4, <2>5, <2>6, RemoteMove
  <1>6. CASE k.op \in Claims /\ ~ok /\ MayJudge(c)
    <2> DEFINE j == [k EXCEPT !.pc = "judge", !.seen = file]
    <2>1. Becomes(c, j) /\ UNCHANGED <<file, maya>> /\ Expired /\ file \in Lock
      BY <1>1, <1>3, <1>6 DEF Answered, Judge, Becomes, MayJudge, Execute, Claims, Expired, TypeOK
    <2>2. /\ j \in Controllers /\ j.pc = "judge" /\ j.op = k.op /\ j.seen = file
          /\ j.expected = k.expected /\ j.new = k.new /\ j.session = k.session
      BY <1>3, <2>1 DEF Good, Controllers
    <2> HIDE DEF j
    <2>3. Good(c, j)
      BY <1>1, <1>3, <1>6, <2>2 DEF Good, Ctl, Claims, SessionOps, Pending, Waits, Mutexed
    <2>4. client'[c] = j /\ \A d \in Clients \ {c} : client'[d] = client[d]
      BY <1>3, <2>1, Becoming
    <2>5. SettledInv(c)'
      BY <1>1, <1>3, <2>1, <2>2, <2>4 DEF SettledInv, Settled, At
    <2>6. Judged(client[c].seen)'
      <3>0. PICK x : x = file
        OBVIOUS
      <3>1. x \in Lock /\ x.content.run \in Clients /\ ~Fresh(x.content.run) /\ x # None
        BY <1>1, <2>1, <3>0 DEF IInv, RemoteInv, OwnedBy, Expired, Lock, Content
      <3>2. ~Fresh(x.content.run)'
        BY <1>1, <1>2, <1>6, <2>2, <2>4, <3>1 DEF Fresh
      <3>3. MovedOn(x)' /\ x.expired /\ x.content.state # "kept"
        BY <2>1, <3>0, <3>1 DEF MovedOn, OwnedBy, Expired
      <3>4. Judged(x)'
        BY <3>1, <3>2, <3>3 DEF Judged
      <3> QED
        BY <2>2, <2>4, <3>0, <3>4
    <2>7. Benign(None)
      BY <2>1, StillBenign
    <2>8. j.op = "remove" \/ k.op # "remove"
      BY <2>2
    <2> QED
      BY <1>2, <1>5, <1>6, <2>1, <2>2, <2>3, <2>5, <2>6, <2>7, <2>8
  <1>7. CASE ~(k.op \in Claims /\ ~ok /\ MayJudge(c))
    <2> DEFINE j == After(k, ok)
    <2>1. Becomes(c, j)
      BY <1>7 DEF Answered, Return, Becomes, Claims
    <2>2. Good(c, j)
      BY <1>2, <1>3, GoodAfter
    <2>3. Returned(k, ok, j)
      BY <1>2, <1>3, AfterFields DEF Good
    <2>4. client'[c] = j
      BY <1>3, <2>1, Becoming
    <2>5. k.op \in {"clear", "stop"} /\ ok => maya' = None
      BY <1>1, <1>2, ExecuteIs DEF SessionOps
    <2>6. k.session = "unsure" => k.op \notin SessionOps
      BY <1>3 DEF Good, Ctl, SessionOps
    <2> HIDE DEF j, ok
    <2>7. SettledInv(c)'
      <3>1. CASE k.op \in {"start", "stop"}
        BY <1>1, <1>2, <1>3, <1>4, <2>3, <2>4, <2>5, <3>1, NamesAssumption
           DEF Returned, SettledInv, Settled, At, Good, Ctl, Pending
      <3>2. CASE k.op = "clear"
        BY <1>1, <1>2, <1>3, <1>4, <2>3, <2>4, <2>5, <3>2, NamesAssumption
           DEF Returned, SettledInv, Settled, At
      <3>3. CASE k.op \notin {"clear", "start", "stop"}
        BY <1>1, <1>2, <1>3, <1>4, <2>3, <2>4, <3>3, NamesAssumption
           DEF Returned, SettledInv, Settled, At
      <3> QED
        BY <3>1, <3>2, <3>3
    <2>8. \E q \in Clients \cup {None} : /\ Benign(q)
                                         /\ q # None => q = c /\ k.op \in Claims /\ ok
      BY <1>1, <1>2, ExecuteBenign DEF ok
    <2>9. (j.op = "remove" \/ k.op # "remove") /\ j.pc \notin {"call", "judge"}
      BY <2>3 DEF Returned
    <2>10. k.session = "unsure" => j.session = "unsure"
      BY <2>3, <2>6 DEF Returned, SessionOps
    <2>11. j.op \in Claims \cup {"none"} /\ j.pc \in {"idle", "judge"} => Fresh(c)
      BY <1>2, <2>3 DEF Returned, Claims
    <2>12. k.op \in Claims /\ ok => j.op \in Claims /\ j.pc = "held"
      BY <2>3 DEF Returned, Claims
    <2>13. ~At(c, "judge")'
      BY <2>4, <2>9 DEF At
    <2> QED
      BY <1>5, <2>1, <2>2, <2>7, <2>8, <2>9, <2>10, <2>11, <2>12, <2>13
  <1> QED
    BY <1>6, <1>7

\* A controller that gives up on a script, whether or not it ran.
InDoubt(k, j) ==
  /\ j.op = k.op /\ j.expected = k.expected
  /\ j.pc = IF k.op \in SessionOps THEN "held" ELSE "doubt"
  /\ j.session = IF k.op \in {"start", "stop"} THEN "unsure" ELSE k.session

LEMMA DoubtIs ==
  ASSUME IInv, NEW c \in Clients, Remote(c, "call"), Doubt(c)
  PROVE  \E j : Becomes(c, j) /\ Good(c, j) /\ InDoubt(client[c], j)
  <1> DEFINE k == client[c]
  <1>1. Good(c, k) /\ k \in Controllers /\ k.pc = "call" /\ k.pc \in Pending /\ place = "ssh" /\ k.op # "none"
    BY DEF IInv, Good, TypeOK, Remote, At, Pending, Ctl
  <1>2. CASE k.op \in SessionOps
    <2>1. Becomes(c, After(k, FALSE)) /\ Good(c, After(k, FALSE)) /\ Returned(k, FALSE, After(k, FALSE))
      BY <1>1, <1>2, AfterIs, AfterFields, GoodAfter, ZenonT(40) DEF Doubt, Becomes
    <2>2. InDoubt(k, After(k, FALSE))
      BY <1>2, <2>1 DEF Returned, InDoubt, SessionOps, Claims
    <2> QED
      BY <2>1, <2>2
  <1>3. CASE k.op \notin SessionOps
    <2> DEFINE j == [k EXCEPT !.pc = "doubt"]
    <2>1. Becomes(c, j)
      BY <1>3 DEF Doubt, Becomes
    <2>2. /\ j \in Controllers /\ j.pc = "doubt" /\ j.op = k.op /\ j.expected = k.expected
          /\ j.new = k.new /\ j.session = k.session
      BY <1>1 DEF Controllers
    <2> HIDE DEF j
    <2>3. Good(c, j)
      BY <1>1, <1>3, <2>2 DEF Good, Ctl, Claims, SessionOps, Pending, Waits, Mutexed
    <2> QED
      BY <1>3, <2>1, <2>2, <2>3 DEF InDoubt, SessionOps
  <1> QED
    BY <1>2, <1>3

LEMMA GaveUpKeeps ==
  ASSUME IInv, NEW c \in Clients, AnswerLost(c) \/ TimedOut(c)
  PROVE  IInv'
  <1> DEFINE k == client[c]
  <1>0. PICK s : s = Script(c)
    OBVIOUS
  <1>1. /\ Remote(c, "call") /\ k.pc = "call" /\ place = "ssh" /\ UNCHANGED <<place, mutex, known, broken>>
        /\ deaths' = deaths /\ faults < MaxFaults /\ faults' = faults + 1 /\ Doubt(c)
        /\ \/ Execute(s) /\ late' = late
           \/ UNCHANGED <<file, maya>> /\ late' = late \cup {s}
    BY <1>0 DEF AnswerLost, TimedOut, Remote, At, lockVars, Fault
  <1>2. Legit(s) /\ s.run = c /\ s.op = k.op /\ s.expected = k.expected /\ s.new = k.new
        /\ (k.op \in Claims => Fresh(c))
    BY <1>0, <1>1, ScriptLegit DEF Script
  <1>3. TypeOK /\ SessionUnderLock /\ Ctl(c, k) /\ SettledInv(c)
    BY DEF IInv
  <1>g. PICK j : Becomes(c, j) /\ Good(c, j) /\ InDoubt(k, j)
    BY <1>1, DoubtIs
  <1>4. /\ Becomes(c, j) /\ Good(c, j) /\ j.op = k.op /\ j.expected = k.expected
        /\ j.pc = IF k.op \in SessionOps THEN "held" ELSE "doubt"
        /\ j.session = IF k.op \in {"start", "stop"} THEN "unsure" ELSE k.session
    BY <1>g DEF InDoubt
  <1>5. client'[c] = j
    BY <1>3, <1>4, Becoming
  <1>6. /\ file' \in Lock \cup {None} /\ maya' \in Clients \cup {None, Standing}
        /\ SessionUnderLock' /\ (maya' \in {maya, None} \/ (k.op = "start" /\ maya' = c))
    <2>1. CASE Execute(s)
      BY <1>1, <1>2, <1>3, <2>1, ExecuteKeeps
    <2>2. CASE UNCHANGED <<file, maya>>
      BY <1>1, <1>3, <2>2 DEF TypeOK, SessionUnderLock, OwnedBy
    <2> QED
      BY <1>1, <2>1, <2>2
  <1>7. SettledInv(c)'
    BY <1>1, <1>2, <1>3, <1>4, <1>5, <1>6, NamesAssumption DEF SettledInv, Settled, At, Ctl, Pending
  <1>8. \A t \in late : t.run = c => t.op \notin Claims
    BY <1>1 DEF IInv, RemoteInv, LateInv
  <1>9. PICK q \in Clients \cup {None} : Benign(q) /\ (q # None => q = c /\ k.op \in Claims /\ late' = late)
    <2>1. CASE Execute(s) /\ late' = late
      BY <1>1, <1>2, <2>1, ExecuteBenign
    <2>2. CASE UNCHANGED <<file, maya>>
      BY <2>2, StillBenign
    <2> QED
      BY <1>1, <2>1, <2>2
  <1>10. q # None => Fresh(q) /\ ~Fresh(q)'
    BY <1>2, <1>4, <1>5, <1>8, <1>9 DEF Fresh, Claims, SessionOps
  <1>11. Fresh(c)' => Fresh(c)
    BY <1>1, <1>2, <1>4, <1>5, <1>8 DEF Fresh, Claims, SessionOps
  <1>12. ASSUME late' = late \cup {s} PROVE LateInv(s)'
    <2>1. s.op \in Claims => j.expected = None /\ j.pc = "doubt"
      BY <1>1, <1>2, <1>3, <1>4 DEF Ctl, Claims, SessionOps
    <2>2. \A t \in late' : t.op \in Claims /\ t.run = c => t = s
      BY <1>8, <1>12
    <2> QED
      BY <1>1, <1>2, <1>4, <1>5, <2>1, <2>2 DEF LateInv, Legit, Asks, Own
  <1>13. j.pc \in {"held", "doubt"} /\ (k.session = "unsure" => j.session = "unsure")
    BY <1>4
  <1>14. ~At(c, "ended") /\ ~At(c, "doubt") /\ ~At(c, "judge")' /\ ~At(c, "call")'
    BY <1>1, <1>5, <1>13 DEF At
  <1>15. faults' \in 0..MaxFaults /\ deaths' \in 0..MaxDeaths
    BY <1>1, <1>3, BoundAssumption DEF TypeOK
  <1> QED
    BY <1>0, <1>1, <1>4, <1>6, <1>7, <1>9, <1>10, <1>11, <1>12, <1>13, <1>14, <1>15, RemoteMove

\* A controller in doubt ends, goes on, or sends its script again.
LEMMA DoubtEnds ==
  ASSUME IInv, NEW c \in Clients, Remote(c, "doubt"), Quiet, NEW j, Becomes(c, j),
         \/ j = [client[c] EXCEPT !.pc = "ended"]
         \/ /\ client[c].op \in Claims => Is(client[c].new)
            /\ \/ j = After(client[c], TRUE)
               \/ client[c].op \notin Claims /\ j = After(client[c], FALSE)
               \/ client[c].op \notin Claims /\ j = [client[c] EXCEPT !.pc = "call", !.attempt = @ + 1]
  PROVE  IInv'
  <1> DEFINE k == client[c]
  <1>1. /\ Good(c, k) /\ k \in Controllers /\ k.pc = "doubt" /\ k.pc \in Pending /\ place = "ssh"
        /\ k.op \notin SessionOps /\ k.op # "none" /\ TypeOK /\ SettledInv(c)
    BY DEF IInv, Good, TypeOK, Remote, At, Pending, Ctl
  <1>2. /\ Good(c, j) /\ j.op = k.op /\ j.session = k.session
        /\ j.pc \in {"ended", "held", "call"} /\ (j.pc = "call" => k.op \notin Claims)
        /\ Fresh(c) /\ k.op \in Claims => j = [k EXCEPT !.pc = "ended"]
    <2>1. ASSUME Fresh(c), k.op \in Claims PROVE ~Is(k.new)
      BY <1>1, <2>1 DEF IInv, RemoteInv, Is, OwnedBy, Good, Ctl, Asks, First
    <2>2. CASE j = [k EXCEPT !.pc = "ended"]
      BY <1>1, <2>2, GoodEnd DEF Controllers
    <2>3. ASSUME NEW ok \in BOOLEAN, j = After(k, ok), k.op \in Claims => ok
          PROVE  /\ Good(c, j) /\ j.op = k.op /\ j.session = k.session
                 /\ j.pc \in {"ended", "held", "call"} /\ (j.pc = "call" => k.op \notin Claims)
      <3>1. Good(c, j) /\ Returned(k, ok, j)
        BY <1>1, <2>3, GoodAfter, AfterFields
      <3> QED
        BY <1>1, <2>3, <3>1 DEF Returned, SessionOps, Claims
    <2>4. CASE k.op \notin Claims /\ j = [k EXCEPT !.pc = "call", !.attempt = @ + 1]
      <3>0. k.attempt + 1 \in Nat
        BY <1>1 DEF Controllers
      <3>1. /\ j \in Controllers /\ j.pc = "call" /\ j.op = k.op /\ j.expected = k.expected
            /\ j.new = k.new /\ j.session = k.session
        BY <1>1, <2>4, <3>0 DEF Controllers
      <3>2. Good(c, j)
        BY <1>1, <2>4, <3>1 DEF Good, Ctl, Claims, SessionOps, Pending, Waits, Mutexed
      <3> QED
        BY <2>4, <3>1, <3>2
    <2> QED
      BY <2>1, <2>2, <2>3, <2>4
  <1>3. client'[c] = j
    BY <1>1, Becoming
  <1>4. Fresh(c) => k.op \in Claims
    BY <1>1 DEF IInv, RemoteInv, LateInv, Fresh
  <1>5. SettledInv(c)'
    BY <1>1, <1>2, <1>3 DEF SettledInv, Settled, At, Quiet, SessionOps
  <1>6. Fresh(c)' => Fresh(c)
    BY <1>1, <1>2, <1>3 DEF Fresh, Quiet, Claims
  <1>7. Benign(None)
    BY StillBenign DEF Quiet
  <1>8. ~At(c, "judge")' /\ ~(At(c, "call")' /\ j.op = "reclaim") /\ ~At(c, "ended")
    BY <1>1, <1>2, <1>3 DEF At, Claims
  <1>9. SessionUnderLock'
    BY DEF IInv, SessionUnderLock, OwnedBy, Quiet
  <1>10. /\ faults' \in 0..MaxFaults /\ deaths' \in 0..MaxDeaths /\ late' = late
         /\ file' \in Lock \cup {None} /\ maya' \in Clients \cup {None, Standing} /\ maya' = maya
         /\ UNCHANGED <<place, mutex, known, broken>>
    BY <1>1 DEF TypeOK, Quiet
  <1> QED
    BY <1>1, <1>2, <1>3, <1>4, <1>5, <1>6, <1>7, <1>8, <1>9, <1>10, RemoteMove

LEMMA ReadKeeps ==
  ASSUME IInv, NEW c \in Clients, ReadState(c) \/ ReadFails(c)
  PROVE  IInv'
  <1> DEFINE k == client[c]
  <1>1. Remote(c, "doubt") /\ Quiet /\ k \in Controllers /\ k.op \in Claims \cup {"replace", "remove"}
    BY DEF ReadState, ReadFails, IInv, TypeOK, Controllers, Ctl, Remote, At, Pending, Ops, Claims
  <1> DEFINE more == [k EXCEPT !.pc = "call", !.attempt = @ + 1]
  <1>2. ASSUME NEW n, Again(c, n) PROVE Becomes(c, more) \/ Becomes(c, After(k, FALSE))
    BY <1>2 DEF Again, Return, Becomes
  <1>3. CASE k.op \in Claims
    <2>1. \/ Becomes(c, [k EXCEPT !.pc = "ended"])
          \/ Is(k.new) /\ Becomes(c, After(k, TRUE))
      BY <1>3 DEF ReadState, ReadFails, Becomes, Claims
    <2> QED
      BY <1>1, <2>1, DoubtEnds
  <1>4. CASE k.op \in {"replace", "remove"}
    <2>1. \/ Becomes(c, After(k, TRUE)) \/ Becomes(c, After(k, FALSE)) \/ Becomes(c, more)
      BY <1>2, <1>4 DEF ReadState, ReadFails, Return, Becomes
    <2>2. k.op \notin Claims
      BY <1>4 DEF Claims
    <2> QED
      BY <1>1, <2>1, <2>2, DoubtEnds
  <1> QED
    BY <1>1, <1>3, <1>4

LEMMA ReclaimKeeps ==
  ASSUME IInv, NEW c \in Clients, Reclaim(c)
  PROVE  IInv'
  <1> DEFINE k == client[c]
             j == [k EXCEPT !.pc = IF SessionInactive THEN "call" ELSE "idle",
                            !.op = "reclaim", !.attempt = @ + 1]
  <1>1. /\ TypeOK /\ Good(c, k) /\ SettledInv(c) /\ k \in Controllers /\ k.pc = "judge" /\ place = "ssh"
        /\ Quiet /\ Becomes(c, j) /\ k.op \in Claims
    BY DEF IInv, TypeOK, Good, Reclaim, Remote, At, Becomes, Ctl
  <1>2. k.attempt + 1 \in Nat
    BY <1>1 DEF Controllers
  <1>3. /\ j \in Controllers /\ j.pc \in {"call", "idle"} /\ (j.pc = "call" => maya = None)
        /\ j.op = "reclaim" /\ j.seen = k.seen /\ j.new = k.new /\ j.expected = k.expected
        /\ j.session = k.session
    BY <1>1, <1>2 DEF Controllers, Ops, SessionInactive
  <1> HIDE DEF j
  <1>4. Good(c, j)
    BY <1>1, <1>3 DEF Good, Ctl, Claims, Asks, Ops, SessionOps, Pending, Waits, Mutexed
  <1>5. client'[c] = j /\ \A d \in Clients \ {c} : client'[d] = client[d]
    BY <1>1, Becoming
  <1>6. SettledInv(c)'
    BY <1>1, <1>3, <1>5, NamesAssumption DEF SettledInv, Settled, At, Quiet, Claims, Good, Ctl
  <1>7. \A d \in Clients : Fresh(d)' => Fresh(d)
    BY <1>1, <1>3, <1>5 DEF Fresh, Quiet
  <1>8. j.pc = "call" => Reclaiming(client[c].seen)'
    <2>1. PICK x : x = k.seen
      OBVIOUS
    <2>2. Judged(x) /\ x.content.run \in Clients
      BY <1>1, <2>1 DEF IInv, RemoteInv, At, Judged, Lock, Content
    <2>3. Judged(x)'
      BY <1>1, <1>7, <2>2 DEF Judged, MovedOn, OwnedBy, Quiet
    <2>4. j.pc = "call" => Reclaiming(x)'
      BY <1>1, <1>3, <2>3 DEF Reclaiming, Is, Quiet
    <2> QED
      BY <1>3, <1>5, <2>1, <2>4
  <1>9. Benign(None)
    BY <1>1, StillBenign DEF Quiet
  <1>10. ~At(c, "judge")' /\ (At(c, "call")' => j.pc = "call") /\ ~At(c, "ended") /\ ~At(c, "doubt")
    BY <1>1, <1>3, <1>5 DEF At
  <1>11. /\ faults' \in 0..MaxFaults /\ deaths' \in 0..MaxDeaths /\ late' = late
         /\ file' \in Lock \cup {None} /\ maya' \in Clients \cup {None, Standing} /\ maya' = maya
         /\ UNCHANGED <<place, mutex, known, broken>>
    BY <1>1 DEF TypeOK, Quiet
  <1>12. SessionUnderLock'
    BY <1>1 DEF IInv, SessionUnderLock, OwnedBy, Quiet
  <1>13. k.op # "remove" /\ k.session = j.session
    BY <1>1, <1>3 DEF Claims
  <1> QED
    BY <1>1, <1>3, <1>4, <1>6, <1>7, <1>8, <1>9, <1>10, <1>11, <1>12, <1>13, RemoteMove

\* The killed process of a remote lock leaves its script on its way.
LEMMA RemoteDieKeeps ==
  ASSUME IInv, place = "ssh", NEW c \in Clients, Die(c)
  PROVE  IInv'
  <1> DEFINE k == client[c]
             j == [k EXCEPT !.pc = "ended"]
  <1>0. PICK s : s = Script(c)
    OBVIOUS
  <1>1. /\ TypeOK /\ Good(c, k) /\ SettledInv(c) /\ k \in Controllers /\ k.pc \notin {"ended", "idle"}
        /\ Becomes(c, j) /\ k.op # "none" /\ UNCHANGED <<place, file, mutex, maya, known, broken, faults>>
        /\ late' = late \/ (late' = late \cup {s} /\ Remote(c, "call"))
        /\ deaths < MaxDeaths /\ deaths' = deaths + 1
    BY <1>0 DEF IInv, TypeOK, Good, Die, Alive, At, Becomes, Ctl
  <1>2. Good(c, j)
    BY <1>1, GoodEnd
  <1>3. j.pc = "ended" /\ j.op = k.op /\ j.expected = k.expected /\ j.session = k.session
    BY <1>1 DEF Controllers
  <1>4. client'[c] = j
    BY <1>1, Becoming
  <1>5. SettledInv(c)'
    BY <1>1, <1>3, <1>4 DEF SettledInv, Settled, At
  <1>6. ASSUME Remote(c, "call"), late' = late \cup {s} PROVE LateInv(s)' /\ (s.op \in Claims => Fresh(c))
    <2>1. Legit(s) /\ s.run = c /\ s.op = k.op /\ s.expected = k.expected /\ s.new = k.new
          /\ (k.op \in Claims => Fresh(c)) /\ k.pc = "call"
      BY <1>0, <1>6, ScriptLegit DEF Script, Remote, At
    <2>2. k.op \in Claims => k.expected = None
      BY <1>1, <2>1 DEF Good, Ctl
    <2>3. \A t \in late' : t.op \in Claims /\ t.run = c => t = s
      BY <1>6, <2>1 DEF IInv, RemoteInv, LateInv
    <2> QED
      BY <1>1, <1>3, <1>4, <2>1, <2>2, <2>3, ZenonT(40) DEF LateInv, Legit, Asks, Own
  <1>7. Fresh(c)' => Fresh(c)
    BY <1>1, <1>3, <1>4, <1>6 DEF Fresh
  <1>8. Benign(None)
    BY <1>1, StillBenign
  <1>9. ~At(c, "judge")' /\ ~At(c, "call")' /\ ~At(c, "ended")
    BY <1>1, <1>3, <1>4 DEF At
  <1>10. /\ faults' \in 0..MaxFaults /\ deaths' \in 0..MaxDeaths
         /\ file' \in Lock \cup {None} /\ maya' \in Clients \cup {None, Standing} /\ maya' = maya
         /\ UNCHANGED <<place, mutex, known, broken>>
    BY <1>1, BoundAssumption DEF TypeOK
  <1>11. SessionUnderLock'
    BY <1>1 DEF IInv, SessionUnderLock, OwnedBy
  <1> HIDE DEF j
  <1> QED
    BY <1>0, <1>1, <1>2, <1>3, <1>5, <1>6, <1>7, <1>8, <1>9, <1>10, <1>11, RemoteMove DEF j

-----------------------------------------------------------------------------
(* The operator and the lease.                                             *)

\* No script is on its way to a lock on this machine.
LEMMA LocalRemote ==
  ASSUME IInv, place # "ssh", UNCHANGED <<place, late>>, Basic'
  PROVE  RemoteInv'
  <1>1. late = {}
    BY DEF IInv, RemoteInv, LateInv
  <1>2. \A d \in Clients : ~At(d, "judge")' /\ ~At(d, "call")'
    BY DEF Basic, Ctl, At
  <1> QED
    BY <1>1, <1>2 DEF RemoteInv

\* The lock or the session changes and no controller moves.
LEMMA EnvironmentKeeps ==
  ASSUME IInv, UNCHANGED <<place, mutex, late, client, known, faults, deaths>>,
         broken' \subseteq Breaks, broken' = {} => broken = {},
         file' \in Lock \cup {None}, maya' \in {maya, None}, Benign(None), SessionUnderLock',
         place # "ssh" /\ broken' = {} => \A c \in Clients : LocalInv(c)',
         place = "repo" /\ broken' = {} => \A c \in Clients : HolderInv(c)'
  PROVE  IInv'
  <1>1. TypeOK /\ RemoteInv
    BY DEF IInv
  <1>2. Basic'
    BY <1>1 DEF IInv, Basic, TypeOK, Ctl, Asks, Own
  <1>3. ASSUME NEW c \in Clients PROVE SettledInv(c)'
    BY NamesAssumption DEF IInv, SettledInv, Settled, At
  <1>4. RemoteInv'
    <2>1. CASE place = "ssh"
      <3>1. \A s \in late : LateInv(s)'
        BY <1>1 DEF RemoteInv, LateInv, Asks, Own
      <3>2. \A d \in Clients : Fresh(d)' => Fresh(d)
        BY DEF Fresh
      <3>3. ASSUME NEW c \in Clients PROVE RemoteInv'
        BY <2>1, <3>1, <3>2, RemoteKeeps
      <3>4. CASE Clients = {}
        BY <1>1, <3>1, <3>4 DEF RemoteInv, TypeOK, Scripts
      <3> QED
        BY <3>3, <3>4
    <2>2. CASE place # "ssh"
      BY <1>2, <2>2, LocalRemote
    <2> QED
      BY <2>1, <2>2
  <1>5. place' = "repo" => maya' = None
    BY DEF IInv
  <1> QED
    BY <1>2, <1>3, <1>4, <1>5 DEF IInv, Basic

LEMMA ExpireKeeps ==
  ASSUME IInv, Expire
  PROVE  IInv'
  <1>1. /\ place # "repo" /\ file # None /\ file' = [file EXCEPT !.expired = TRUE]
        /\ UNCHANGED <<place, mutex, late, maya, client, known, broken, faults, deaths>>
        /\ \A c \in Clients : client[c].op \in SessionOps => client[c].pc \notin {"out", "act"}
    BY DEF Expire, lockVars
  <1>2. TypeOK /\ SessionUnderLock /\ file \in Lock
    BY <1>1 DEF IInv, TypeOK
  <1>3. /\ file' \in Lock /\ file' # None /\ file'.content = file.content /\ file'.version = file.version
        /\ file'.expired
    BY <1>1, <1>2, NamesAssumption DEF Lock
  <1>4. Benign(None)
    BY <1>1, <1>3 DEF Benign, OwnedBy, MovedOn, Is
  <1>5. SessionUnderLock'
    BY <1>1, <1>2, <1>3 DEF SessionUnderLock, OwnedBy
  <1>6. ASSUME NEW c \in Clients, LocalInv(c) PROVE LocalInv(c)'
    <2>1. Ctl(c, client[c])
      BY DEF IInv
    <2>2. LockStale => LockStale'
      BY <1>1, <1>3 DEF LockStale, Expired, SessionInactive
    <2> QED
      BY <1>1, <1>3, <1>6, <2>1, <2>2 DEF LocalInv, OwnedBy, Is, At, Mutexed, Ctl
  <1>7. broken' \subseteq Breaks
    BY <1>1, <1>2 DEF TypeOK
  <1> QED
    BY <1>1, <1>3, <1>4, <1>5, <1>6, <1>7, EnvironmentKeeps DEF IInv

LEMMA StopRetainedKeeps ==
  ASSUME IInv, NEW r \in Clients, StopRetained(r)
  PROVE  IInv'
  <1>1. /\ maya = r /\ maya' = None
        /\ UNCHANGED <<place, file, mutex, late, client, known, broken, faults, deaths>>
    BY DEF StopRetained, lockVars
  <1>2. TypeOK /\ place # "repo"
    BY <1>1, NamesAssumption DEF IInv
  <1>3. Benign(None)
    BY <1>1 DEF Benign, OwnedBy, MovedOn, Is
  <1>4. SessionUnderLock'
    BY <1>1, NamesAssumption DEF SessionUnderLock
  <1>5. ASSUME NEW c \in Clients, LocalInv(c) PROVE LocalInv(c)'
    <2>1. LockStale => LockStale'
      BY <1>1 DEF LockStale, Expired, SessionInactive, Alive, At
    <2> QED
      BY <1>1, <1>5, <2>1 DEF LocalInv, OwnedBy, Is, At
  <1> QED
    BY <1>1, <1>2, <1>3, <1>4, <1>5, EnvironmentKeeps DEF IInv, TypeOK

\* A stop that breaks nothing takes the lock from a Run without a session and,
\* in a checkout, without a process.
LEMMA Released ==
  ASSUME TypeOK, NEW r \in Clients, ReleaseForRun(r)
  PROVE  /\ OwnedBy(r) /\ MayStop(r) /\ file' = None
         /\ UNCHANGED <<place, maya, mutex, late, client, known, faults, deaths>>
         /\ \A c \in Clients : client[c].pc \notin Mutexed
         /\ broken' \subseteq Breaks /\ (broken' = {} => broken = {})
         /\ maya = r => broken' # {}
         /\ place = "repo" /\ Holds(r) => broken' # {}
  <1>1. /\ OwnedBy(r) /\ MayStop(r) /\ file' = None
        /\ UNCHANGED <<place, maya, mutex, late, client, known, faults, deaths>>
        /\ \A c \in Clients : client[c].pc \notin Mutexed
    BY DEF ReleaseForRun, Inside, Mutexed
  <1>2. /\ broken \subseteq broken' /\ broken' \subseteq Breaks
        /\ maya = r => "session" \in broken'
        /\ place = "repo" /\ Holds(r) => "lock" \in broken'
    BY DEF ReleaseForRun, TypeOK, Breaks
  <1> QED
    BY <1>1, <1>2

LEMMA ReleaseForRunKeeps ==
  ASSUME IInv, NEW r \in Clients, ReleaseForRun(r)
  PROVE  IInv'
  <1>0. TypeOK /\ SessionUnderLock
    BY DEF IInv
  <1>1. /\ OwnedBy(r) /\ MayStop(r) /\ file' = None
        /\ UNCHANGED <<place, maya, mutex, late, client, known, faults, deaths>>
        /\ \A c \in Clients : client[c].pc \notin Mutexed
        /\ broken' \subseteq Breaks /\ (broken' = {} => broken = {})
        /\ maya = r => broken' # {}
        /\ place = "repo" /\ Holds(r) => broken' # {}
    BY <1>0, Released
  <1>3. Benign(None)
    BY <1>1 DEF Benign, OwnedBy, MovedOn, Is
  <1>4. SessionUnderLock'
    BY <1>0, <1>1 DEF SessionUnderLock, OwnedBy
  <1>5. ASSUME NEW c \in Clients, LocalInv(c) PROVE LocalInv(c)'
    <2>1. Ctl(c, client[c])
      BY DEF IInv
    <2>2. ~(At(c, "act") /\ client[c].op # "stop")
      <3> SUFFICES ASSUME At(c, "act"), client[c].op # "stop" PROVE FALSE
        OBVIOUS
      <3>1. /\ Is(client[c].expected) /\ client[c].expected.run = c
            /\ client[c].expected.state = "active" /\ client[c].session = "none"
        BY <1>5, <2>1 DEF LocalInv, Ctl, Own, At, SessionOps
      <3>2. c = r /\ file.content.state = "active"
        BY <1>1, <3>1 DEF Is, OwnedBy
      <3> QED
        BY <1>1, <3>1, <3>2 DEF MayStop, Alive, At
    <2> QED
      BY <1>1, <1>5, <2>1, <2>2 DEF LocalInv, Is, At, Mutexed, Ctl
  <1>6. ASSUME NEW c \in Clients, HolderInv(c), place = "repo", broken' = {} PROVE HolderInv(c)'
    <2>1. ~Holds(c)
      <3> SUFFICES ASSUME Holds(c) PROVE FALSE
        OBVIOUS
      <3>1. Is(client[c].expected) /\ client[c].expected # None
        BY <1>1, <1>6 DEF HolderInv, Holds, At, Mutexed
      <3>2. client[c].expected.run = c
        BY <3>1 DEF IInv, Ctl, Own
      <3> QED
        BY <1>1, <1>6, <3>1, <3>2 DEF Is, OwnedBy
    <2> QED
      BY <1>1, <2>1 DEF HolderInv, Holds, Alive, At
  <1>7. place # "ssh" /\ broken' = {} => \A c \in Clients : LocalInv(c)'
    BY <1>1, <1>5 DEF IInv
  <1>8. place = "repo" /\ broken' = {} => \A c \in Clients : HolderInv(c)'
    BY <1>1, <1>6 DEF IInv
  <1>9. maya \in Clients \cup {None, Standing}
    BY <1>0 DEF TypeOK
  <1> QED
    BY <1>1, <1>3, <1>4, <1>7, <1>8, EnvironmentKeeps

-----------------------------------------------------------------------------
(* The steps of a lock behind a mutex file.                                *)

\* The controller of Run c moves to j; what is left to show is about the mutex.
LEMMA LocalMove ==
  ASSUME IInv, place # "ssh", UNCHANGED <<place, late, known>>, broken' \subseteq Breaks,
         faults' \in 0..MaxFaults, deaths' \in 0..MaxDeaths, file' \in Lock \cup {None},
         mutex' \in Clients \cup {None}, NEW c \in Clients, maya' \in {maya, None, c},
         place = "repo" => maya' = None,
         NEW j, Becomes(c, j), Good(c, j), SettledInv(c)', SessionUnderLock',
         broken' = {} => \A d \in Clients : LocalInv(d)',
         place = "repo" /\ broken' = {} => \A d \in Clients : HolderInv(d)'
  PROVE  IInv'
  <1>1. TypeOK /\ \A d \in Clients \ {c} : client'[d] = client[d]
    BY Becoming DEF IInv
  <1>2. Basic'
    <2>1. client' \in [Clients -> Controllers] /\ (\A d \in Clients : Ctl(d, client[d]))'
      BY <1>1, BecomingGood DEF IInv
    <2> QED
      BY <1>1, <2>1 DEF Basic, TypeOK
  <1>3. (\A d \in Clients : SettledInv(d))'
    BY <1>1, SettledKeeps
  <1>4. RemoteInv'
    BY <1>2, LocalRemote
  <1> QED
    BY <1>2, <1>3, <1>4 DEF IInv, Basic

\* What the controller knows of its session, when none starts or stops.
LEMMA LocalSettled ==
  ASSUME IInv, NEW c \in Clients, ~At(c, "ended"), maya' = maya, NEW j, client'[c] = j,
         j.op = client[c].op,
         j.session = client[c].session \/ (j.session = "unsure" /\ client[c].op \in {"start", "stop"}
                                           /\ client[c].pc \in Pending)
  PROVE  SettledInv(c)'
  <1>1. SettledInv(c) /\ Ctl(c, client[c])
    BY DEF IInv
  <1> QED
    BY <1>1 DEF SettledInv, Settled, At, Ctl

\* The other controllers, when the lock stays as it is ...
LEMMA SameFile ==
  ASSUME IInv, place # "ssh", broken = {}, UNCHANGED <<place, file>>,
         NEW c \in Clients, \A d \in Clients \ {c} : client'[d] = client[d], ~At(c, "ended"),
         maya' \in {maya, None} \/ (file # None /\ ~file.expired),
         \A d \in Clients \ {c} : client[d].pc \in Mutexed => mutex' = mutex
  PROVE  \A d \in Clients \ {c} : LocalInv(d)' /\ (place = "repo" => HolderInv(d)')
  <1> SUFFICES ASSUME NEW d \in Clients \ {c} PROVE LocalInv(d)' /\ (place = "repo" => HolderInv(d)')
    OBVIOUS
  <1>1. LocalInv(d) /\ (place = "repo" => HolderInv(d)) /\ client'[d] = client[d]
    BY DEF IInv
  <1>2. LockStale => LockStale'
    <2>1. \A e \in Clients : Alive(e)' => Alive(e)
      BY DEF Alive, At
    <2>2. file # None => file.content.run \in Clients
      BY DEF IInv, TypeOK, Lock, Content
    <2>3. place = "repo" => maya = None
      BY DEF IInv
    <2> QED
      BY <2>1, <2>2, <2>3 DEF LockStale, Expired, SessionInactive
  <1>3. LocalInv(d)'
    BY <1>1, <1>2 DEF LocalInv, OwnedBy, Is, At
  <1>4. place = "repo" => HolderInv(d)'
    BY <1>1 DEF HolderInv, Holds, Alive, At, Is
  <1> QED
    BY <1>3, <1>4

\* ... and when the process in the mutex writes or removes it.
LEMMA InMutex ==
  ASSUME IInv, place # "ssh", broken = {}, UNCHANGED <<place, mutex, maya>>,
         NEW c \in Clients, \A d \in Clients \ {c} : client'[d] = client[d],
         client[c].pc \in Mutexed,
         file = None \/ OwnedBy(c) \/ LockStale,
         file' = None \/ ~file'.expired
  PROVE  \A d \in Clients \ {c} : LocalInv(d)' /\ (place = "repo" => HolderInv(d)')
  <1> SUFFICES ASSUME NEW d \in Clients \ {c} PROVE LocalInv(d)' /\ (place = "repo" => HolderInv(d)')
    OBVIOUS
  <1>1. /\ LocalInv(c) /\ LocalInv(d) /\ (place = "repo" => HolderInv(d)) /\ client'[d] = client[d]
        /\ Ctl(d, client[d])
    BY DEF IInv
  <1>2. client[d].pc \notin Mutexed
    BY <1>1 DEF LocalInv
  <1>3. ~(At(d, "act") /\ client[d].op # "stop")
    <2> SUFFICES ASSUME At(d, "act"), client[d].op # "stop" PROVE FALSE
      OBVIOUS
    <2>1. /\ Is(client[d].expected) /\ client[d].expected.run = d /\ place # "repo" /\ file # None
          /\ ~file.expired
      BY <1>1 DEF LocalInv, At, Is, Ctl, Own
    <2> QED
      BY <2>1 DEF OwnedBy, Is, LockStale, Expired
  <1>4. LocalInv(d)'
    BY <1>1, <1>2, <1>3 DEF LocalInv, OwnedBy, Is, At, Mutexed
  <1>5. ASSUME place = "repo" PROVE HolderInv(d)'
    <2>1. ~Holds(d)
      <3> SUFFICES ASSUME Holds(d) PROVE FALSE
        OBVIOUS
      <3>1. Is(client[d].expected) /\ client[d].expected.run = d /\ Alive(d)
        BY <1>1, <1>2, <1>5 DEF HolderInv, Holds, At, Mutexed, Ctl, Own
      <3> QED
        BY <1>5, <3>1 DEF OwnedBy, Is, LockStale
    <2> QED
      BY <1>1, <2>1 DEF HolderInv, Holds, Alive, At
  <1> QED
    BY <1>4, <1>5

\* What is true of every step behind the mutex file.
LEMMA LocalFacts ==
  ASSUME IInv, place # "ssh", NEW c \in Clients
  PROVE  /\ TypeOK /\ Good(c, client[c]) /\ client[c] \in Controllers /\ SessionUnderLock
         /\ faults \in 0..MaxFaults /\ deaths \in 0..MaxDeaths /\ file \in Lock \cup {None}
         /\ mutex \in Clients \cup {None} /\ (place = "repo" => maya = None) /\ broken \subseteq Breaks
         /\ broken = {} => LocalInv(c) /\ (place = "repo" => HolderInv(c))
         /\ client[c].pc \in Pending => client[c].op # "none"
  BY DEF IInv, TypeOK, Good, Ctl

LEMMA SameLock ==
  ASSUME SessionUnderLock, UNCHANGED <<file, maya>>, broken' = {} => broken = {}
  PROVE  SessionUnderLock'
  BY DEF SessionUnderLock, OwnedBy

\* Waiting for the mutex.
LEMMA WaitKeeps ==
  ASSUME IInv, NEW c \in Clients, Link(c) \/ Examine(c) \/ Steal(c)
  PROVE  IInv'
  <1> DEFINE k == client[c]
  <1>1. PICK pc \in Waits \cup {"in"} :
          /\ Becomes(c, [k EXCEPT !.pc = pc]) /\ (pc = "in" => mutex = None /\ mutex' = c)
    BY DEF Link, Examine, Steal, Step, Becomes, Waits
  <1> DEFINE j == [k EXCEPT !.pc = pc]
  <1>0. /\ place # "ssh" /\ k.pc \in Waits /\ UNCHANGED <<place, file, late, maya, known, faults, deaths>>
        /\ mutex' \in {mutex, c, None} /\ (mutex' # mutex /\ mutex # None => Steal(c))
        /\ broken' = broken \/ Steal(c)
    BY DEF Link, Examine, Steal, Here, At, Outside, Waits
  <1>3. /\ TypeOK /\ Good(c, k) /\ k \in Controllers /\ SessionUnderLock /\ k.op # "none"
        /\ faults \in 0..MaxFaults /\ deaths \in 0..MaxDeaths /\ file \in Lock \cup {None}
        /\ mutex \in Clients \cup {None} /\ (place = "repo" => maya = None) /\ broken \subseteq Breaks
        /\ broken = {} => LocalInv(c) /\ (place = "repo" => HolderInv(c))
    BY <1>0, LocalFacts DEF Pending
  <1>2. /\ place # "ssh" /\ k.pc \in Waits /\ UNCHANGED <<place, file, late, maya, faults, deaths>>
        /\ mutex' \in {mutex, c, None} /\ (broken' = {} => broken = {}) /\ broken' \subseteq Breaks /\ known' = known
        /\ mutex' # mutex /\ mutex # None => broken' # {} \/ ~Alive(mutex)
    <2>1. CASE Steal(c)
      BY <1>0, <1>3, <2>1 DEF Steal, Outside, Breaks
    <2>2. CASE ~Steal(c)
      BY <1>0, <1>3, <2>2
    <2> QED
      BY <2>1, <2>2
  <1>4. Good(c, j)
    BY <1>2, <1>3, GoodStep DEF Waits, Mutexed
  <1>5. client'[c] = j /\ \A d \in Clients \ {c} : client'[d] = client[d]
    BY <1>1, <1>3, Becoming
  <1>6. j.pc = pc /\ j.op = k.op /\ j.session = k.session /\ j.expected = k.expected
    BY <1>3 DEF Controllers, Waits
  <1> HIDE DEF j
  <1>7. SettledInv(c)'
    BY <1>2, <1>5, <1>6, LocalSettled DEF At, Waits
  <1>8. SessionUnderLock'
    BY <1>2, <1>3, SameLock
  <1>9. ASSUME broken' = {} PROVE \A d \in Clients : LocalInv(d)' /\ (place = "repo" => HolderInv(d)')
    <2>1. broken = {} /\ ~At(c, "ended")
      BY <1>2, <1>9 DEF At, Waits
    <2>2. \A d \in Clients \ {c} : client[d].pc \in Mutexed => mutex' = mutex
      BY <1>2, <1>9, <2>1, NamesAssumption DEF IInv, LocalInv, Alive, At, Mutexed
    <2>3. \A d \in Clients \ {c} : LocalInv(d)' /\ (place = "repo" => HolderInv(d)')
      BY <1>2, <1>5, <2>1, <2>2, SameFile
    <2>4. LocalInv(c)'
      BY <1>1, <1>5, <1>6 DEF LocalInv, At, Waits, Mutexed
    <2>5. place = "repo" => HolderInv(c)'
      BY <1>2, <1>3, <1>5, <1>6, <2>1 DEF HolderInv, Holds, Alive, At, Is, Waits
    <2> QED
      BY <2>3, <2>4, <2>5
  <1> QED
    BY <1>1, <1>2, <1>3, <1>4, <1>7, <1>8, <1>9, LocalMove DEF j

\* The process inside the mutex moves to j, at pc.
Moved(c, pc, j) ==
  /\ Becomes(c, j) /\ Good(c, j) /\ client'[c] = j
  /\ j.pc = pc /\ j.op = client[c].op /\ j.new = client[c].new
  /\ j.expected = client[c].expected /\ j.session = client[c].session

LEMMA StepMoves ==
  ASSUME IInv, NEW c \in Clients, client[c].pc \in Mutexed, NEW pc \in Mutexed, Step(c, pc),
         pc \in {"look", "take"} => client[c].op = "acquire", pc = "write" => client[c].op \notin Claims
  PROVE  \E j : Moved(c, pc, j)
  <1>1. PICK j : j = [client[c] EXCEPT !.pc = pc]
    OBVIOUS
  <1>2. Becomes(c, j)
    BY <1>1 DEF Step, Becomes
  <1>3. TypeOK /\ client[c] \in Controllers /\ Good(c, client[c])
    BY DEF IInv, TypeOK, Good
  <1>4. Good(c, j)
    BY <1>1, <1>3, GoodStep
  <1>5. client'[c] = j
    BY <1>2, <1>3, Becoming
  <1> QED
    BY <1>1, <1>2, <1>3, <1>4, <1>5 DEF Moved, Controllers

LEMMA BodyMoves ==
  ASSUME IInv, NEW c \in Clients, client[c].pc \in Mutexed, NEW ok \in BOOLEAN, Body(c, ok)
  PROVE  \E j : Moved(c, "out", j) /\ j.ok = ok
  <1>1. PICK j : j = [client[c] EXCEPT !.pc = "out", !.ok = ok]
    OBVIOUS
  <1>2. Becomes(c, j)
    BY <1>1 DEF Body, Becomes
  <1>3. TypeOK /\ client[c] \in Controllers /\ Good(c, client[c])
    BY DEF IInv, TypeOK, Good
  <1>4. Good(c, j)
    BY <1>1, <1>3, GoodStep DEF Mutexed
  <1>5. client'[c] = j
    BY <1>2, <1>3, Becoming
  <1> QED
    BY <1>1, <1>2, <1>3, <1>4, <1>5 DEF Moved, Controllers

LEMMA BodyKeeps ==
  ASSUME IInv, place # "ssh", NEW c \in Clients, client[c].pc \in Mutexed,
         UNCHANGED <<place, mutex, late, maya, known, broken, faults, deaths>>,
         NEW pc, NEW j, Moved(c, pc, j),
         \/ file' = file
         \/ /\ broken = {} => file = None \/ OwnedBy(c) \/ LockStale
            /\ file' = None \/ (file' \in Lock /\ ~file'.expired),
         SessionUnderLock', broken = {} => LocalInv(c)' /\ (place = "repo" => HolderInv(c)')
  PROVE  IInv'
  <1>1. /\ TypeOK
        /\ faults \in 0..MaxFaults /\ deaths \in 0..MaxDeaths /\ file \in Lock \cup {None}
        /\ mutex \in Clients \cup {None} /\ (place = "repo" => maya = None) /\ broken \subseteq Breaks
    BY LocalFacts
  <1>2. Becomes(c, j) /\ Good(c, j)
    BY DEF Moved
  <1>3. client'[c] = j /\ \A d \in Clients \ {c} : client'[d] = client[d]
    BY <1>1, <1>2, Becoming
  <1>4. SettledInv(c)'
    BY <1>3, LocalSettled DEF At, Mutexed, Moved
  <1>5. ASSUME broken = {} PROVE \A d \in Clients : LocalInv(d)' /\ (place = "repo" => HolderInv(d)')
    <2>1. ~At(c, "ended")
      BY DEF At, Mutexed
    <2>2. \A d \in Clients \ {c} : LocalInv(d)' /\ (place = "repo" => HolderInv(d)')
      <3>1. CASE file' = file
        BY <1>3, <1>5, <2>1, <3>1, SameFile
      <3>2. CASE file' # file
        BY <1>3, <1>5, <3>2, InMutex
      <3> QED
        BY <3>1, <3>2
    <2> QED
      BY <1>5, <2>2
  <1> QED
    BY <1>1, <1>2, <1>4, <1>5, LocalMove

LEMMA LookKeeps ==
  ASSUME IInv, NEW c \in Clients, Look(c) \/ TakeOver(c)
  PROVE  IInv'
  <1> DEFINE k == client[c]
  <1>1. /\ place # "ssh" /\ k.pc \in Mutexed /\ UNCHANGED <<place, mutex, late, maya, known, broken, faults, deaths>>
    BY DEF Look, TakeOver, Here, At, Outside, Mutexed
  <1>2. /\ TypeOK /\ Good(c, k) /\ SessionUnderLock /\ (place = "repo" => maya = None)
        /\ broken = {} => LocalInv(c) /\ (place = "repo" => HolderInv(c))
    BY <1>1, LocalFacts
  <1>3. k.op = "acquire" /\ k.expected = None
    BY <1>2 DEF Look, TakeOver, Here, At, Good, Ctl, Claims
  <1>4. \A pc, j : Moved(c, pc, j) => HolderInv(c)'
    BY <1>3 DEF Moved, HolderInv, Holds
  <1>5. CASE Look(c)
    <2>1. file' = file /\ k.pc = "look"
      BY <1>5 DEF Look, Here, At
    <2>2. SessionUnderLock'
      BY <1>1, <1>2, <2>1, SameLock
    <2>3. CASE LockStale
      <3>1. PICK j : Moved(c, "take", j)
        BY <1>1, <1>3, <1>5, <2>3, StepMoves DEF Look, Mutexed
      <3>2. LockStale'
        <4>1. \A e \in Clients : Alive(e)' => Alive(e)
          BY <1>2, <2>1, <3>1, Becoming DEF Alive, At, Moved
        <4>2. file # None => file.content.run \in Clients
          BY <1>2 DEF TypeOK, Lock, Content
        <4> QED
          BY <1>1, <2>1, <2>3, <4>1, <4>2 DEF LockStale, Expired, SessionInactive
      <3>3. broken = {} => LocalInv(c)'
        BY <1>1, <1>2, <1>3, <3>1, <3>2 DEF LocalInv, At, Mutexed, SessionOps, Moved
      <3> QED
        BY <1>1, <1>4, <2>1, <2>2, <3>1, <3>3, BodyKeeps
    <2>4. CASE ~LockStale
      <3>1. PICK j : Moved(c, "out", j) /\ j.ok = FALSE
        BY <1>1, <1>5, <2>4, BodyMoves DEF Look
      <3>2. broken = {} => LocalInv(c)'
        BY <1>1, <1>2, <1>3, <3>1 DEF LocalInv, At, Mutexed, SessionOps, Moved
      <3> QED
        BY <1>1, <1>4, <2>1, <2>2, <3>1, <3>2, BodyKeeps
    <2> QED
      BY <2>3, <2>4
  <1>6. CASE TakeOver(c)
    <2>1. file' = None /\ k.pc = "take" /\ Step(c, "in")
      BY <1>6 DEF TakeOver, Here, At
    <2>2. PICK j : Moved(c, "in", j)
      BY <1>1, <2>1, StepMoves DEF Mutexed
    <2>3. broken = {} => LockStale
      BY <1>2, <2>1 DEF LocalInv, At
    <2>4. SessionUnderLock'
      BY <1>1, <1>2, <2>3, NamesAssumption DEF SessionUnderLock, LockStale, SessionInactive, OwnedBy
    <2>5. broken = {} => LocalInv(c)'
      BY <1>1, <1>2, <2>2 DEF LocalInv, At, Mutexed, Moved
    <2> QED
      BY <1>1, <1>4, <2>1, <2>2, <2>3, <2>4, <2>5, BodyKeeps
  <1> QED
    BY <1>5, <1>6

\* The first look of an operation, by what it leads to.
LEMMA EnterIs ==
  ASSUME IInv, NEW c \in Clients, Enter(c)
  PROVE  LET k == client[c] IN
         \/ k.op = "acquire" /\ file = None /\ file' = Written(k.new) /\ Body(c, TRUE)
         \/ k.op = "acquire" /\ file' = file /\ Step(c, "look")
         \/ /\ k.op \notin Claims /\ file' = file
            /\ \E ok \in BOOLEAN : Body(c, ok) /\ (ok => k.op = "remove")
         \/ /\ k.op \notin Claims /\ file' = file /\ Step(c, "write")
            /\ Is(k.expected) \/ (place = "repo" /\ (k.op = "remove" => OwnedBy(c)))
  <1> DEFINE k == client[c]
  <1>1. k.op \in Ops \ {"reclaim"}
    BY DEF IInv, Ctl, TypeOK, Controllers, Enter, Here, At, Pending, Mutexed
  <1>2. CASE k.op = "acquire"
    BY <1>2 DEF Enter
  <1>3. CASE k.op = "remove"
    <2>1. file' = file /\ k.op \notin Claims
      BY <1>3 DEF Enter, Claims
    <2>2. CASE Step(c, "write")
      <3>1. \/ OwnedBy(c) /\ place = "repo"
            \/ Is(k.expected) \/ Body(c, TRUE)
            \/ Body(c, place = "repo" /\ file.content.state # "claimed")
        BY <1>3 DEF Enter
      <3>2. k \in Controllers /\ k.pc = "in"
        BY DEF IInv, TypeOK, Enter, Here, At
      <3>3. ASSUME NEW ok, Body(c, ok) PROVE FALSE
        BY <2>2, <3>2, <3>3 DEF Step, Body, IInv, TypeOK, Controllers
      <3> QED
        BY <2>1, <2>2, <3>1, <3>3
    <2>3. CASE ~Step(c, "write")
      <3>1. Body(c, TRUE) \/ Body(c, place = "repo" /\ file.content.state # "claimed")
        BY <1>3, <2>3 DEF Enter
      <3>2. PICK ok \in BOOLEAN : Body(c, ok)
        BY <3>1
      <3> QED
        BY <1>3, <2>1, <3>2
    <2> QED
      BY <2>2, <2>3
  <1>4. CASE k.op \in {"replace"} \cup SessionOps
    <2>1. k.op \notin Claims \cup {"remove"}
      BY <1>4 DEF Claims, SessionOps
    <2>2. /\ file' = file
          /\ \/ Step(c, "write") /\ (place = "repo" \/ Is(k.expected))
             \/ Body(c, FALSE)
      BY <2>1 DEF Enter, Claims
    <2> QED
      BY <2>1, <2>2
  <1> QED
    BY <1>1, <1>2, <1>3, <1>4 DEF Ops

LEMMA EnterKeeps ==
  ASSUME IInv, NEW c \in Clients, Enter(c)
  PROVE  IInv'
  <1> DEFINE k == client[c]
  <1>1. /\ place # "ssh" /\ k.pc = "in" /\ k.pc \in Mutexed
        /\ UNCHANGED <<place, mutex, late, maya, known, broken, faults, deaths>>
    BY DEF Enter, Here, At, Outside, Mutexed
  <1>2. /\ TypeOK /\ Good(c, k) /\ Ctl(c, k) /\ SessionUnderLock /\ (place = "repo" => maya = None)
        /\ broken = {} => LocalInv(c) /\ (place = "repo" => HolderInv(c))
    BY <1>1, LocalFacts DEF Good
  <1>3. Asks(c, k.op, k.expected, k.new) /\ k.op \in Ops
    BY <1>1, <1>2 DEF Ctl, Pending, TypeOK, Controllers
  <1>4. ASSUME NEW pc, NEW j, Moved(c, pc, j), file' = file, broken = {}, place = "repo" PROVE HolderInv(c)'
    BY <1>1, <1>2, <1>4 DEF Moved, HolderInv, Holds, Alive, At, Is
  <1>5. file' = file => SessionUnderLock'
    BY <1>1, <1>2, SameLock
  <1>6. CASE k.op = "acquire" /\ file = None /\ file' = Written(k.new) /\ Body(c, TRUE)
    <2>1. PICK j : Moved(c, "out", j) /\ j.ok = TRUE
      BY <1>1, <1>6, BodyMoves
    <2>0. k.new \in Content
      BY <1>3, <1>6, BoundAssumption DEF Asks, First, Claims, Content
    <2>2. file' \in Lock /\ file' # None /\ file'.content = k.new /\ ~file'.expired
      BY <1>2, <1>6, <2>0, FileFacts
    <2>3. SessionUnderLock'
      BY <1>1, <1>2, <1>6 DEF SessionUnderLock, OwnedBy
    <2>4. broken = {} => LocalInv(c)'
      BY <1>1, <1>2, <1>6, <2>1, <2>2 DEF LocalInv, At, Mutexed, SessionOps, Moved, Is
    <2>5. HolderInv(c)'
      BY <1>1, <1>2, <1>6, <2>1 DEF Moved, HolderInv, Holds, Ctl, Claims
    <2> QED
      BY <1>1, <1>6, <2>1, <2>2, <2>3, <2>4, <2>5, BodyKeeps
  <1>7. CASE k.op = "acquire" /\ file' = file /\ Step(c, "look")
    <2>1. PICK j : Moved(c, "look", j)
      BY <1>1, <1>7, StepMoves DEF Mutexed
    <2>2. broken = {} => LocalInv(c)'
      BY <1>1, <1>2, <2>1 DEF LocalInv, At, Mutexed, Moved
    <2> QED
      BY <1>1, <1>4, <1>5, <1>7, <2>1, <2>2, BodyKeeps
  <1>8. CASE file' = file /\ \E ok \in BOOLEAN : Body(c, ok) /\ (ok => k.op = "remove")
    <2>1. PICK ok \in BOOLEAN : Body(c, ok) /\ (ok => k.op = "remove")
      BY <1>8
    <2>2. PICK j : Moved(c, "out", j) /\ j.ok = ok
      BY <1>1, <2>1, BodyMoves
    <2>3. broken = {} => LocalInv(c)'
      BY <1>1, <1>2, <2>1, <2>2 DEF LocalInv, At, Mutexed, SessionOps, Moved
    <2> QED
      BY <1>1, <1>4, <1>5, <1>8, <2>2, <2>3, BodyKeeps
  <1>9. CASE /\ k.op \notin Claims /\ file' = file /\ Step(c, "write")
             /\ Is(k.expected) \/ (place = "repo" /\ (k.op = "remove" => OwnedBy(c)))
    <2>1. PICK j : Moved(c, "write", j)
      BY <1>1, <1>9, StepMoves DEF Mutexed
    <2>2. Own(k.expected, c) /\ k.expected # None
      BY <1>3, <1>9, NamesAssumption DEF Asks, Own
    <2>3. broken = {} => OwnedBy(c) /\ (Is(k.expected) \/ (place = "repo" /\ k.op = "remove"))
      <3>1. CASE Is(k.expected)
        BY <2>2, <3>1 DEF OwnedBy, Is, Own
      <3>2. CASE place = "repo" /\ k.op = "remove"
        BY <1>9, <2>2, <3>2 DEF OwnedBy, Is, Own
      <3>3. CASE place = "repo" /\ k.op # "remove"
        <4>1. k.op = "replace"
          BY <1>2, <1>3, <1>9, <3>3 DEF Ctl, Ops, Claims
        <4>2. Holds(c)
          BY <1>1, <1>3, <2>2, <4>1 DEF Holds, Alive, At, Asks
        <4>3. broken = {} => Is(k.expected)
          BY <1>1, <1>2, <3>3, <4>2 DEF HolderInv, At
        <4> QED
          BY <2>2, <4>3 DEF OwnedBy, Is, Own
      <3> QED
        BY <1>9, <3>1, <3>2, <3>3
    <2>4. broken = {} => LocalInv(c)'
      BY <1>1, <1>2, <1>9, <2>1, <2>3 DEF LocalInv, At, Mutexed, Moved, OwnedBy, Is
    <2> QED
      BY <1>1, <1>4, <1>5, <1>9, <2>1, <2>4, BodyKeeps
  <1> QED
    BY <1>6, <1>7, <1>8, <1>9, EnterIs

LEMMA WriteKeeps ==
  ASSUME IInv, NEW c \in Clients, Write(c)
  PROVE  IInv'
  <1> DEFINE k == client[c]
  <1>1. /\ place # "ssh" /\ k.pc = "write" /\ k.pc \in Mutexed
        /\ UNCHANGED <<place, mutex, late, maya, known, broken, faults, deaths>>
        /\ file' = IF k.op = "remove" \/ file = None THEN None ELSE Written(k.new)
    BY DEF Write, Here, At, Outside, Mutexed
  <1>2. /\ TypeOK /\ Good(c, k) /\ Ctl(c, k) /\ SettledInv(c) /\ SessionUnderLock
        /\ (place = "repo" => maya = None)
        /\ broken = {} => LocalInv(c) /\ (place = "repo" => HolderInv(c))
    BY <1>1, LocalFacts DEF Good, IInv
  <1>3. Asks(c, k.op, k.expected, k.new) /\ k.op \in Ops \ Claims
    BY <1>1, <1>2 DEF Ctl, Pending, TypeOK, Controllers
  <1>4. PICK ok \in BOOLEAN : ok = (file # None) /\ Body(c, ok)
    BY DEF Write
  <1>5. PICK j : Moved(c, "out", j) /\ j.ok = ok
    BY <1>1, <1>4, BodyMoves
  <1>6. broken = {} => OwnedBy(c) /\ ok
    BY <1>1, <1>2, <1>4 DEF LocalInv, At, OwnedBy
  <1>7. k.op # "remove" => /\ k.new \in Content /\ k.new.run = c /\ Written(k.new) \in Lock
                           /\ Written(k.new) # None /\ Written(k.new).content = k.new
                           /\ ~Written(k.new).expired
    <2>1. k.op # "remove" => k.new \in Content /\ k.new.run = c
      BY <1>3 DEF Asks, Own, Ops, Claims
    <2> QED
      BY <1>2, <2>1, FileFacts
  <1>8. file' = None \/ (file' \in Lock /\ ~file'.expired)
    BY <1>1, <1>7
  <1>9. SessionUnderLock'
    <2>1. k.op = "remove" => maya # c
      BY <1>1, <1>2 DEF Ctl, SettledInv, Settled, At
    <2> QED
      BY <1>1, <1>2, <1>6, <1>7, <2>1 DEF SessionUnderLock, OwnedBy
  <1>10. ASSUME broken = {} PROVE LocalInv(c)'
    <2>1. k.op # "remove" => Is(k.new)'
      BY <1>1, <1>5, <1>6, <1>7, <1>10 DEF Is, OwnedBy, Moved
    <2> QED
      BY <1>1, <1>2, <1>5, <1>6, <1>7, <1>10, <2>1 DEF LocalInv, At, Mutexed, Moved, Is
  <1>11. ASSUME broken = {}, place = "repo" PROVE HolderInv(c)'
    <2>1. k.op \in {"replace", "remove"}
      BY <1>2, <1>3, <1>11 DEF Ctl, Ops, Claims
    <2> QED
      BY <1>1, <1>5, <1>6, <1>7, <1>11, <2>1 DEF HolderInv, At, Moved, Is, OwnedBy
  <1> QED
    BY <1>1, <1>5, <1>6, <1>8, <1>9, <1>10, <1>11, BodyKeeps

\* A process outside the mutex, or leaving it, moves to j.
LEMMA OutsideKeeps ==
  ASSUME IInv, place # "ssh", NEW c \in Clients, UNCHANGED <<place, file, late, known, broken>>,
         faults' \in 0..MaxFaults, deaths' \in 0..MaxDeaths,
         mutex' = mutex \/ (mutex' = None /\ client[c].pc \in Mutexed),
         NEW j, Becomes(c, j), Good(c, j), ~At(c, "ended"), SettledInv(c)', SessionUnderLock',
         maya' \in {maya, None} \/ (maya' = c /\ (broken = {} => file # None /\ ~file.expired)),
         place = "repo" => maya' = None,
         broken = {} => LocalInv(c)' /\ (place = "repo" => HolderInv(c)')
  PROVE  IInv'
  <1>1. TypeOK /\ broken \subseteq Breaks /\ file \in Lock \cup {None} /\ mutex \in Clients \cup {None}
    BY LocalFacts
  <1>2. \A d \in Clients \ {c} : client'[d] = client[d]
    BY <1>1, Becoming
  <1>3. ASSUME broken = {} PROVE \A d \in Clients \ {c} : LocalInv(d)' /\ (place = "repo" => HolderInv(d)')
    <2>1. \A d \in Clients \ {c} : client[d].pc \in Mutexed => mutex' = mutex
      BY <1>3 DEF IInv, LocalInv
    <2> QED
      BY <1>2, <1>3, <2>1, SameFile
  <1> QED
    BY <1>1, <1>3, LocalMove

LEMMA MutexTimeoutKeeps ==
  ASSUME IInv, NEW c \in Clients, MutexTimeout(c)
  PROVE  IInv'
  <1> DEFINE k == client[c]
  <1>0. PICK j : j = After(k, FALSE)
    OBVIOUS
  <1>1. /\ place # "ssh" /\ k.pc = "mutex" /\ k.pc \in Pending /\ UNCHANGED <<place, file, mutex, late, maya, known, broken>>
        /\ deaths' = deaths /\ faults < MaxFaults /\ faults' = faults + 1 /\ Becomes(c, j)
    BY <1>0 DEF MutexTimeout, Here, At, Fault, lockVars, Return, Becomes, Pending, Waits
  <1>2. /\ TypeOK /\ Good(c, k) /\ k \in Controllers /\ SessionUnderLock /\ k.op # "none"
        /\ faults \in 0..MaxFaults /\ deaths \in 0..MaxDeaths /\ (place = "repo" => maya = None)
        /\ broken = {} => LocalInv(c) /\ (place = "repo" => HolderInv(c))
    BY <1>1, LocalFacts
  <1>3. Good(c, j) /\ Returned(k, FALSE, j) /\ client'[c] = j
    BY <1>0, <1>1, <1>2, GoodAfter, AfterFields, Becoming
  <1>4. SettledInv(c)'
    BY <1>1, <1>3, LocalSettled DEF Returned, At
  <1>5. broken = {} => LocalInv(c)' /\ (place = "repo" => HolderInv(c)')
    <2>1. LocalInv(c)'
      BY <1>3 DEF Returned, LocalInv, At, Mutexed
    <2>2. j.expected = k.expected
      BY <1>3 DEF Returned
    <2> QED
      BY <1>1, <1>2, <1>3, <2>1, <2>2 DEF HolderInv, Holds, Alive, At, Is
  <1>6. SessionUnderLock' /\ faults' \in 0..MaxFaults
    BY <1>1, <1>2, SameLock, BoundAssumption
  <1> QED
    BY <1>1, <1>2, <1>3, <1>4, <1>5, <1>6, OutsideKeeps DEF At

LEMMA ExitKeeps ==
  ASSUME IInv, NEW c \in Clients, Exit(c)
  PROVE  IInv'
  <1> DEFINE k == client[c]
             done == k.ok /\ mutex # None
  <1>1. /\ place # "ssh" /\ k.pc = "out" /\ k.pc \in Pending /\ k.pc \in Mutexed
        /\ UNCHANGED <<place, file, late, maya, known, broken, faults, deaths>> /\ mutex' = None
    BY DEF Exit, Here, At, Outside, Pending, Mutexed
  <1>2. /\ TypeOK /\ Good(c, k) /\ Ctl(c, k) /\ k \in Controllers /\ SessionUnderLock /\ k.op # "none"
        /\ faults \in 0..MaxFaults /\ deaths \in 0..MaxDeaths /\ (place = "repo" => maya = None)
        /\ broken = {} => LocalInv(c) /\ (place = "repo" => HolderInv(c))
    BY <1>1, LocalFacts DEF Good
  <1>3. Asks(c, k.op, k.expected, k.new) /\ k.ok \in BOOLEAN /\ k.op \in Ops
    BY <1>1, <1>2 DEF Ctl, Controllers
  <1>4. broken = {} => mutex = c /\ (k.ok /\ k.op # "remove" => Is(k.new))
    BY <1>1, <1>2 DEF LocalInv, At
  <1>5. SessionUnderLock'
    BY <1>1, <1>2, SameLock
  <1>6. ASSUME NEW j, Becomes(c, j), Good(c, j), j.op = k.op,
               j.session = k.session \/ (j.session = "unsure" /\ k.op \in {"start", "stop"}),
               broken = {} => LocalInv(c)' /\ (place = "repo" => HolderInv(c)')
        PROVE  IInv'
    <2>1. client'[c] = j
      BY <1>2, <1>6, Becoming
    <2>2. SettledInv(c)'
      BY <1>1, <1>6, <2>1, LocalSettled DEF At
    <2> QED
      BY <1>1, <1>2, <1>5, <1>6, <2>2, OutsideKeeps DEF At
  <1>7. CASE k.op \in SessionOps /\ done
    <2>1. PICK j : j = [k EXCEPT !.pc = "act", !.expected = k.new]
      OBVIOUS
    <2>2. Becomes(c, j)
      BY <1>7, <2>1 DEF Exit, Becomes
    <2>3. /\ j \in Controllers /\ j.pc = "act" /\ j.expected = k.new /\ j.op = k.op /\ j.new = k.new
          /\ j.session = k.session /\ j.ok = k.ok
      BY <1>2, <2>1 DEF Controllers
    <2>4. Own(k.new, c) /\ k.new # None /\ (k.op # "stop" => k.new.state = "active")
      BY <1>3, <1>7, NamesAssumption DEF Asks, Own, SessionOps
    <2>5. Good(c, j)
      BY <1>1, <1>2, <1>7, <2>3, <2>4 DEF Good, Ctl, Claims, SessionOps, Pending, Waits, Mutexed
    <2>6. client'[c] = j
      BY <1>2, <2>2, Becoming
    <2>7. broken = {} => LocalInv(c)'
      BY <1>1, <1>2, <1>4, <1>7, <2>3, <2>6 DEF LocalInv, At, Mutexed, SessionOps, Is
    <2>8. place # "repo"
      BY <1>2, <1>7 DEF Ctl
    <2> QED
      BY <1>6, <2>2, <2>3, <2>5, <2>7, <2>8
  <1>8. CASE k.op = "acquire" /\ k.ok /\ ~done
    <2>1. PICK j : j = [k EXCEPT !.pc = "ended"]
      OBVIOUS
    <2>2. Becomes(c, j)
      BY <1>8, <2>1 DEF Exit, Becomes, SessionOps
    <2>3. j.pc = "ended" /\ j.op = k.op /\ j.session = k.session /\ Good(c, j)
      BY <1>2, <2>1, GoodEnd DEF Controllers
    <2>4. client'[c] = j
      BY <1>2, <2>2, Becoming
    <2>5. LocalInv(c)' /\ HolderInv(c)'
      BY <2>3, <2>4 DEF LocalInv, HolderInv, Holds, Alive, At, Mutexed
    <2> QED
      BY <1>6, <2>2, <2>3, <2>5
  <1>9. CASE ~(k.op \in SessionOps /\ done) /\ ~(k.op = "acquire" /\ k.ok /\ ~done)
    <2>0. PICK ok \in BOOLEAN : ok = done
      BY <1>3
    <2>1. PICK j : j = After(k, ok)
      OBVIOUS
    <2>2. Becomes(c, j)
      BY <1>9, <2>0, <2>1 DEF Exit, Becomes
    <2>3. Good(c, j) /\ Returned(k, ok, j) /\ client'[c] = j
      BY <1>1, <1>2, <2>1, <2>2, GoodAfter, AfterFields, Becoming
    <2>4. LocalInv(c)'
      BY <2>3 DEF Returned, LocalInv, At, Mutexed
    <2>5. ASSUME broken = {}, place = "repo" PROVE HolderInv(c)'
      <3>1. k.op \in {"acquire", "replace", "remove"} /\ (ok <=> k.ok)
        BY <1>2, <1>3, <1>4, <2>0, <2>5, NamesAssumption DEF Ctl, Ops
      <3>2. CASE k.op = "remove"
        BY <2>3, <3>2 DEF Returned, HolderInv, Holds, Alive, At, Claims
      <3>3. CASE k.op # "remove" /\ k.ok
        BY <1>1, <1>4, <2>3, <2>5, <3>1, <3>3 DEF Returned, HolderInv, At, Claims, Is
      <3>4. CASE k.op = "acquire" /\ ~k.ok
        BY <1>1, <1>2, <2>3, <3>1, <3>4 DEF Returned, HolderInv, Holds, Claims, Ctl
      <3>5. CASE k.op = "replace" /\ ~k.ok
        BY <1>1, <1>2, <2>3, <2>5, <3>1, <3>5 DEF Returned, HolderInv, Holds, Alive, At, Claims, Is
      <3> QED
        BY <3>1, <3>2, <3>3, <3>4, <3>5
    <2>6. j.op = k.op /\ (j.session = k.session \/ (j.session = "unsure" /\ k.op \in {"start", "stop"}))
      BY <1>9, <2>0, <2>3 DEF Returned, SessionOps
    <2> QED
      BY <1>6, <2>2, <2>3, <2>4, <2>5, <2>6
  <1> QED
    BY <1>7, <1>8, <1>9

LEMMA ActKeeps ==
  ASSUME IInv, NEW c \in Clients, Act(c)
  PROVE  IInv'
  <1> DEFINE k == client[c]
  <1>0. PICK j : j = After(k, TRUE)
    OBVIOUS
  <1>1. /\ place # "ssh" /\ k.pc = "act" /\ UNCHANGED <<place, file, mutex, late, known, broken, faults, deaths>>
        /\ Becomes(c, j) /\ maya' = Session(k.op, c)
    BY <1>0 DEF Act, Here, At, lockVars, Return, Becomes
  <1>2. /\ TypeOK /\ Good(c, k) /\ Ctl(c, k) /\ k \in Controllers /\ SessionUnderLock
        /\ faults \in 0..MaxFaults /\ deaths \in 0..MaxDeaths
        /\ broken = {} => LocalInv(c) /\ (place = "repo" => HolderInv(c))
    BY <1>1, LocalFacts DEF Good
  <1>3. k.op \in SessionOps /\ place # "repo" /\ Own(k.expected, c)
    BY <1>1, <1>2 DEF Ctl
  <1>4. Good(c, j) /\ Returned(k, TRUE, j) /\ client'[c] = j
    BY <1>0, <1>1, <1>2, <1>3, GoodAfter, AfterFields, Becoming DEF SessionOps
  <1>5. maya' = IF k.op = "start" THEN c ELSE None
    BY <1>1, <1>3 DEF Session, SessionOps
  <1>6. SettledInv(c)'
    BY <1>3, <1>4, <1>5, NamesAssumption DEF Returned, SettledInv, Settled, At, SessionOps
  <1>7. broken = {} /\ k.op = "start" => OwnedBy(c) /\ file # None /\ ~file.expired
    BY <1>1, <1>2, <1>3 DEF LocalInv, At, OwnedBy, Is, Own
  <1>8. SessionUnderLock'
    BY <1>1, <1>5, <1>7, NamesAssumption DEF SessionUnderLock, OwnedBy
  <1>9. LocalInv(c)'
    BY <1>4 DEF Returned, LocalInv, At, Mutexed
  <1> QED
    BY <1>1, <1>2, <1>3, <1>4, <1>5, <1>6, <1>7, <1>8, <1>9, OutsideKeeps DEF At

LEMMA ReleaseClaimKeeps ==
  ASSUME IInv, NEW c \in Clients, ReleaseClaim(c)
  PROVE  IInv'
  <1> DEFINE k == client[c]
  <1>0. PICK j : j = [k EXCEPT !.pc = "ended"]
    OBVIOUS
  <1>1. /\ place = "repo" /\ k.pc = "held" /\ UNCHANGED <<place, mutex, late, maya, known, broken, faults, deaths>>
        /\ file' = None /\ Becomes(c, j) /\ k.expected.state = "claimed"
    BY <1>0 DEF ReleaseClaim, Here, At, Outside, Step, Becomes, State
  <1>2. /\ TypeOK /\ Good(c, k) /\ Ctl(c, k) /\ k \in Controllers /\ maya = None /\ broken \subseteq Breaks
        /\ faults \in 0..MaxFaults /\ deaths \in 0..MaxDeaths /\ mutex \in Clients \cup {None}
        /\ broken = {} => HolderInv(c)
    BY <1>1, LocalFacts DEF Good
  <1>3. Own(k.expected, c) /\ k.expected # None /\ k.op # "none"
    BY <1>1, <1>2 DEF Ctl
  <1>4. Good(c, j) /\ j.pc = "ended" /\ j.op = k.op /\ j.session = k.session
    BY <1>0, <1>2, <1>3, GoodEnd DEF Controllers
  <1>5. client'[c] = j /\ \A d \in Clients \ {c} : client'[d] = client[d]
    BY <1>1, <1>2, Becoming
  <1>6. SettledInv(c)'
    BY <1>1, <1>4, <1>5, LocalSettled DEF At
  <1>7. SessionUnderLock'
    BY <1>1, <1>2, NamesAssumption DEF SessionUnderLock
  <1>8. ASSUME broken = {}, NEW d \in Clients PROVE LocalInv(d)' /\ HolderInv(d)'
    <2>1. CASE d = c
      BY <1>4, <1>5, <2>1 DEF LocalInv, HolderInv, Holds, Alive, At, Mutexed
    <2>2. CASE d # c
      <3>1. Is(k.expected) /\ ~OwnedBy(d)
        BY <1>1, <1>2, <1>3, <1>8, <2>2 DEF HolderInv, Holds, Alive, At, Is, OwnedBy, Own
      <3>2. LocalInv(d) /\ HolderInv(d) /\ Ctl(d, client[d]) /\ client'[d] = client[d]
        BY <1>1, <1>5, <1>8, <2>2 DEF IInv
      <3>3. ~Holds(d)
        BY <1>1, <3>1, <3>2 DEF HolderInv, Holds, Ctl, Own, Is, OwnedBy, Asks, Pending, Mutexed, Ops, Claims, At
      <3>4. LocalInv(d)'
        <4>1. At(d, "out") /\ client[d].ok => client[d].op = "remove"
          <5>1. CASE client[d].op \in {"acquire", "replace"} /\ At(d, "out") /\ client[d].ok
            <6>1. Own(client[d].new, d)
              BY <3>2, <5>1, BoundAssumption DEF Ctl, Asks, Pending, Mutexed, At, Claims, First, Own, Content
            <6> QED
              BY <3>1, <3>2, <5>1, <6>1 DEF LocalInv, Is, OwnedBy, Own
          <5>2. At(d, "out") => client[d].op \in {"acquire", "replace", "remove"}
            BY <1>1, <1>2, <3>2 DEF Ctl, TypeOK, Controllers, Ops, At, Pending, Mutexed
          <5> QED
            BY <5>1, <5>2
        <4>2. client[d].op \notin SessionOps /\ ~At(d, "act") /\ ~At(d, "write")
          BY <1>1, <3>1, <3>2 DEF Ctl, At, LocalInv
        <4> QED
          BY <1>1, <3>2, <4>1, <4>2 DEF LocalInv, LockStale, At
      <3> QED
        BY <3>2, <3>3, <3>4 DEF HolderInv, Holds, Alive, At
    <2> QED
      BY <2>1, <2>2
  <1> QED
    BY <1>1, <1>2, <1>4, <1>6, <1>7, <1>8, LocalMove

LEMMA LocalDieKeeps ==
  ASSUME IInv, place # "ssh", NEW c \in Clients, Die(c)
  PROVE  IInv'
  <1> DEFINE k == client[c]
  <1>0. PICK j : j = [k EXCEPT !.pc = "ended"]
    OBVIOUS
  <1>1. /\ UNCHANGED <<place, file, mutex, late, maya, known, broken, faults>> /\ k.pc \notin {"ended", "idle"}
        /\ deaths < MaxDeaths /\ deaths' = deaths + 1 /\ Becomes(c, j)
    BY <1>0 DEF Die, Alive, At, Remote, Becomes
  <1>2. /\ TypeOK /\ Good(c, k) /\ Ctl(c, k) /\ k \in Controllers /\ SessionUnderLock
        /\ faults \in 0..MaxFaults /\ deaths \in 0..MaxDeaths /\ (place = "repo" => maya = None)
    BY LocalFacts DEF Good
  <1>3. Good(c, j) /\ j.pc = "ended" /\ j.op = k.op /\ j.session = k.session
    BY <1>0, <1>1, <1>2, GoodEnd DEF Controllers, Ctl
  <1>4. client'[c] = j
    BY <1>1, <1>2, Becoming
  <1>5. SettledInv(c)'
    BY <1>1, <1>3, <1>4, LocalSettled DEF At
  <1>6. LocalInv(c)' /\ HolderInv(c)'
    BY <1>3, <1>4 DEF LocalInv, HolderInv, Holds, Alive, At, Mutexed
  <1>7. SessionUnderLock' /\ deaths' \in 0..MaxDeaths
    BY <1>1, <1>2, SameLock, BoundAssumption
  <1> QED
    BY <1>1, <1>2, <1>3, <1>5, <1>6, <1>7, OutsideKeeps DEF At

-----------------------------------------------------------------------------
(* The theorems.                                                           *)

LEMMA InitHolds ==
  ASSUME Init PROVE IInv
  <1> USE DEF Init
  <1>1. /\ \A c \in Clients : client[c] = Idle
        /\ file = None /\ late = {} /\ broken = {} /\ maya \in {None, Standing} /\ mutex = None
        /\ place = "repo" => maya = None
    OBVIOUS
  <1>2. Idle \in Controllers
    BY DEF Idle, Controllers
  <1>3. TypeOK
    <2>1. client \in [Clients -> Controllers]
      BY <1>2
    <2>2. faults \in 0..MaxFaults /\ deaths \in 0..MaxDeaths
      BY BoundAssumption
    <2>3. broken \subseteq Breaks /\ known \subseteq Clients /\ place \in Places
      OBVIOUS
    <2> QED
      BY <1>1, <2>1, <2>2, <2>3 DEF TypeOK
  <1>4. ASSUME NEW c \in Clients PROVE Ctl(c, client[c]) /\ SettledInv(c)
    BY <1>1, NamesAssumption DEF Idle, Ctl, SettledInv, Settled, Claims, SessionOps, Pending, Waits, Mutexed, At
  <1>5. RemoteInv
    BY <1>1 DEF RemoteInv, Idle, At, OwnedBy
  <1>6. ASSUME NEW c \in Clients PROVE LocalInv(c) /\ HolderInv(c)
    BY <1>1 DEF LocalInv, HolderInv, Holds, Idle, At, Mutexed
  <1>7. SessionUnderLock
    BY <1>1, NamesAssumption DEF SessionUnderLock
  <1> QED
    BY <1>1, <1>3, <1>4, <1>5, <1>6, <1>7 DEF IInv

LEMMA NextKeeps ==
  ASSUME IInv, [Next]_vars PROVE IInv'
  <1>1. ASSUME NEW c \in Clients, RunStep(c) PROVE IInv'
    <2>1. TypeOK /\ Ctl(c, client[c])
      BY DEF IInv
    <2> QED
      BY <1>1, <2>1, FrontSteps, FrontKeeps
  <1>2. ASSUME NEW c \in Clients, RemoteStep(c) PROVE IInv'
    BY <1>2, AnsweredKeeps, GaveUpKeeps, ReadKeeps, ReclaimKeeps DEF RemoteStep
  <1>3. ASSUME NEW c \in Clients, LocalStep(c) PROVE IInv'
    BY <1>3, WaitKeeps, MutexTimeoutKeeps, EnterKeeps, LookKeeps, WriteKeeps, ExitKeeps, ActKeeps,
       ReleaseClaimKeeps DEF LocalStep
  <1>4. ASSUME Environment PROVE IInv'
    BY <1>4, RunLateKeeps, ExpireKeeps, StopRetainedKeeps, ReleaseForRunKeeps, RemoteDieKeeps, LocalDieKeeps
       DEF Environment
  <1>5. CASE UNCHANGED vars
    <2>1. Quiet /\ UNCHANGED client
      BY <1>5 DEF vars, Quiet
    <2>2. TypeOK'
      BY <2>1 DEF Quiet, IInv, TypeOK
    <2>3. \A c \in Clients : (Ctl(c, client[c]) /\ SettledInv(c))'
      BY <2>1 DEF Quiet, IInv, Ctl, Asks, Own, SettledInv, Settled, At
    <2>4. RemoteInv'
      BY <2>1 DEF Quiet, IInv, RemoteInv, LateInv, Asks, Own, At, Reclaiming, Judged, Fresh, MovedOn, Is,
         OwnedBy
    <2>5. (place # "ssh" /\ broken = {} => \A c \in Clients : LocalInv(c))'
      BY <2>1 DEF Quiet, IInv, LocalInv, Is, OwnedBy, At, Alive, LockStale, Expired, SessionInactive
    <2>6. (place = "repo" => maya = None /\ (broken = {} => \A c \in Clients : HolderInv(c)))'
      BY <2>1 DEF Quiet, IInv, HolderInv, Holds, Is, OwnedBy, At, Alive, LockStale, Expired, SessionInactive
    <2>7. SessionUnderLock'
      BY <2>1 DEF Quiet, IInv, SessionUnderLock, Is, OwnedBy, Holds
    <2> QED
      BY <2>2, <2>3, <2>4, <2>5, <2>6, <2>7 DEF IInv
  <1> QED
    BY <1>1, <1>2, <1>3, <1>4, <1>5 DEF Next

\* The inductive invariant holds in every reachable state of the Host Lock,
\* wherever the lock lives.
THEOREM Invariance == Spec => []IInv
  <1>1. Init => IInv
    BY InitHolds
  <1>2. IInv /\ [Next]_vars => IInv'
    BY NextKeeps
  <1> QED
    BY <1>1, <1>2, PTL DEF Spec

\* Every lock, script and controller record has its type, for any number of
\* controllers and faults.
THEOREM TypeCorrect == Spec => []TypeOK
  <1>1. IInv => TypeOK
    BY DEF IInv
  <1> QED
    BY <1>1, Invariance, PTL

\* A Maya UI Session that some Run started is alive only while the Host Lock
\* names that Run (sessiond_broker.go:116), through lost answers, scripts that
\* run after their controller gave up, expiry, takeover, killed processes and stops
\* of Runs that live or have died, until a break: the mutex file of a live process
\* is removed, or a stop releases the lock under a live process of a checkout or
\* under a session whose identity was never recorded.
THEOREM SessionsUnderLock == Spec => []SessionUnderLock
  <1>1. IInv => SessionUnderLock
    BY DEF IInv
  <1> QED
    BY <1>1, Invariance, PTL

\* In a checkout, where a process owns the lock, at most one live process
\* believes that it does, until a mutex file or the lock is taken from a live one.
THEOREM HoldersExclude == Spec => []OneHolder
  <1>1. IInv => OneHolder
    <2> SUFFICES ASSUME IInv, place = "repo", broken = {}, NEW c \in Clients, NEW d \in Clients,
                        Holds(c), Holds(d), c # d
                 PROVE  FALSE
      BY DEF OneHolder
    <2>1. ASSUME NEW e \in Clients, Holds(e)
          PROVE  OwnedBy(e) \/ (At(e, "out") /\ client[e].op = "remove" /\ file = None /\ mutex = e)
      <3>1. HolderInv(e) /\ LocalInv(e) /\ Ctl(e, client[e])
        BY <2>1 DEF IInv
      <3> QED
        BY <2>1, <3>1 DEF HolderInv, LocalInv, Ctl, Asks, Own, Is, OwnedBy, At, Pending, Mutexed, Holds
    <2> QED
      BY <2>1 DEF OwnedBy
  <1> QED
    BY <1>1, Invariance, PTL

-----------------------------------------------------------------------------
(* The lock implements HostOwnership.                                      *)

\* What the lock file and the session do in one step, while mutexes exclude.
Taken == /\ maya' = maya /\ (file = None \/ (Expired /\ maya = None))
         /\ file' \in Lock /\ file'.content.state # "kept" /\ ~file'.expired
Changed == /\ maya' = maya /\ file \in Lock /\ file' \in Lock
           /\ file'.content.run = file.content.run
           /\ file.content.state # "kept" \/ file'.content.state = "kept"
Dropped == maya' = maya /\ file # None /\ maya # file.content.run /\ file' = None
Acted == /\ file \in Lock /\ ~Expired
         /\ file' \in Lock /\ file'.content = file.content /\ file'.expired = file.expired
         /\ \/ maya \in {None, file.content.run} /\ maya' = file.content.run
            \/ maya \in {None, Standing, file.content.run} /\ maya' = None
Owned == UNCHANGED <<file, maya>> \/ Taken \/ Changed \/ Dropped \/ Acted

LEMMA OwnedMaps ==
  ASSUME TypeOK, broken = {}, broken' = {}, Owned
  PROVE  [Ownership!Next]_(Ownership!vars)
  <1>1. /\ file # None => file \in Lock /\ file.content.run \in Clients
        /\ \A x \in Lock : x # None /\ x.content.run \in Clients /\ x.content.run # None
    BY NamesAssumption DEF TypeOK, Lock, Content
  <1>2. CASE UNCHANGED <<file, maya>>
    BY <1>2 DEF Ownership!vars
  <1>3. CASE Taken
    <2>1. Ownership!Take(file'.content.run)
      BY <1>1, <1>3 DEF Taken, Ownership!Take, Expired
    <2> QED
      BY <1>1, <1>3, <2>1 DEF Taken, Ownership!Next, Ownership!Kept
  <1>4. CASE Changed
    <2>1. Ownership!Change
      BY <1>1, <1>4 DEF Changed, Ownership!Change
    <2> QED
      BY <2>1 DEF Ownership!Next, Ownership!Kept
  <1>5. CASE Dropped
    <2>1. Ownership!Drop
      BY <1>1, <1>5 DEF Dropped, Ownership!Drop
    <2> QED
      BY <2>1 DEF Ownership!Next, Ownership!Kept
  <1>6. CASE Acted
    <2>1. Ownership!Launch \/ Ownership!Stop \/ UNCHANGED Ownership!vars
      BY <1>1, <1>6 DEF Acted, Ownership!Launch, Ownership!Stop, Ownership!vars, Expired
    <2> QED
      BY <2>1 DEF Ownership!Next, Ownership!Kept
  <1> QED
    BY <1>2, <1>3, <1>4, <1>5, <1>6 DEF Owned

\* A script does what HostOwnership allows, whenever it runs.
LEMMA ScriptOwned ==
  ASSUME IInv, broken = {}, NEW s, Legit(s), Execute(s)
  PROVE  Owned
  <1>1. TypeOK /\ SessionUnderLock
    BY DEF IInv
  <1>2. Effect(s) /\ s.run \in Clients /\ s.op \in Ops
    BY <1>1, ExecuteEffect DEF Legit, Scripts
  <1>3. s.op \in Claims \cup {"replace"} =>
          s.new \in Content /\ Written(s.new) \in Lock /\ Written(s.new).content = s.new
          /\ ~Written(s.new).expired
    <2>1. s.op \in Claims \cup {"replace"} => s.new \in Content
      BY <1>1, ExecuteEffect DEF Own
    <2> QED
      BY <1>1, <2>1, FileFacts
  <1>4. CASE UNCHANGED <<file, maya>>
    BY <1>4 DEF Owned
  <1>5. CASE /\ s.op \in Claims /\ maya' = maya /\ file' = Written(s.new)
             /\ file = None \/ (file.content.state # "kept" /\ file.expired /\ maya = None)
    <2>1. s.new.state = "claimed"
      BY <1>5 DEF Legit, Asks, First
    <2> QED
      BY <1>3, <1>5, <2>1 DEF Owned, Taken, Expired
  <1>6. CASE s.op = "replace" /\ maya' = maya /\ file' = Written(s.new) /\ Is(s.expected)
    <2>1. s.new.run = s.run /\ s.expected.run = s.run /\ s.expected.state # "kept"
      BY <1>2, <1>6 DEF Legit, Asks, Own, Claims
    <2>2. file \in Lock
      BY <1>1, <1>6 DEF TypeOK, Is
    <2> QED
      BY <1>3, <1>6, <2>1, <2>2 DEF Owned, Changed, Is
  <1>7. CASE s.op = "remove" /\ maya' = maya /\ file' = None /\ OwnedBy(s.run)
    BY <1>7 DEF Owned, Dropped, OwnedBy, Legit
  <1>8. CASE /\ s.op \in SessionOps /\ Fenced(s.run) /\ file' = Touched
             /\ maya' = IF s.op = "start" THEN s.run ELSE None
    <2>1. /\ file \in Lock /\ file.content.run = s.run /\ ~Expired
          /\ file' \in Lock /\ file'.content = file.content /\ file'.expired = file.expired
      BY <1>1, <1>8, FileFacts DEF Fenced, OwnedBy
    <2>2. maya \in {None, Standing, s.run}
      BY <1>1, <2>1 DEF TypeOK, SessionUnderLock, OwnedBy
    <2>3. s.op = "start" => maya \in {None, s.run}
      BY <2>2 DEF Legit
    <2> QED
      BY <1>8, <2>1, <2>2, <2>3 DEF Owned, Acted
  <1> QED
    BY <1>2, <1>4, <1>5, <1>6, <1>7, <1>8 DEF Effect

\* So does every write behind the mutex file, while it excludes.
LEMMA WriteOwned ==
  ASSUME IInv, broken = {}, NEW c \in Clients, Enter(c) \/ TakeOver(c) \/ Write(c)
  PROVE  Owned
  <1> DEFINE k == client[c]
  <1>1. place # "ssh" /\ maya' = maya /\ k.pc \in Mutexed /\ k.pc \in Pending
    BY DEF Enter, TakeOver, Write, Here, At, Outside, Mutexed, Pending
  <1>2. TypeOK /\ Ctl(c, k) /\ LocalInv(c) /\ SettledInv(c) /\ (place = "repo" => maya = None)
        /\ SessionUnderLock
    BY <1>1 DEF IInv
  <1>3. /\ Asks(c, k.op, k.expected, k.new) /\ k.op \in Ops
        /\ file # None => file \in Lock /\ file.content.run \in Clients /\ file.content.run # None
    BY <1>1, <1>2, FileFacts, NamesAssumption DEF Ctl, TypeOK, Controllers
  <1>4. k.new \in Content => /\ Written(k.new) \in Lock /\ Written(k.new).content = k.new
                             /\ ~Written(k.new).expired
    BY <1>2, FileFacts
  <1>5. CASE Enter(c)
    <2>1. file' = file \/ (k.op = "acquire" /\ file = None /\ file' = Written(k.new))
      BY <1>5, EnterIs
    <2>2. k.op = "acquire" => k.new \in Content /\ k.new.state = "claimed"
      BY <1>3, BoundAssumption DEF Asks, First, Claims, Content
    <2> QED
      BY <1>1, <1>4, <2>1, <2>2 DEF Owned, Taken
  <1>6. CASE TakeOver(c)
    <2>1. file' = None /\ LockStale
      BY <1>2, <1>6 DEF TakeOver, LocalInv, Here
    <2> QED
      BY <1>1, <1>2, <1>3, <2>1 DEF Owned, Dropped, LockStale, SessionInactive
  <1>7. CASE Write(c)
    <2>1. /\ OwnedBy(c) /\ (k.op # "remove" => Is(k.expected))
          /\ file' = IF k.op = "remove" THEN None ELSE Written(k.new)
          /\ k.op \notin Claims /\ k.pc = "write"
      BY <1>2, <1>7 DEF Write, Here, At, LocalInv, OwnedBy, Ctl
    <2>2. CASE k.op = "remove"
      <3>1. maya # c
        BY <1>2, <2>1, <2>2 DEF Ctl, SettledInv, Settled, At
      <3> QED
        BY <1>1, <2>1, <2>2, <3>1 DEF Owned, Dropped, OwnedBy
    <2>3. CASE k.op # "remove"
      <3>1. k.new \in Content /\ k.new.run = c /\ (k.new.state = "kept" \/ k.expected.state # "kept")
        BY <1>3, <2>1, <2>3 DEF Asks, Own, Ops, Claims
      <3> QED
        BY <1>1, <1>3, <1>4, <2>1, <2>3, <3>1 DEF Owned, Changed, OwnedBy, Is
    <2> QED
      BY <2>2, <2>3
  <1> QED
    BY <1>5, <1>6, <1>7

LEMMA ActOwned ==
  ASSUME IInv, broken = {}, NEW c \in Clients, Act(c)
  PROVE  Owned
  <1> DEFINE k == client[c]
  <1>1. place # "ssh" /\ file' = file /\ k.pc = "act" /\ maya' = Session(k.op, c)
    BY DEF Act, Here, At
  <1>2. TypeOK /\ Ctl(c, k) /\ LocalInv(c) /\ SettledInv(c) /\ SessionUnderLock /\ k.op \in SessionOps
    BY <1>1 DEF IInv, Ctl
  <1>3. maya' = IF k.op = "start" THEN c ELSE None
    BY <1>1, <1>2 DEF Session, SessionOps
  <1>4. file # None => ~file.expired /\ file \in Lock
    BY <1>1, <1>2 DEF LocalInv, At, TypeOK
  <1>5. k.op # "stop" => OwnedBy(c)
    BY <1>1, <1>2 DEF LocalInv, At, Is, OwnedBy, Ctl, Own
  <1>6. k.op # "clear" => maya # Standing
    BY <1>1, <1>2 DEF SettledInv, Ctl, SessionOps
  <1>7. CASE file = None
    BY <1>1, <1>2, <1>3, <1>5, <1>6, <1>7 DEF Owned, TypeOK, SessionUnderLock, OwnedBy, SessionOps
  <1>8. CASE file # None
    <2>1. maya \in {None, Standing, file.content.run} /\ ~Expired
      BY <1>2, <1>4, <1>8 DEF TypeOK, SessionUnderLock, OwnedBy, Expired
    <2> QED
      BY <1>1, <1>3, <1>4, <1>5, <1>6, <1>8, <2>1 DEF Owned, Acted, OwnedBy
  <1> QED
    BY <1>7, <1>8

LEMMA EnvironmentOwned ==
  ASSUME IInv, broken' = {},
         Expire \/ \E r \in Clients : StopRetained(r) \/ ReleaseForRun(r) \/ ReleaseClaim(r)
  PROVE  Owned
  <1>1. /\ TypeOK /\ (place = "repo" => maya = None)
        /\ file # None => file \in Lock /\ file.content.run \in Clients /\ file.content.run # None
    BY FileFacts, NamesAssumption DEF IInv
  <1>2. CASE Expire
    <2>1. file \in Lock /\ file' = [file EXCEPT !.expired = TRUE] /\ maya' = maya /\ file.content.state # "kept"
      BY <1>1, <1>2 DEF Expire
    <2>2. file' \in Lock /\ file'.content = file.content
      BY <2>1 DEF Lock
    <2> QED
      BY <2>1, <2>2 DEF Owned, Changed
  <1>3. ASSUME NEW r \in Clients, StopRetained(r) PROVE Owned
    BY <1>1, <1>3 DEF StopRetained, OwnedBy, Owned, Acted, Expired
  <1>4. ASSUME NEW r \in Clients, ReleaseForRun(r) PROVE Owned
    BY <1>1, <1>4, Released DEF OwnedBy, Owned, Dropped
  <1>5. ASSUME NEW r \in Clients, ReleaseClaim(r) PROVE Owned
    BY <1>1, <1>5 DEF ReleaseClaim, Owned, Dropped, Outside
  <1> QED
    BY <1>2, <1>3, <1>4, <1>5

LEMMA NextOwned ==
  ASSUME IInv, Next, broken' = {}
  PROVE  broken = {} /\ Owned
  <1>0. TypeOK /\ broken \subseteq Breaks
    BY DEF IInv, TypeOK
  <1>1. ASSUME NEW c \in Clients, RunStep(c) PROVE broken = {} /\ Owned
    <2>1. Calm
      BY <1>0, <1>1, FrontSteps DEF IInv
    <2> QED
      BY <2>1 DEF Calm, Owned
  <1>2. ASSUME NEW c \in Clients, RemoteStep(c) PROVE broken = {} /\ Owned
    <2>1. CASE Answered(c) \/ AnswerLost(c)
      <3>1. Execute(Script(c)) /\ Remote(c, "call") /\ broken' = broken
        BY <2>1 DEF Answered, AnswerLost, lockVars
      <3> QED
        BY <3>1, ScriptLegit, ScriptOwned
    <2>2. CASE TimedOut(c)
      BY <2>2 DEF TimedOut, Owned, lockVars
    <2>3. CASE ReadState(c) \/ ReadFails(c) \/ Reclaim(c)
      <3>1. Quiet
        BY <2>3 DEF ReadState, ReadFails, Reclaim
      <3> QED
        BY <3>1 DEF Quiet, Owned
    <2> QED
      BY <1>2, <2>1, <2>2, <2>3 DEF RemoteStep
  <1>3. ASSUME NEW c \in Clients, LocalStep(c) PROVE broken = {} /\ Owned
    <2>1. CASE Link(c) \/ Examine(c) \/ Look(c) \/ Exit(c)
      <3>1. file' = file /\ maya' = maya /\ broken' = broken
        BY <2>1 DEF Link, Examine, Look, Exit, Outside
      <3> QED
        BY <3>1 DEF Owned
    <2>2. CASE Steal(c)
      BY <1>0, <2>2 DEF Steal, Outside, Owned
    <2>3. CASE MutexTimeout(c)
      BY <2>3 DEF MutexTimeout, lockVars, Owned
    <2>4. CASE Enter(c) \/ TakeOver(c) \/ Write(c)
      <3>1. broken' = broken
        BY <2>4 DEF Enter, TakeOver, Write
      <3> QED
        BY <2>4, <3>1, WriteOwned
    <2>5. CASE Act(c)
      BY <2>5, ActOwned DEF Act, lockVars
    <2>6. CASE ReleaseClaim(c)
      BY <2>6, EnvironmentOwned DEF ReleaseClaim
    <2> QED
      BY <1>3, <2>1, <2>2, <2>3, <2>4, <2>5, <2>6 DEF LocalStep
  <1>4. ASSUME Environment PROVE broken = {} /\ Owned
    <2>1. ASSUME NEW s \in late, RunLate(s) PROVE broken = {} /\ Owned
      BY <2>1, LateLegit, ScriptOwned DEF RunLate, lockVars
    <2>2. CASE Expire \/ \E r \in Clients : StopRetained(r) \/ ReleaseForRun(r)
      <3>1. broken = {}
        BY <1>0, <2>2, Released DEF Expire, StopRetained, lockVars
      <3> QED
        BY <2>2, <3>1, EnvironmentOwned
    <2>3. ASSUME NEW c \in Clients, Die(c) PROVE broken = {} /\ Owned
      BY <2>3 DEF Die, Owned
    <2> QED
      BY <1>4, <2>1, <2>2, <2>3 DEF Environment
  <1> QED
    BY <1>1, <1>2, <1>3, <1>4 DEF Next

\* The Host Lock, remote or local, does what HostOwnership promises: a Maya UI
\* Session starts and stops only under its own Run's unexpired or kept lock,
\* and the lock passes on only when no session of its Run is alive, until a break.
THEOREM Refinement == Spec => ImplementsOwnership
  <1>1. Init => Ownership!Init
    BY DEF Init, Ownership!Init
  <1>2. IInv /\ [Next]_vars => [Ownership!Next]_(Ownership!vars)
    <2> SUFFICES ASSUME IInv, [Next]_vars PROVE [Ownership!Next]_(Ownership!vars)
      OBVIOUS
    <2>1. CASE UNCHANGED vars
      BY <2>1 DEF vars, Ownership!vars
    <2>2. CASE Next /\ broken' # {}
      BY <2>2 DEF Ownership!Next
    <2>3. CASE Next /\ broken' = {}
      <3>1. TypeOK /\ broken = {} /\ Owned
        BY <2>3, NextOwned DEF IInv
      <3> QED
        BY <2>3, <3>1, OwnedMaps
    <2> QED
      BY <2>1, <2>2, <2>3
  <1> QED
    BY <1>1, <1>2, Invariance, PTL DEF Spec, ImplementsOwnership, Ownership!Spec
=============================================================================
