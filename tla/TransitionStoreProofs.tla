------------------------ MODULE TransitionStoreProofs ------------------------
(***************************************************************************)
(* Proofs about TransitionStore, for any Runs, Hosts and number of failing *)
(* file operations.                                                        *)
(***************************************************************************)
EXTENDS TransitionStore, TLAPS

\* A record of Run r; one that is besides about Host h, or in one of the states S.
Of(x, r)    == x # None /\ x.run = r
At(x, r, h) == Of(x, r) /\ x.host = h
In(x, r, S) == Of(x, r) /\ x.state \in S

\* The records kept for a Run are that Run's.
Mine(x, r) == x # None => x.run = r

NamesInv ==
    \A r \in Runs : /\ Mine(journal[r], r) /\ Mine(sJournal[r], r) /\ Mine(assignment[r], r)
                    /\ Mine(sAssignment[r], r) /\ Mine(mem[r], r) /\ Mine(acked[r], r)
                    /\ \A x \in doubt[r] : x.run = r

\* What the operation in flight holds in each of its phases, and in which mode the
\* process then is.
OpInv ==
    /\ Idle => op = NoOp
    /\ ~Idle => op.phase \in Phases
    /\ op.kind \notin {None, "boot"} => op.want \in Record
    /\ op.kind = "boot" <=> mode = "recover"
    /\ op.kind = "boot" => op.phase \in {"scan", "replay"} /\ op.want = None
    /\ mode \in {"exit", "down", "refused"} => Idle
    /\ op.kind = "marker" => mode = "markers"
    /\ op.kind = "complete" => mode \in {"load", "serving"}
    /\ op.kind \in Kinds \ {"boot", "marker", "complete"} => mode = "serving"
    /\ op.phase = "persist" => op.cur = op.want /\ op.at \in 0..5
    /\ op.phase = "scan" => op.cur = None /\ op.at \in 0..5
    /\ op.phase = "replay" => (op.cur = None /\ op.at = 0) \/ (op.cur # None /\ op.at \in 1..5)
    /\ op.phase = "verify" => \/ op.at = 6 /\ ~op.failed /\ op.cur = op.want
                              \/ op.at \in 0..5 /\ op.cur = None
    /\ op.phase # "verify" => ~op.failed

\* Recover has still to replay the journals that are there, and no others.
TodoInv ==
    op.phase = "replay" =>
        /\ \A r \in Runs : journal[r] # None <=> r \in op.todo \/ (Of(op.cur, r) /\ op.at \in 1..4)
        /\ op.cur # None => op.cur.run \notin op.todo

\* While startup loads the Host Locks, it finishes one assignment at a time, and
\* the locks it has still to load are there.
UnreadInv ==
    mode = "load" =>
        /\ \A h \in unread : hostLock[h] # None
        /\ ~Idle => op.want.host \notin unread
        /\ \A r \in Runs : journal[r] # None => journal[r] = op.want
        /\ op.cur # None => op.cur.host = op.want.host

\* The journal of the record that is being applied is there until it is removed,
\* and a Commit that succeeds leaves none.
JournalInv ==
    /\ op.phase = "persist" /\ op.at \in 1..4 => journal[op.want.run] = op.want
    /\ op.phase = "replay" /\ op.at \in 1..4 =>
         /\ journal[op.cur.run] # None /\ journal[op.cur.run].host = op.cur.host
         /\ \/ op.cur = journal[op.cur.run]
            \/ op.cur.state = "quarantined" /\ journal[op.cur.run].state # "completed"
    /\ (op.phase = "persist" /\ op.at = 5) \/ op.at = 6 => journal[op.want.run] = None
    /\ op.phase = "verify" /\ op.at # 6 /\ ~op.failed => \A r \in Runs : journal[r] = None

Base == TypeOK /\ NamesInv /\ OpInv /\ TodoInv /\ JournalInv /\ UnreadInv

-----------------------------------------------------------------------------
(* The operators of the module.                                            *)

\* The absent value is none of the others.
LEMMA NoneDiffers ==
    /\ None \notin Runs /\ None \notin Hosts /\ None \notin Record /\ None \notin LockRecord
    /\ None \notin Kinds /\ None \notin Phases
    BY NoneAssumption

\* A record with its next state.
LEMMA ToIs ==
    ASSUME NEW rec \in Record, NEW state \in States
    PROVE  /\ To(rec, state) \in Record
           /\ To(rec, state).run = rec.run /\ To(rec, state).host = rec.host
           /\ To(rec, state).bound = rec.bound /\ To(rec, state).state = state
           /\ To(rec, state).ledger =
                IF state \in {"assigned", "confirmed"} THEN "submitted" ELSE "terminal"
<1>1. PICK l \in Ledgers : l = IF state \in {"assigned", "confirmed"} THEN "submitted" ELSE "terminal"
    BY DEF Ledgers
<1>2. To(rec, state) = [rec EXCEPT !.state = state, !.ledger = l]
    BY <1>1 DEF To
<1> QED
    BY <1>1, <1>2 DEF To, Record, Ledgers, States

\* The Host Lock of a record.
LEMMA LockIs ==
    ASSUME NEW rec \in Record
    PROVE  /\ LockOf(rec) \in LockRecord /\ LockOf(rec).run = rec.run
           /\ LockOf(rec).state = rec.state /\ LockOf(rec).bound = rec.bound
    BY DEF LockOf, LockRecord, Record

\* No operation.
LEMMA Ends ==
    /\ NoOp.kind = None /\ NoOp.phase = None /\ NoOp.want = None /\ NoOp.cur = None
    /\ NoOp.at = 0 /\ NoOp.todo = {} /\ ~NoOp.failed
    /\ NoOp \in Operation
    BY DEF NoOp, Operation

\* Recover at startup begins with a scan.
LEMMA RecoverIs ==
    /\ RecoverOp.kind = "boot" /\ RecoverOp.phase = "scan" /\ RecoverOp.want = None
    /\ RecoverOp.cur = None /\ RecoverOp.at = 0 /\ RecoverOp.todo = {} /\ ~RecoverOp.failed
    /\ RecoverOp \in Operation
<1>1. PICK n : n = NoOp
    OBVIOUS
<1>2. RecoverOp = [n EXCEPT !.kind = "boot", !.phase = "scan"]
    BY <1>1 DEF RecoverOp
<1> QED
    BY <1>1, <1>2, Ends DEF Kinds, Phases, Operation

\* The fields of the operation in flight.
LEMMA OpFields ==
    ASSUME op \in Operation
    PROVE  /\ op.kind \in Kinds \cup {None} /\ op.phase \in Phases \cup {None}
           /\ op.want \in Record \cup {None} /\ op.cur \in Record \cup {None}
           /\ op.at \in 0..6 /\ op.todo \in SUBSET Runs /\ op.failed \in BOOLEAN
    BY DEF Operation

\* The files of a transition, in the order of persist and apply.
LEMMA StepIs ==
    ASSUME NEW rec \in Record, NEW at \in 0..5
    PROVE  /\ at = 0 => StepAt(rec, at) = "journal"
           /\ at = 1 => StepAt(rec, at) = IF rec.state = "completed" THEN "assignment" ELSE "ledger"
           /\ at = 2 => StepAt(rec, at) = IF rec.state = "completed" THEN "ledger" ELSE "lock"
           /\ at = 3 => StepAt(rec, at) = IF rec.state = "completed" THEN "unlock" ELSE "assignment"
           /\ at = 4 => StepAt(rec, at) = "remove"
           /\ at = 5 => StepAt(rec, at) = "sync"
    BY DEF StepAt, Steps

\* What recovery replays in the place of a journal.
LEMMA PrepareIs ==
    ASSUME TypeOK, NEW rec \in Record
    PROVE  /\ Prepare(rec) \in Record
           /\ Prepare(rec).run = rec.run /\ Prepare(rec).host = rec.host
           /\ Prepare(rec).bound = rec.bound
           /\ \/ Prepare(rec) = rec /\ (quar[rec.host] # rec.run \/ rec.state = "completed")
              \/ /\ quar[rec.host] = rec.run /\ rec.state # "completed"
                 /\ Prepare(rec).state = "quarantined" /\ Prepare(rec).ledger = ledger[rec.run]
    BY DEF Prepare, Record, TypeOK, States

\* The fields of a record.
LEMMA RecordIs ==
    ASSUME NEW rec \in Record
    PROVE  rec.run \in Runs /\ rec.host \in Hosts /\ rec.state \in States /\ rec.ledger \in Ledgers
    BY DEF Record

\* A failure is counted.
LEMMA Counted == ASSUME faults \in 0..MaxFaults, faults < MaxFaults PROVE faults + 1 \in 0..MaxFaults
    BY FaultAssumption

\* What a file operation leaves visible.
LEMMA EffectIs ==
    ASSUME NEW rec, NEW step, Effect(step, rec)
    PROVE  /\ step = "journal" => /\ journal' = [journal EXCEPT ![rec.run] = rec]
                                  /\ UNCHANGED <<assignment, ledger, hostLock>>
           /\ step = "remove" => /\ journal' = [journal EXCEPT ![rec.run] = None]
                                 /\ UNCHANGED <<assignment, ledger, hostLock>>
           /\ step = "assignment" => /\ assignment' = [assignment EXCEPT ![rec.run] = rec]
                                     /\ UNCHANGED <<journal, ledger, hostLock>>
           /\ step = "ledger" => /\ ledger' = [ledger EXCEPT ![rec.run] = rec.ledger]
                                 /\ UNCHANGED <<journal, assignment, hostLock>>
           /\ step = "lock" => /\ hostLock' = [hostLock EXCEPT ![rec.host] = LockOf(rec)]
                               /\ UNCHANGED <<journal, assignment, ledger>>
           /\ step = "unlock" => /\ hostLock' = [hostLock EXCEPT ![rec.host] = None]
                                 /\ UNCHANGED <<journal, assignment, ledger>>
           /\ step = "sync" => UNCHANGED <<journal, assignment, ledger, hostLock>>
    BY DEF Effect

\* The file operation at which the operation in flight is, as it changes what is seen.
Wrote ==
    \/ /\ op.at = 0 /\ journal' = [journal EXCEPT ![op.cur.run] = op.cur]
       /\ UNCHANGED <<assignment, ledger, hostLock>>
    \/ /\ op.at = IF op.cur.state = "completed" THEN 1 ELSE 3
       /\ assignment' = [assignment EXCEPT ![op.cur.run] = op.cur]
       /\ UNCHANGED <<journal, ledger, hostLock>>
    \/ /\ op.at = IF op.cur.state = "completed" THEN 2 ELSE 1
       /\ ledger' = [ledger EXCEPT ![op.cur.run] = op.cur.ledger]
       /\ UNCHANGED <<journal, assignment, hostLock>>
    \/ /\ op.at = 2 /\ op.cur.state # "completed"
       /\ hostLock' = [hostLock EXCEPT ![op.cur.host] = LockOf(op.cur)]
       /\ UNCHANGED <<journal, assignment, ledger>>
    \/ /\ op.at = 3 /\ op.cur.state = "completed"
       /\ hostLock' = [hostLock EXCEPT ![op.cur.host] = None]
       /\ UNCHANGED <<journal, assignment, ledger>>
    \/ /\ op.at = 4 /\ journal' = [journal EXCEPT ![op.cur.run] = None]
       /\ UNCHANGED <<assignment, ledger, hostLock>>
    \/ op.at = 5 /\ UNCHANGED <<journal, assignment, ledger, hostLock>>

\* A file operation is one of these.
LEMMA Writes ==
    ASSUME TypeOK, OpInv, op.phase \in {"persist", "replay"}, op.cur # None,
           Effect(StepAt(op.cur, op.at), op.cur)
    PROVE  Wrote
<1>1. op.cur \in Record /\ op.at \in 0..5
    BY DEF TypeOK, OpInv, Operation
<1>2. op.cur.state = "completed" \/ op.cur.state # "completed"
    OBVIOUS
<1> HIDE DEF TypeOK, OpInv, Operation
<1>3. CASE op.at = 0
    BY <1>1, <1>3, StepIs, EffectIs DEF Wrote
<1>4. CASE op.at = 1
    BY <1>1, <1>4, StepIs, EffectIs DEF Wrote
<1>5. CASE op.at = 2
    BY <1>1, <1>5, StepIs, EffectIs DEF Wrote
<1>6. CASE op.at = 3
    BY <1>1, <1>6, StepIs, EffectIs DEF Wrote
<1>7. CASE op.at = 4
    BY <1>1, <1>7, StepIs, EffectIs DEF Wrote
<1>8. CASE op.at = 5
    BY <1>1, <1>8, StepIs, EffectIs DEF Wrote
<1> QED
    BY <1>1, <1>3, <1>4, <1>5, <1>6, <1>7, <1>8

\* A file operation that succeeds, and the next one.
LEMMA FileStepIs ==
    ASSUME TypeOK, OpInv, FileStep
    PROVE  /\ op.cur \in Record /\ op.at \in 0..5 /\ op.phase \in {"persist", "replay"}
           /\ op.kind # None /\ Wrote
           /\ op'.kind = op.kind /\ op'.want = op.want /\ op'.todo = op.todo
           /\ op'.failed = op.failed
           /\ UNCHANGED <<marker, mem, quar, mode, unread, faults, acked, doubt>>
           /\ op.at < 5 => op'.at = op.at + 1 /\ op'.phase = op.phase /\ op'.cur = op.cur
           /\ op.at = 5 /\ op.phase = "persist" =>
                op'.at = 6 /\ op'.phase = "verify" /\ op'.cur = op.cur
           /\ op.at = 5 /\ op.phase = "replay" =>
                op'.at = 0 /\ op'.phase = "replay" /\ op'.cur = None
           /\ op' \in Operation
<1>1. /\ op.phase \in {"persist", "replay"} /\ op.kind # None /\ op.cur # None
      /\ Effect(StepAt(op.cur, op.at), op.cur) /\ op' = Advance
      /\ UNCHANGED <<marker, mem, quar, mode, unread, faults, acked, doubt>>
    BY DEF FileStep, Running, hist
<1>2. op.cur \in Record /\ op.at \in 0..5
    BY <1>1 DEF TypeOK, OpInv, Operation
<1>3. Wrote
    BY <1>1, Writes
<1>4. CASE op.at < 5
    <2>1. op' = [op EXCEPT !.at = op.at + 1]
        BY <1>1, <1>4 DEF Advance
    <2> QED
        BY <2>1, <1>1, <1>2, <1>3, <1>4 DEF TypeOK, Operation
<1>5. CASE op.at = 5 /\ op.phase = "persist"
    <2>1. op' = [op EXCEPT !.phase = "verify", !.at = 6]
        BY <1>1, <1>5 DEF Advance
    <2>2. op' \in Operation
        <3>1. 6 \in 0..6 /\ 0 \in 0..6 /\ {"verify", "replay"} \subseteq Phases
            BY DEF Phases
        <3> QED
            BY <2>1, <3>1 DEF TypeOK, Operation
    <2>3. /\ op'.kind = op.kind /\ op'.want = op.want /\ op'.todo = op.todo
          /\ op'.failed = op.failed
          /\ op'.at = 6 /\ op'.phase = "verify" /\ op'.cur = op.cur
        BY <2>1 DEF TypeOK, Operation
    <2> QED
        BY <2>2, <2>3, <1>1, <1>2, <1>3, <1>5
<1>6. CASE op.at = 5 /\ op.phase = "replay"
    <2>1. op' = [op EXCEPT !.phase = "replay", !.cur = None, !.at = 0]
        BY <1>1, <1>6 DEF Advance, AfterReplay
    <2>2. op' \in Operation
        <3>1. 6 \in 0..6 /\ 0 \in 0..6 /\ {"verify", "replay"} \subseteq Phases
            BY DEF Phases
        <3> QED
            BY <2>1, <3>1 DEF TypeOK, Operation
    <2>3. /\ op'.kind = op.kind /\ op'.want = op.want /\ op'.todo = op.todo
          /\ op'.failed = op.failed
          /\ op'.at = 0 /\ op'.phase = "replay" /\ op'.cur = None
        BY <2>1 DEF TypeOK, Operation
    <2> QED
        BY <2>2, <2>3, <1>1, <1>2, <1>3, <1>6
<1> QED
    BY <1>1, <1>2, <1>4, <1>5, <1>6

\* What a failure makes of the operation.
LEMMA FailsIs ==
    ASSUME TypeOK, OpInv, op.kind # None, op.phase \in {"persist", "scan", "replay"}, op' = Fails
    PROVE  /\ op.kind = "boot" => op' = NoOp
           /\ op.kind # "boot" =>
                /\ op'.kind = op.kind /\ op'.want = op.want /\ op'.todo = op.todo
                /\ op'.cur = None /\ op'.at = op.at /\ op.at \in 0..5
                /\ op.phase = "persist" => op'.phase = "scan" /\ ~op'.failed
                /\ op.phase # "persist" => op'.phase = "verify" /\ op'.failed
           /\ op' \in Operation
<1>1. op.at \in 0..5
    BY DEF OpInv, TypeOK, Operation
<1>2. ~op.failed
    BY DEF OpInv, TypeOK, Operation
<1>3. CASE op.kind = "boot"
    BY <1>3, Ends DEF Fails
<1>4. CASE op.kind # "boot" /\ op.phase = "persist"
    <2>1. op' = [op EXCEPT !.phase = "scan", !.cur = None]
        BY <1>4 DEF Fails
    <2> QED
        BY <2>1, <1>1, <1>2, <1>4 DEF TypeOK, Phases, Operation
<1>5. CASE op.kind # "boot" /\ op.phase # "persist"
    <2>1. op' = [op EXCEPT !.phase = "verify", !.cur = None, !.failed = TRUE]
        BY <1>5 DEF Fails
    <2> QED
        BY <2>1, <1>1, <1>5 DEF TypeOK, Phases, Operation
<1> QED
    BY <1>3, <1>4, <1>5

\* A file operation that fails, with its effect or without.
LEMMA FileStepFailsIs ==
    ASSUME TypeOK, OpInv, FileStepFails
    PROVE  /\ op.cur \in Record /\ op.at \in 0..5 /\ op.phase \in {"persist", "replay"}
           /\ op.kind # None /\ op' = Fails
           /\ (Wrote /\ op.at # 4) \/ UNCHANGED files
           /\ NotSynced /\ mode' = (IF op.kind = "boot" THEN "exit" ELSE mode)
           /\ UNCHANGED <<marker, mem, quar, unread, acked, doubt>>
           /\ faults < MaxFaults /\ faults' = faults + 1
<1>1. /\ op.phase \in {"persist", "replay"} /\ op.kind # None /\ op.cur # None /\ op' = Fails
      /\ \/ StepAt(op.cur, op.at) # "remove" /\ Effect(StepAt(op.cur, op.at), op.cur)
         \/ UNCHANGED files
      /\ NotSynced /\ mode' = (IF op.kind = "boot" THEN "exit" ELSE mode)
      /\ UNCHANGED <<marker, mem, quar, unread, acked, doubt>>
      /\ faults < MaxFaults /\ faults' = faults + 1
    BY DEF FileStepFails, Running, Fault, hist
<1>2. op.cur \in Record /\ op.at \in 0..5
    BY <1>1 DEF TypeOK, OpInv, Operation
<1>3. StepAt(op.cur, op.at) # "remove" => op.at # 4
    BY <1>2, StepIs
<1>4. Effect(StepAt(op.cur, op.at), op.cur) => Wrote
    BY <1>1, Writes
<1> QED
    BY <1>1, <1>2, <1>3, <1>4

\* What a crash leaves: file by file the visible or the durable content.
LEMMA CrashIs ==
    ASSUME TypeOK, Crash
    PROVE  /\ journal' \in [Runs -> Record \cup {None}] /\ sJournal' = journal'
           /\ assignment' \in [Runs -> Record \cup {None}] /\ sAssignment' = assignment'
           /\ ledger' \in [Runs -> Ledgers] /\ sLedger' = ledger'
           /\ hostLock' \in [Hosts -> LockRecord \cup {None}] /\ sHostLock' = hostLock'
           /\ \A r \in Runs : /\ journal'[r] \in {journal[r], sJournal[r]}
                              /\ assignment'[r] \in {assignment[r], sAssignment[r]}
                              /\ ledger'[r] \in {ledger[r], sLedger[r]}
           /\ \A h \in Hosts : hostLock'[h] \in {hostLock[h], sHostLock[h]}
           /\ quar' \in [Hosts -> Runs \cup {None}]
           /\ \A h \in Hosts : quar'[h] \in {quar[h], None}
           /\ mem' = [r \in Runs |-> None] /\ op' = NoOp /\ mode' = "down" /\ unread' = {}
           /\ UNCHANGED <<marker, faults, hist>>
<1> USE DEF Crash, TypeOK
<1>1. journal' \in [Runs -> Record \cup {None}] /\ \A r \in Runs : journal'[r] \in {journal[r], sJournal[r]}
    OBVIOUS
<1>2. assignment' \in [Runs -> Record \cup {None}] /\ \A r \in Runs : assignment'[r] \in {assignment[r], sAssignment[r]}
    OBVIOUS
<1>3. ledger' \in [Runs -> Ledgers] /\ \A r \in Runs : ledger'[r] \in {ledger[r], sLedger[r]}
    OBVIOUS
<1>4. hostLock' \in [Hosts -> LockRecord \cup {None}] /\ \A h \in Hosts : hostLock'[h] \in {hostLock[h], sHostLock[h]}
    OBVIOUS
<1>5. quar' \in [Hosts -> Runs \cup {None}] /\ \A h \in Hosts : quar'[h] \in {quar[h], None}
    OBVIOUS
<1> QED
    BY <1>1, <1>2, <1>3, <1>4, <1>5

\* Recover lists the journals.
LEMMA ScanIs ==
    ASSUME TypeOK, OpInv, Scan
    PROVE  /\ op.phase = "scan" /\ op.kind # None
           /\ op'.kind = op.kind /\ op'.phase = "replay" /\ op'.want = op.want /\ op'.cur = None
           /\ op'.at = 0 /\ op'.todo = {r \in Runs : journal[r] # None} /\ op'.failed = op.failed
           /\ op' \in Operation
<1>1. PICK n : n = AfterReplay
    OBVIOUS
<1>2. PICK t \in SUBSET Runs : t = {r \in Runs : journal[r] # None}
    OBVIOUS
<1>3. n = [op EXCEPT !.phase = "replay", !.cur = None, !.at = 0]
    BY <1>1 DEF AfterReplay
<1>4. /\ n.kind = op.kind /\ n.phase = "replay" /\ n.want = op.want /\ n.cur = None
      /\ n.at = 0 /\ n.failed = op.failed /\ n \in Operation
    <2>1. 0 \in 0..6 /\ "replay" \in Phases
        BY DEF Phases
    <2> QED
        BY <1>3, <2>1 DEF TypeOK, Operation
<1>5. op' = [n EXCEPT !.todo = t]
    BY <1>1, <1>2 DEF Scan
<1>6. /\ op'.kind = n.kind /\ op'.phase = n.phase /\ op'.want = n.want /\ op'.cur = n.cur
      /\ op'.at = n.at /\ op'.failed = n.failed /\ op'.todo = t /\ op' \in Operation
    BY <1>4, <1>5 DEF Operation
<1> QED
    BY <1>2, <1>4, <1>6 DEF Scan, Running

\* Recover takes the next journal.
LEMMA PickIs ==
    ASSUME TypeOK, NamesInv, OpInv, TodoInv, PickJournal
    PROVE  /\ op.phase = "replay" /\ op.kind # None /\ op.cur = None
           /\ \E r \in op.todo :
                /\ r \in Runs /\ journal[r] \in Record /\ journal[r].run = r
                /\ op'.kind = op.kind /\ op'.phase = "replay" /\ op'.want = op.want
                /\ op'.cur = Prepare(journal[r]) /\ op'.at = 1 /\ op'.todo = op.todo \ {r}
                /\ op'.failed = op.failed
           /\ op' \in Operation
<1>1. op.phase = "replay" /\ op.kind # None /\ op.cur = None
    BY DEF PickJournal, Running
<1>2. PICK r \in op.todo : op' = [op EXCEPT !.cur = Prepare(journal[r]), !.at = 1, !.todo = op.todo \ {r}]
    BY DEF PickJournal
<1>3. r \in Runs /\ journal[r] # None
    BY <1>1, <1>2, OpFields DEF TodoInv, TypeOK
<1>4. journal[r] \in Record /\ journal[r].run = r
    BY <1>3 DEF TypeOK, NamesInv, Mine
<1>5. PICK x \in Record : x = Prepare(journal[r])
    BY <1>4, PrepareIs
<1>6. PICK t \in SUBSET Runs : t = op.todo \ {r}
    BY OpFields DEF TypeOK
<1>7. op' = [op EXCEPT !.cur = x, !.at = 1, !.todo = t]
    BY <1>2, <1>5, <1>6
<1>8. 1 \in 0..6
    OBVIOUS
<1>9. /\ op'.kind = op.kind /\ op'.phase = op.phase /\ op'.want = op.want /\ op'.cur = x
      /\ op'.at = 1 /\ op'.failed = op.failed /\ op'.todo = t /\ op' \in Operation
    BY <1>7, <1>8 DEF TypeOK, Operation
<1> QED
    BY <1>1, <1>2, <1>3, <1>4, <1>5, <1>6, <1>9

\* All journals are replayed.
LEMMA ReplayedIs ==
    ASSUME TypeOK, ReplayDone
    PROVE  /\ op.phase = "replay" /\ op.kind # None /\ op.cur = None /\ op.todo = {}
           /\ op.kind = "boot" => op' = NoOp
           /\ op.kind # "boot" =>
                /\ op'.kind = op.kind /\ op'.phase = "verify" /\ op'.want = op.want /\ op'.cur = None
                /\ op'.at = op.at /\ op'.todo = {} /\ op'.failed = op.failed
           /\ op' \in Operation
<1>1. op.phase = "replay" /\ op.kind # None /\ op.cur = None /\ op.todo = {}
    BY DEF ReplayDone, Running
<1>2. CASE op.kind = "boot"
    BY <1>1, <1>2, Ends DEF ReplayDone
<1>3. CASE op.kind # "boot"
    <2>1. op' = [op EXCEPT !.phase = "verify"]
        BY <1>3 DEF ReplayDone
    <2>2. /\ op'.kind = op.kind /\ op'.phase = "verify" /\ op'.want = op.want /\ op'.cur = op.cur
          /\ op'.at = op.at /\ op'.todo = op.todo /\ op'.failed = op.failed /\ op' \in Operation
        BY <2>1 DEF TypeOK, Operation, Phases
    <2> QED
        BY <1>1, <1>3, <2>2
<1> QED
    BY <1>2, <1>3

\* What memory holds for a Run is a record.
LEMMA MemIs ==
    ASSUME TypeOK, NEW r \in Runs, mem[r] # None PROVE mem[r] \in Record
    BY DEF TypeOK

\* Only a transition is verified.
LEMMA VerifyIs ==
    ASSUME TypeOK, OpInv, Running("verify")
    PROVE  /\ op.kind \in Kinds \ {"boot"} /\ op.phase = "verify" /\ mode # "down"
           /\ op.want \in Record /\ op.want.run \in Runs /\ op.want.host \in Hosts
<1>1. op.kind \in Kinds \ {"boot"} /\ op.phase = "verify" /\ mode # "down"
    BY OpFields DEF OpInv, Running, TypeOK
<1>2. op.want \in Record
    BY <1>1, NoneDiffers DEF OpInv
<1> QED
    BY <1>1, <1>2 DEF Record

\* The assignment that a Host Lock matches.
LEMMA LoadIs ==
    ASSUME TypeOK, NamesInv, UnreadInv, NEW h \in Hosts, LoadLock(h)
    PROVE  /\ hostLock[h] \in LockRecord /\ hostLock[h].run \in Runs
           /\ LockMatches(h) =>
                /\ assignment[hostLock[h].run] \in Record
                /\ assignment[hostLock[h].run].run = hostLock[h].run
                /\ assignment[hostLock[h].run].host = h
                /\ assignment[hostLock[h].run].state # "completed"
<1>1. hostLock[h] \in LockRecord
    BY DEF LoadLock, UnreadInv, TypeOK
<1>2. hostLock[h].run \in Runs
    BY <1>1 DEF LockRecord
<1>3. LockMatches(h) => assignment[hostLock[h].run] # None /\ assignment[hostLock[h].run].host = h
    BY DEF LockMatches
<1>4. assignment[hostLock[h].run] # None => /\ assignment[hostLock[h].run] \in Record
                                             /\ assignment[hostLock[h].run].run = hostLock[h].run
    BY <1>2 DEF TypeOK, NamesInv, Mine
<1>5. LockMatches(h) => assignment[hostLock[h].run].state # "completed"
    BY <1>3, <1>4, LockIs DEF LockMatches
<1> QED
    BY <1>1, <1>2, <1>3, <1>4, <1>5

\* A Commit of rec begins.
Starts(kind, rec) ==
    /\ op'.kind = kind /\ op'.phase = "persist" /\ op'.want = rec /\ op'.cur = rec
    /\ op'.at = 0 /\ op'.todo = {} /\ ~op'.failed /\ op' \in Operation

\* Committing a record begins like this.
LEMMA Starting ==
    ASSUME NEW kind \in Kinds, NEW rec \in Record, op' = CommitOp(kind, rec)
    PROVE  Starts(kind, rec)
<1>1. PICK n : n = NoOp
    OBVIOUS
<1>2. op' = [n EXCEPT !.kind = kind, !.phase = "persist", !.want = rec, !.cur = rec]
    BY <1>1 DEF CommitOp
<1> QED
    BY <1>1, <1>2, Ends DEF Phases, Operation, Starts

\* The record of a Run that is given to a Host.
LEMMA AssignIs ==
    ASSUME NEW r \in Runs, NEW h \in Hosts, Assign(r, h)
    PROVE  \E rec \in Record :
             /\ rec.run = r /\ rec.host = h /\ rec.state = "assigned" /\ ~rec.bound
             /\ rec.ledger = "submitted" /\ Starts("assign", rec)
             /\ doubt' = [doubt EXCEPT ![r] = doubt[r] \cup {rec}]
             /\ marker' = [marker EXCEPT ![h] = r] /\ Serving
             /\ UNCHANGED <<files, synced, mem, quar, mode, unread, faults, acked>>
<1>1. PICK rec \in Record : rec = [run |-> r, host |-> h, state |-> "assigned", bound |-> FALSE,
                                   ledger |-> "submitted"]
    BY DEF Record, States, Ledgers
<1>2. rec.run = r /\ rec.host = h /\ rec.state = "assigned" /\ ~rec.bound /\ rec.ledger = "submitted"
    BY <1>1
<1>3. Begin("assign", rec)
    BY <1>1 DEF Assign
<1>4. Starts("assign", rec)
    BY <1>3, Starting DEF Begin, Kinds
<1> QED
    BY <1>2, <1>3, <1>4 DEF Assign, Begin

\* A handler of an assigned Run r: confirm, bind, finish, resume or quarantine.
Handle(r) == Confirm(r) \/ Bind(r) \/ Finish(r) \/ ResumeFinishing(r) \/ Quarantine(r)

\* The transition that a handler starts from the record in memory.
Handled(r, kind, rec) ==
    /\ rec.run = mem[r].run /\ rec.host = mem[r].host
    /\ rec.ledger = IF rec.state = "confirmed" THEN
                       IF kind = "bind" THEN mem[r].ledger ELSE "submitted" ELSE "terminal"
    /\ \/ /\ kind = "confirm" /\ rec.state = "confirmed" /\ mem[r].state \in {"assigned", "confirmed"}
       \/ /\ kind = "bind" /\ rec.state = "confirmed" /\ mem[r].state = "confirmed"
       \/ /\ kind = "finish" /\ rec.state = "finishing" /\ mem[r].state = "confirmed"
       \/ /\ kind = "complete" /\ rec.state = "completed" /\ mem[r].state = "finishing"
       \/ /\ kind = "quarantine" /\ rec.state = "quarantined" /\ mem[r].state = "confirmed"
    /\ IF kind = "quarantine"
       THEN /\ ledger' = [ledger EXCEPT ![r] = "terminal"]
            /\ sLedger' = [sLedger EXCEPT ![r] = "terminal"]
       ELSE UNCHANGED <<ledger, sLedger>>

\* What such a handler does.
LEMMA HandleIs ==
    ASSUME TypeOK, NamesInv, NEW r \in Runs, Handle(r)
    PROVE  /\ Serving /\ mem[r] \in Record /\ mem[r].run = r
           /\ UNCHANGED <<journal, sJournal, assignment, sAssignment, hostLock, sHostLock,
                          marker, mem, quar, mode, unread, faults, acked>>
           /\ \E kind \in Kinds, rec \in Record :
                /\ Starts(kind, rec) /\ Handled(r, kind, rec)
                /\ doubt' = [doubt EXCEPT ![r] = doubt[r] \cup {rec}]
<1>1. Serving /\ mem[r] # None
    BY DEF Handle, Confirm, Bind, Finish, ResumeFinishing, Quarantine
<1>2. mem[r] \in Record /\ mem[r].run = r
    BY <1>1 DEF TypeOK, NamesInv, Mine
<1>3. UNCHANGED <<journal, sJournal, assignment, sAssignment, hostLock, sHostLock,
                  marker, mem, quar, mode, unread, faults, acked>>
    BY DEF Handle, Confirm, Bind, Finish, ResumeFinishing, Quarantine, Begin, files, synced
<1>4. ASSUME NEW kind \in Kinds, NEW rec \in Record, Begin(kind, rec), rec.run = r
      PROVE  /\ Starts(kind, rec) /\ doubt' = [doubt EXCEPT ![r] = doubt[r] \cup {rec}]
             /\ UNCHANGED <<ledger, sLedger>>
    BY <1>4, Starting DEF Begin, files, synced
<1>5. CASE Confirm(r)
    <2>1. PICK rec \in Record : rec = To(mem[r], "confirmed")
        BY <1>2, ToIs DEF States
    <2>2. rec.run = mem[r].run /\ rec.host = mem[r].host /\ rec.state = "confirmed" /\ rec.ledger = "submitted"
        BY <1>2, <2>1, ToIs DEF States
    <2>3. Begin("confirm", rec) /\ mem[r].state \in {"assigned", "confirmed"}
        BY <1>5, <2>1 DEF Confirm
    <2>4. "confirm" \in Kinds
        BY DEF Kinds
    <2> QED
        BY <1>1, <1>2, <1>3, <1>4, <2>2, <2>3, <2>4 DEF Handled
<1>6. CASE Bind(r)
    <2>1. PICK rec \in Record : rec = [mem[r] EXCEPT !.bound = TRUE]
        BY <1>2 DEF Record
    <2>2. rec.run = mem[r].run /\ rec.host = mem[r].host /\ rec.state = mem[r].state /\ rec.ledger = mem[r].ledger
        BY <1>2, <2>1 DEF Record
    <2>3. Begin("bind", rec) /\ mem[r].state = "confirmed"
        BY <1>6, <2>1 DEF Bind
    <2>4. "bind" \in Kinds
        BY DEF Kinds
    <2> QED
        BY <1>1, <1>2, <1>3, <1>4, <2>2, <2>3, <2>4 DEF Handled
<1>7. CASE Finish(r)
    <2>1. PICK rec \in Record : rec = To(mem[r], "finishing")
        BY <1>2, ToIs DEF States
    <2>2. rec.run = mem[r].run /\ rec.host = mem[r].host /\ rec.state = "finishing" /\ rec.ledger = "terminal"
        BY <1>2, <2>1, ToIs DEF States
    <2>3. Begin("finish", rec) /\ mem[r].state = "confirmed"
        BY <1>7, <2>1 DEF Finish
    <2>4. "finish" \in Kinds
        BY DEF Kinds
    <2> QED
        BY <1>1, <1>2, <1>3, <1>4, <2>2, <2>3, <2>4 DEF Handled
<1>8. CASE ResumeFinishing(r)
    <2>1. PICK rec \in Record : rec = To(mem[r], "completed")
        BY <1>2, ToIs DEF States
    <2>2. rec.run = mem[r].run /\ rec.host = mem[r].host /\ rec.state = "completed" /\ rec.ledger = "terminal"
        BY <1>2, <2>1, ToIs DEF States
    <2>3. Begin("complete", rec) /\ mem[r].state = "finishing"
        BY <1>8, <2>1 DEF ResumeFinishing
    <2>4. "complete" \in Kinds
        BY DEF Kinds
    <2> QED
        BY <1>1, <1>2, <1>3, <1>4, <2>2, <2>3, <2>4 DEF Handled
<1>9. CASE Quarantine(r)
    <2>1. PICK rec \in Record : rec = To(mem[r], "quarantined")
        BY <1>2, ToIs DEF States
    <2>2. rec.run = mem[r].run /\ rec.host = mem[r].host /\ rec.state = "quarantined" /\ rec.ledger = "terminal"
        BY <1>2, <2>1, ToIs DEF States
    <2>3. /\ mem[r].state = "confirmed" /\ op' = CommitOp("quarantine", rec)
          /\ doubt' = [doubt EXCEPT ![r] = doubt[r] \cup {rec}]
          /\ ledger' = [ledger EXCEPT ![r] = "terminal"]
          /\ sLedger' = [sLedger EXCEPT ![r] = "terminal"]
        BY <1>9, <2>1 DEF Quarantine
    <2>4. "quarantine" \in Kinds
        BY DEF Kinds
    <2>5. Starts("quarantine", rec)
        BY <2>3, <2>4, Starting
    <2>6. Handled(r, "quarantine", rec)
        BY <2>2, <2>3 DEF Handled
    <2> QED
        BY <1>1, <1>2, <1>3, <2>3, <2>4, <2>5, <2>6
<1> QED
    BY <1>5, <1>6, <1>7, <1>8, <1>9 DEF Handle

\* The finishing record is durable; the next transition begins.
LEMMA FinishIs ==
    ASSUME TypeOK, OpInv, FinishReturns
    PROVE  /\ Running("verify") /\ Succeeds /\ op.kind = "finish"
           /\ mem' = [mem EXCEPT ![op.want.run] = op.want]
           /\ acked' = [acked EXCEPT ![op.want.run] = op.want]
           /\ UNCHANGED <<files, synced, marker, quar, mode, unread>>
           /\ faults' \in {faults, faults + 1} /\ faults' \in 0..MaxFaults
           /\ \E kind \in {"complete", "quarantine"}, rec \in Record :
                /\ rec.run = op.want.run /\ rec.host = op.want.host /\ rec.bound = op.want.bound
                /\ rec.state = IF kind = "complete" THEN "completed" ELSE "quarantined"
                /\ rec.ledger = "terminal" /\ Starts(kind, rec)
                /\ doubt' = [doubt EXCEPT ![op.want.run] = {rec}]
<1>1. PICK next \in {"completed", "quarantined"} :
        /\ next = "quarantined" => faults < MaxFaults
        /\ faults' = IF next = "quarantined" THEN faults + 1 ELSE faults
        /\ op' = CommitOp(IF next = "completed" THEN "complete" ELSE "quarantine", To(op.want, next))
        /\ acked' = [acked EXCEPT ![To(op.want, next).run] = op.want]
        /\ doubt' = [doubt EXCEPT ![To(op.want, next).run] = {To(op.want, next)}]
    BY DEF FinishReturns
<1>2. op.want \in Record
    BY VerifyIs DEF FinishReturns
<1>3. PICK rec \in Record : rec = To(op.want, next)
    BY <1>2, ToIs DEF States
<1>4. /\ rec.run = op.want.run /\ rec.host = op.want.host /\ rec.bound = op.want.bound
      /\ rec.state = next /\ rec.ledger = "terminal"
    BY <1>2, <1>3, ToIs DEF States
<1>5. PICK kind \in {"complete", "quarantine"} : kind = IF next = "completed" THEN "complete" ELSE "quarantine"
    OBVIOUS
<1>6. kind \in Kinds
    BY DEF Kinds
<1>7. Starts(kind, rec)
    BY <1>1, <1>3, <1>5, <1>6, Starting
<1>8. faults' \in {faults, faults + 1} /\ faults' \in 0..MaxFaults
    BY <1>1, FaultAssumption DEF TypeOK
<1>9. rec.state = IF kind = "complete" THEN "completed" ELSE "quarantined"
    BY <1>4, <1>5
<1> QED
    BY <1>1, <1>3, <1>4, <1>5, <1>7, <1>8, <1>9 DEF FinishReturns, Adopt

\* An assignment failed; its quarantine begins.
LEMMA AssignFailsIs ==
    ASSUME TypeOK, OpInv, AssignFails
    PROVE  /\ Running("verify") /\ op.kind = "assign"
           /\ faults' \in {faults, faults + 1} /\ faults' \in 0..MaxFaults
           /\ UNCHANGED <<journal, sJournal, assignment, sAssignment, hostLock, sHostLock,
                          marker, mode, unread, acked>>
           /\ \E rec \in Record :
                /\ rec.run = op.want.run /\ rec.host = op.want.host /\ rec.bound = op.want.bound
                /\ rec.state = "quarantined" /\ rec.ledger = "terminal" /\ Starts("rescue", rec)
                /\ mem' = [mem EXCEPT ![rec.run] = rec]
                /\ quar' = [quar EXCEPT ![rec.host] = rec.run]
                /\ ledger' = [ledger EXCEPT ![rec.run] = "terminal"]
                /\ sLedger' = [sLedger EXCEPT ![rec.run] = "terminal"]
                /\ doubt' = [doubt EXCEPT ![rec.run] = doubt[rec.run] \cup {rec}]
<1>1. op.want \in Record /\ Running("verify") /\ op.kind = "assign"
    BY VerifyIs DEF AssignFails
<1>2. PICK rec \in Record : rec = To(op.want, "quarantined")
    BY <1>1, ToIs DEF States
<1>3. /\ rec.run = op.want.run /\ rec.host = op.want.host /\ rec.bound = op.want.bound
      /\ rec.state = "quarantined" /\ rec.ledger = "terminal"
    BY <1>1, <1>2, ToIs DEF States
<1>4. /\ mem' = [mem EXCEPT ![rec.run] = rec] /\ quar' = [quar EXCEPT ![rec.host] = rec.run]
      /\ ledger' = [ledger EXCEPT ![rec.run] = "terminal"]
      /\ sLedger' = [sLedger EXCEPT ![rec.run] = "terminal"]
      /\ op' = CommitOp("rescue", rec)
      /\ doubt' = [doubt EXCEPT ![rec.run] = doubt[rec.run] \cup {rec}]
    BY <1>2 DEF AssignFails, Adopt
<1>5. Starts("rescue", rec)
    BY <1>4, Starting DEF Kinds
<1>6. faults' \in {faults, faults + 1} /\ faults' \in 0..MaxFaults
    BY FaultAssumption DEF AssignFails, Fault, TypeOK
<1>7. UNCHANGED <<journal, sJournal, assignment, sAssignment, hostLock, sHostLock,
                  marker, mode, unread, acked>>
    BY DEF AssignFails
<1> QED
    BY <1>1, <1>3, <1>4, <1>5, <1>6, <1>7

\* The marker of a Host is removed, or stays.
LEMMA RemovedIs ==
    ASSUME TypeOK, NEW h \in Hosts, RemoveMarker(h)
    PROVE  /\ marker' \in {marker, [marker EXCEPT ![h] = None]}
           /\ marker' \in [Hosts -> Runs \cup {None}]
           /\ faults' \in {faults, faults + 1} /\ faults' \in 0..MaxFaults
           /\ faults' \in 0..1 => faults \in 0..1
<1>1. marker' \in {marker, [marker EXCEPT ![h] = None]}
    BY DEF RemoveMarker
<1>2. marker' \in [Hosts -> Runs \cup {None}]
    BY <1>1 DEF TypeOK
<1>3. faults' \in {faults, faults + 1} /\ faults' \in 0..MaxFaults
    BY FaultAssumption DEF RemoveMarker, Fault, TypeOK
<1>4. faults' \in 0..1 => faults \in 0..1
    BY <1>3, FaultAssumption DEF TypeOK
<1> QED
    BY <1>1, <1>2, <1>3, <1>4

\* The Commit of a rescue or of a marker has ended.
LEMMA EndedIs ==
    ASSUME TypeOK, OpInv, RescueReturns \/ MarkerReturns
    PROVE  /\ op.want \in Record /\ op.want.run \in Runs /\ op.want.host \in Hosts
           /\ op' = NoOp /\ mode' \in {mode, "exit"}
           /\ UNCHANGED <<journal, sJournal, assignment, sAssignment, hostLock, sHostLock,
                          ledger, sLedger, quar, unread>>
           /\ mem' \in {mem, [mem EXCEPT ![op.want.run] = op.want]}
           /\ marker' \in {marker, [marker EXCEPT ![op.want.host] = None]}
           /\ faults' \in 0..1 => faults \in 0..1
<1>1. op.want \in Record /\ op.want.run \in Runs /\ op.want.host \in Hosts
    BY VerifyIs DEF RescueReturns, MarkerReturns
<1>2. UNCHANGED <<marker, faults>> \/ RemoveMarker(op.want.host)
    BY DEF RescueReturns, MarkerReturns
<1>3. marker' \in {marker, [marker EXCEPT ![op.want.host] = None]}
    BY <1>1, <1>2, RemovedIs
<1>4. faults' \in 0..1 => faults \in 0..1
    BY <1>1, <1>2, RemovedIs
<1>5. mode' \in {mode, "exit"} /\ mem' \in {mem, [mem EXCEPT ![op.want.run] = op.want]}
    BY DEF RescueReturns, MarkerReturns, Adopt
<1> QED
    BY <1>1, <1>3, <1>4, <1>5 DEF RescueReturns, MarkerReturns, files, synced

\* A surviving marker quarantines its Run.
LEMMA MarkerIs ==
    ASSUME TypeOK, NEW h \in Hosts, RecoverMarker(h)
    PROVE  /\ mode = "markers" /\ Idle /\ marker[h] \in Runs
           /\ UNCHANGED <<journal, sJournal, assignment, sAssignment, hostLock, sHostLock,
                          marker, mem, mode, unread, faults, acked>>
           /\ quar' = [quar EXCEPT ![h] = marker[h]]
           /\ ledger' = [ledger EXCEPT ![marker[h]] = "terminal"]
           /\ sLedger' = [sLedger EXCEPT ![marker[h]] = "terminal"]
           /\ \E rec \in Record :
                /\ rec.run = marker[h] /\ rec.host = h /\ ~rec.bound
                /\ rec.state = "quarantined" /\ rec.ledger = "terminal" /\ Starts("marker", rec)
                /\ doubt' = [doubt EXCEPT ![marker[h]] = doubt[marker[h]] \cup {rec}]
<1>1. mode = "markers" /\ Idle /\ marker[h] \in Runs
    BY DEF RecoverMarker, TypeOK
<1>2. PICK rec \in Record : rec = [run |-> marker[h], host |-> h, state |-> "quarantined",
                                   bound |-> FALSE, ledger |-> "terminal"]
    BY <1>1 DEF Record, States, Ledgers
<1>3. /\ rec.run = marker[h] /\ rec.host = h /\ ~rec.bound
      /\ rec.state = "quarantined" /\ rec.ledger = "terminal"
    BY <1>2
<1>4. /\ quar' = [quar EXCEPT ![h] = rec.run]
      /\ ledger' = [ledger EXCEPT ![rec.run] = "terminal"]
      /\ sLedger' = [sLedger EXCEPT ![rec.run] = "terminal"]
      /\ op' = CommitOp("marker", rec)
      /\ doubt' = [doubt EXCEPT ![rec.run] = doubt[rec.run] \cup {rec}]
    BY <1>2 DEF RecoverMarker
<1>5. Starts("marker", rec)
    BY <1>4, Starting DEF Kinds
<1>6. UNCHANGED <<journal, sJournal, assignment, sAssignment, hostLock, sHostLock,
                  marker, mem, mode, unread, faults, acked>>
    BY DEF RecoverMarker
<1> QED
    BY <1>1, <1>3, <1>4, <1>5, <1>6

\* Startup loads a Host Lock: it refuses it, finishes its Run or adopts the record.
LEMMA LoadCases ==
    ASSUME TypeOK, NamesInv, UnreadInv, NEW h \in Hosts, LoadLock(h)
    PROVE  /\ mode = "load" /\ Idle /\ h \in unread /\ unread' = unread \ {h}
           /\ UNCHANGED <<files, synced, marker, faults, acked>>
           /\ \/ ~LockMatches(h) /\ mode' = "refused" /\ UNCHANGED <<mem, quar, op, doubt>>
              \/ /\ LockMatches(h) /\ UNCHANGED <<mem, quar, mode>>
                 /\ assignment[hostLock[h].run].state = "finishing"
                 /\ \E rec \in Record :
                      /\ rec.run = hostLock[h].run /\ rec.host = h
                      /\ rec.state = "completed" /\ rec.ledger = "terminal" /\ Starts("complete", rec)
                      /\ doubt' = [doubt EXCEPT ![rec.run] = doubt[rec.run] \cup {rec}]
              \/ /\ LockMatches(h) /\ UNCHANGED <<op, doubt, mode>>
                 /\ assignment[hostLock[h].run].state # "finishing"
                 /\ \E rec \in Record :
                      /\ rec.run = hostLock[h].run /\ rec.host = h
                      /\ rec.bound = assignment[rec.run].bound
                      /\ rec.ledger = assignment[rec.run].ledger
                      /\ IF quar[h] = rec.run THEN rec.state = "quarantined" ELSE rec = assignment[rec.run]
                      /\ mem' = [mem EXCEPT ![rec.run] = rec]
                      /\ quar' = IF assignment[rec.run].state = "quarantined"
                                 THEN [quar EXCEPT ![h] = rec.run] ELSE quar
<1>1. /\ mode = "load" /\ Idle /\ h \in unread /\ unread' = unread \ {h}
      /\ UNCHANGED <<files, synced, marker, faults, acked>>
    BY DEF LoadLock
<1>2. CASE ~LockMatches(h)
    BY <1>1, <1>2 DEF LoadLock
<1>3. CASE LockMatches(h) /\ assignment[hostLock[h].run].state = "finishing"
    <2>1. PICK a \in Record : a = assignment[hostLock[h].run]
        BY <1>3, LoadIs
    <2>2. a.run = hostLock[h].run /\ a.host = h
        BY <2>1, <1>3, LoadIs
    <2>3. PICK rec \in Record : rec = To(a, "completed")
        BY <2>1, ToIs DEF States
    <2>4. rec.run = a.run /\ rec.host = a.host /\ rec.state = "completed" /\ rec.ledger = "terminal"
        BY <2>1, <2>3, ToIs DEF States
    <2>5. /\ op' = CommitOp("complete", rec) /\ UNCHANGED <<mem, quar, mode>>
          /\ doubt' = [doubt EXCEPT ![a.run] = doubt[a.run] \cup {rec}]
        BY <1>3, <2>1, <2>3 DEF LoadLock
    <2>6. Starts("complete", rec)
        BY <2>5, Starting DEF Kinds
    <2> QED
        BY <1>1, <1>3, <2>2, <2>4, <2>5, <2>6
<1>4. CASE LockMatches(h) /\ assignment[hostLock[h].run].state # "finishing"
    <2>1. PICK a \in Record : a = assignment[hostLock[h].run]
        BY <1>4, LoadIs
    <2>2. a.run = hostLock[h].run /\ a.host = h
        BY <2>1, <1>4, LoadIs
    <2>3. PICK rec \in Record : rec = IF quar[h] = a.run THEN [a EXCEPT !.state = "quarantined"] ELSE a
        BY <2>1 DEF Record, States
    <2>4. /\ rec.run = a.run /\ rec.host = a.host /\ rec.bound = a.bound /\ rec.ledger = a.ledger
          /\ IF quar[h] = a.run THEN rec.state = "quarantined" ELSE rec = a
        BY <2>1, <2>3 DEF Record
    <2>5. /\ mem' = [mem EXCEPT ![a.run] = rec] /\ UNCHANGED <<op, doubt, mode>>
          /\ quar' = IF a.state = "quarantined" THEN [quar EXCEPT ![h] = a.run] ELSE quar
        BY <1>4, <2>1, <2>3 DEF LoadLock
    <2> QED
        BY <1>1, <1>4, <2>1, <2>2, <2>4, <2>5
<1> QED
    BY <1>2, <1>3, <1>4

\* Every step leaves an operation in flight, or none.
LEMMA OperationStep ==
    ASSUME TypeOK, NamesInv, OpInv, TodoInv, UnreadInv, Next
    PROVE  op' \in Operation
<1> USE NoneDiffers
<1>1. ASSUME NEW r \in Runs, NEW h \in Hosts, Assign(r, h) PROVE op' \in Operation
    BY <1>1, AssignIs DEF Starts, files, synced, Serving, Idle
<1>2. ASSUME NEW r \in Runs, Handle(r) PROVE op' \in Operation
    BY <1>2, HandleIs DEF Starts, Handled, Serving, Idle
<1>3. ASSUME NEW r \in Runs, SaveAssignment(r) PROVE op' \in Operation
    BY <1>3 DEF SaveAssignment, TypeOK
<1>4. CASE FileStep
    BY <1>4, FileStepIs DEF Wrote
<1>5. CASE FileStepFails
    BY <1>5, FileStepFailsIs, FailsIs
<1>6. CASE Scan
    BY <1>6, ScanIs DEF Scan, files, synced, hist
<1>7. CASE PickJournal
    BY <1>7, PickIs, PrepareIs DEF PickJournal, files, synced, hist
<1>8. CASE ReadFails
    BY <1>8, FailsIs DEF ReadFails, Running
<1>9. CASE ReplayDone
    BY <1>9, ReplayedIs, Ends DEF ReplayDone, files, synced, hist
<1>10. CASE CommitReturns
    BY <1>10, VerifyIs, Ends DEF CommitReturns, Ack, Adopt, files, synced
<1>11. CASE FinishReturns
    BY <1>11, FinishIs, VerifyIs DEF Starts, files, synced
<1>12. CASE CompleteReturns
    BY <1>12, VerifyIs, Ends DEF CompleteReturns, Ack, files, synced
<1>13. CASE AssignReturns
    BY <1>13, VerifyIs, Ends DEF AssignReturns, Ack, Adopt, files, synced
<1>14. CASE AssignFails
    BY <1>14, AssignFailsIs, VerifyIs DEF Starts
<1>15. CASE RescueReturns
    BY <1>15, VerifyIs, Ends DEF RescueReturns, Ack, hist, files, synced
<1>16. CASE CommitFails
    BY <1>16, VerifyIs, Ends DEF CommitFails, hist
<1>17. CASE MarkerReturns
    BY <1>17, VerifyIs, Ends DEF MarkerReturns, Ack, Adopt, files, synced
<1>18. CASE Start
    BY <1>18 DEF Start, TypeOK
<1>19. CASE RecoverJournals
    BY <1>19, RecoverIs DEF RecoverJournals, files, synced, hist, Idle
<1>20. CASE Serve
    BY <1>20 DEF Serve, TypeOK
<1>21. ASSUME NEW h \in Hosts, RecoverMarker(h) PROVE op' \in Operation
    BY <1>21, MarkerIs DEF Starts
<1>22. ASSUME NEW h \in Hosts, LoadLock(h) PROVE op' \in Operation
    BY <1>22, LoadCases DEF Starts, TypeOK
<1>23. CASE Crash
    BY <1>23, CrashIs, Ends DEF hist
<1> QED
    BY <1>1, <1>2, <1>3, <1>4, <1>5, <1>6, <1>7, <1>8, <1>9, <1>10, <1>11, <1>12, <1>13,
         <1>14, <1>15, <1>16, <1>17, <1>18, <1>19, <1>20, <1>21, <1>22, <1>23 DEF Next,
         Handlers, Transition, Startup, Handle

\* The type invariant without the operation in flight.
FileTypes ==
    /\ journal \in [Runs -> Record \cup {None}] /\ sJournal \in [Runs -> Record \cup {None}]
    /\ assignment \in [Runs -> Record \cup {None}] /\ sAssignment \in [Runs -> Record \cup {None}]
    /\ mem \in [Runs -> Record \cup {None}] /\ acked \in [Runs -> Record \cup {None}]
    /\ hostLock \in [Hosts -> LockRecord \cup {None}] /\ sHostLock \in [Hosts -> LockRecord \cup {None}]
    /\ ledger \in [Runs -> Ledgers] /\ sLedger \in [Runs -> Ledgers]
    /\ marker \in [Hosts -> Runs \cup {None}] /\ quar \in [Hosts -> Runs \cup {None}]
    /\ mode \in Modes /\ unread \in SUBSET Hosts /\ faults \in 0..MaxFaults
    /\ doubt \in [Runs -> SUBSET Record]

\* The two parts of the type invariant.
LEMMA FilesTyped == TypeOK <=> FileTypes /\ op \in Operation
    BY DEF TypeOK, FileTypes

\* A file operation keeps the types of what is seen.
LEMMA WroteTypes ==
    ASSUME FileTypes, op.cur \in Record, Wrote
    PROVE  /\ journal' \in [Runs -> Record \cup {None}]
           /\ assignment' \in [Runs -> Record \cup {None}]
           /\ hostLock' \in [Hosts -> LockRecord \cup {None}]
           /\ ledger' \in [Runs -> Ledgers]
<1>1. /\ op.cur.run \in Runs /\ op.cur.host \in Hosts /\ op.cur.ledger \in Ledgers
      /\ LockOf(op.cur) \in LockRecord
    BY RecordIs, LockIs
<1>2. journal' \in [Runs -> Record \cup {None}]
    BY <1>1 DEF FileTypes, Wrote
<1>3. assignment' \in [Runs -> Record \cup {None}]
    BY <1>1 DEF FileTypes, Wrote
<1>4. hostLock' \in [Hosts -> LockRecord \cup {None}]
    BY <1>1 DEF FileTypes, Wrote
<1>5. ledger' \in [Runs -> Ledgers]
    BY <1>1 DEF FileTypes, Wrote
<1> QED
    BY <1>2, <1>3, <1>4, <1>5

\* Every step keeps the types of the files and of the process.
LEMMA FilesStep ==
    ASSUME TypeOK, NamesInv, OpInv, TodoInv, UnreadInv, Next
    PROVE  FileTypes'
<1> USE NoneDiffers, FilesTyped
<1>1. ASSUME NEW r \in Runs, NEW h \in Hosts, Assign(r, h) PROVE FileTypes'
    <2>1. PICK rec \in Record : /\ doubt' = [doubt EXCEPT ![r] = doubt[r] \cup {rec}]
                               /\ marker' = [marker EXCEPT ![h] = r]
                               /\ UNCHANGED <<files, synced, mem, quar, mode, unread, faults, acked>>
        BY <1>1, AssignIs
    <2>2. doubt' \in [Runs -> SUBSET Record]
        BY <2>1 DEF FileTypes
    <2> QED
        BY <2>1, <2>2 DEF FileTypes, files, synced
<1>2. ASSUME NEW r \in Runs, Handle(r) PROVE FileTypes'
    <2>1. \A rec \in Record : [doubt EXCEPT ![r] = doubt[r] \cup {rec}] \in [Runs -> SUBSET Record]
        BY RecordIs DEF FileTypes
    <2>2. doubt' \in [Runs -> SUBSET Record]
        BY <2>1, <1>2, HandleIs
    <2> QED
        BY <2>2, <1>2, RecordIs, HandleIs DEF FileTypes, Handled, Ledgers
<1>3. ASSUME NEW r \in Runs, SaveAssignment(r) PROVE FileTypes'
    BY <1>3, RecordIs, Counted DEF FileTypes, Ledgers, SaveAssignment, Fault, hist, Idle,
         Modes
<1>4. CASE FileStep
    <2>1. /\ journal' \in [Runs -> Record \cup {None}] /\ assignment' \in [Runs -> Record \cup {None}]
          /\ hostLock' \in [Hosts -> LockRecord \cup {None}] /\ ledger' \in [Runs -> Ledgers]
        BY <1>4, FileStepIs, WroteTypes, FilesTyped
    <2>2. /\ sJournal' \in [Runs -> Record \cup {None}] /\ sAssignment' \in [Runs -> Record \cup {None}]
          /\ sHostLock' \in [Hosts -> LockRecord \cup {None}] /\ sLedger' \in [Runs -> Ledgers]
        BY <2>1, <1>4, RecordIs, FileStepIs DEF FileTypes, FileStep, Synced, NotSynced, synced
    <2> QED
        BY <2>1, <2>2, <1>4, FileStepIs DEF FileTypes, Modes
<1>5. CASE FileStepFails
    <2>1. /\ journal' \in [Runs -> Record \cup {None}] /\ assignment' \in [Runs -> Record \cup {None}]
          /\ hostLock' \in [Hosts -> LockRecord \cup {None}] /\ ledger' \in [Runs -> Ledgers]
        BY <1>5, FileStepFailsIs, WroteTypes, FilesTyped DEF FileTypes, files
    <2>2. /\ sJournal' \in [Runs -> Record \cup {None}] /\ sAssignment' \in [Runs -> Record \cup {None}]
          /\ sHostLock' \in [Hosts -> LockRecord \cup {None}] /\ sLedger' \in [Runs -> Ledgers]
        BY <2>1, <1>5, RecordIs, FileStepFailsIs DEF FileTypes, NotSynced, synced
    <2> QED
        BY <2>1, <2>2, <1>5, FileStepFailsIs, Counted DEF FileTypes, Modes
<1>6. CASE Scan
    BY <1>6, ScanIs, RecordIs, Counted DEF FileTypes, Ledgers, Scan, files, synced, hist,
         Modes
<1>7. CASE PickJournal
    BY <1>7, PickIs, PrepareIs, RecordIs, Counted DEF FileTypes, Ledgers, PickJournal, files,
         synced, hist, Modes
<1>8. CASE ReadFails
    BY <1>8, FailsIs, Ends, RecordIs, Counted DEF FileTypes, Ledgers, ReadFails, Running,
         Fault, files, synced, hist, Modes
<1>9. CASE ReplayDone
    BY <1>9, ReplayedIs, Ends, RecordIs, Counted DEF FileTypes, Ledgers, ReplayDone, files,
         synced, hist, Modes
<1>10. CASE CommitReturns
    BY <1>10, VerifyIs, Ends, RecordIs, Counted DEF FileTypes, Ledgers, CommitReturns, Ack,
         Adopt, files, synced, Modes
<1>11. CASE FinishReturns
    <2>1. \A rec \in Record : [doubt EXCEPT ![op.want.run] = {rec}] \in [Runs -> SUBSET Record]
        BY RecordIs DEF FileTypes
    <2>2. doubt' \in [Runs -> SUBSET Record]
        BY <2>1, <1>11, FinishIs, VerifyIs
    <2> QED
        BY <2>2, <1>11, RecordIs, FinishIs, VerifyIs DEF FileTypes, files, synced
<1>12. CASE CompleteReturns
    BY <1>12, VerifyIs, Ends, RecordIs, Counted DEF FileTypes, Ledgers, CompleteReturns, Ack,
         files, synced, Modes
<1>13. CASE AssignReturns
    BY <1>13, VerifyIs, Ends, RecordIs, Counted DEF FileTypes, Ledgers, AssignReturns, Ack,
         Adopt, files, synced, Modes
<1>14. CASE AssignFails
    <2>1. \A rec \in Record : [doubt EXCEPT ![rec.run] = doubt[rec.run] \cup {rec}] \in [Runs -> SUBSET Record]
        BY RecordIs DEF FileTypes
    <2>2. doubt' \in [Runs -> SUBSET Record]
        BY <2>1, <1>14, AssignFailsIs, VerifyIs
    <2> QED
        BY <2>2, <1>14, RecordIs, AssignFailsIs, VerifyIs DEF FileTypes, Ledgers
<1>15. CASE RescueReturns
    <2>1. /\ marker' \in [Hosts -> Runs \cup {None}] /\ faults' \in 0..MaxFaults
          /\ op.want \in Record /\ op.want.run \in Runs
        BY <1>15, VerifyIs, RemovedIs, RecordIs DEF FileTypes, RescueReturns, hist
    <2> QED
        BY <1>15, <2>1, Ends, RecordIs DEF FileTypes, Ledgers, RescueReturns, Ack, hist, files,
             synced, Modes
<1>16. CASE CommitFails
    BY <1>16, VerifyIs, Ends, RecordIs, Counted DEF FileTypes, Ledgers, CommitFails, hist,
         Modes
<1>17. CASE MarkerReturns
    <2>1. /\ marker' \in [Hosts -> Runs \cup {None}] /\ faults' \in 0..MaxFaults
          /\ op.want \in Record /\ op.want.run \in Runs
        BY <1>17, VerifyIs, RemovedIs, RecordIs DEF FileTypes, MarkerReturns
    <2>2. mode' \in Modes
        BY <1>17 DEF MarkerReturns, Modes, FileTypes
    <2> QED
        BY <1>17, <2>1, <2>2, Ends, RecordIs DEF FileTypes, Ledgers, MarkerReturns, Ack, Adopt,
             files, synced
<1>18. CASE Start
    BY <1>18, RecordIs, Counted DEF FileTypes, Ledgers, Start, files, synced, hist, Modes
<1>19. CASE RecoverJournals
    BY <1>19, RecoverIs, RecordIs, Counted DEF FileTypes, Ledgers, RecoverJournals, files,
         synced, hist, Idle, Modes
<1>20. CASE Serve
    BY <1>20, RecordIs, Counted DEF FileTypes, Ledgers, Serve, files, synced, hist, Modes
<1>21. ASSUME NEW h \in Hosts, RecoverMarker(h) PROVE FileTypes'
    <2>1. PICK rec \in Record : doubt' = [doubt EXCEPT ![marker[h]] = doubt[marker[h]] \cup {rec}]
        BY <1>21, MarkerIs
    <2>2. doubt' \in [Runs -> SUBSET Record]
        BY <2>1, <1>21, MarkerIs DEF FileTypes
    <2> QED
        BY <2>2, <1>21, MarkerIs DEF FileTypes, Ledgers
<1>22. ASSUME NEW h \in Hosts, LoadLock(h) PROVE FileTypes'
    <2>1. \A rec \in Record : [doubt EXCEPT ![rec.run] = doubt[rec.run] \cup {rec}] \in [Runs -> SUBSET Record]
        BY RecordIs DEF FileTypes
    <2>2. \/ doubt' = doubt
          \/ \E rec \in Record : doubt' = [doubt EXCEPT ![rec.run] = doubt[rec.run] \cup {rec}]
        BY <1>22, LoadCases
    <2>4. doubt' \in [Runs -> SUBSET Record]
        BY <2>1, <2>2 DEF FileTypes
    <2>3. mem' \in [Runs -> Record \cup {None}] /\ quar' \in [Hosts -> Runs \cup {None}]
        BY <1>22, LoadCases, RecordIs DEF FileTypes
    <2> QED
        BY <2>3, <2>4, <1>22, LoadCases DEF FileTypes, Modes, files, synced
<1>23. CASE Crash
    BY <1>23, CrashIs, Ends, RecordIs, Counted DEF FileTypes, Ledgers, hist, Modes
<1> QED
    BY <1>1, <1>2, <1>3, <1>4, <1>5, <1>6, <1>7, <1>8, <1>9, <1>10, <1>11, <1>12, <1>13,
         <1>14, <1>15, <1>16, <1>17, <1>18, <1>19, <1>20, <1>21, <1>22, <1>23 DEF Next,
         Handlers, Transition, Startup, Handle

\* Every step keeps the types.
LEMMA TypeStep ==
    ASSUME TypeOK, NamesInv, OpInv, TodoInv, UnreadInv, Next PROVE TypeOK'
<1>1. op' \in Operation
    BY OperationStep
<1>2. FileTypes'
    BY FilesStep
<1> QED
    BY <1>1, <1>2 DEF TypeOK, FileTypes

\* Every record stays with its Run.
LEMMA NamesStep ==
    ASSUME TypeOK, NamesInv, OpInv, TodoInv, UnreadInv, Next
    PROVE  NamesInv'
<1> USE NoneDiffers
<1>1. ASSUME NEW r \in Runs, NEW h \in Hosts, Assign(r, h) PROVE NamesInv'
    BY <1>1, AssignIs, RecordIs DEF NamesInv, Mine, TypeOK, Starts, files, synced, Serving,
         Idle
<1>2. ASSUME NEW r \in Runs, Handle(r) PROVE NamesInv'
    BY <1>2, HandleIs, RecordIs DEF NamesInv, Mine, TypeOK, Starts, Handled, Serving, Idle
<1>3. ASSUME NEW r \in Runs, SaveAssignment(r) PROVE NamesInv'
    BY <1>3, RecordIs DEF NamesInv, Mine, TypeOK, SaveAssignment, Fault, hist, Idle
<1>4. CASE FileStep
    BY <1>4, FileStepIs, RecordIs DEF NamesInv, Mine, TypeOK, Wrote, FileStep, Synced,
         NotSynced, synced
<1>5. CASE FileStepFails
    BY <1>5, FileStepFailsIs, FailsIs, Ends, RecordIs DEF NamesInv, Mine, TypeOK, Wrote,
         files, NotSynced, synced
<1>6. CASE Scan
    BY <1>6, ScanIs, RecordIs DEF NamesInv, Mine, TypeOK, Scan, files, synced, hist
<1>7. CASE PickJournal
    BY <1>7, PickIs, PrepareIs, RecordIs DEF NamesInv, Mine, TypeOK, PickJournal, files,
         synced, hist
<1>8. CASE ReadFails
    BY <1>8, FailsIs, Ends, RecordIs DEF NamesInv, Mine, TypeOK, ReadFails, Running, Fault,
         files, synced, hist
<1>9. CASE ReplayDone
    BY <1>9, ReplayedIs, Ends, RecordIs DEF NamesInv, Mine, TypeOK, ReplayDone, files, synced,
         hist
<1>10. CASE CommitReturns
    BY <1>10, VerifyIs, Ends, RecordIs DEF NamesInv, Mine, TypeOK, CommitReturns, Ack, Adopt,
         files, synced
<1>11. CASE FinishReturns
    BY <1>11, FinishIs, VerifyIs, RecordIs DEF NamesInv, Mine, TypeOK, Starts, files, synced
<1>12. CASE CompleteReturns
    BY <1>12, VerifyIs, Ends, RecordIs DEF NamesInv, Mine, TypeOK, CompleteReturns, Ack,
         files, synced
<1>13. CASE AssignReturns
    BY <1>13, VerifyIs, Ends, RecordIs DEF NamesInv, Mine, TypeOK, AssignReturns, Ack, Adopt,
         files, synced
<1>14. CASE AssignFails
    BY <1>14, AssignFailsIs, VerifyIs, RecordIs DEF NamesInv, Mine, TypeOK, Starts
<1>15. CASE RescueReturns
    BY <1>15, VerifyIs, Ends, RecordIs DEF NamesInv, Mine, TypeOK, RescueReturns, Ack, hist,
         files, synced
<1>16. CASE CommitFails
    BY <1>16, VerifyIs, Ends, RecordIs DEF NamesInv, Mine, TypeOK, CommitFails, hist
<1>17. CASE MarkerReturns
    BY <1>17, VerifyIs, Ends, RecordIs DEF NamesInv, Mine, TypeOK, MarkerReturns, Ack, Adopt,
         files, synced
<1>18. CASE Start
    BY <1>18, RecordIs DEF NamesInv, Mine, TypeOK, Start, files, synced, hist
<1>19. CASE RecoverJournals
    BY <1>19, RecoverIs, RecordIs DEF NamesInv, Mine, TypeOK, RecoverJournals, files, synced,
         hist, Idle
<1>20. CASE Serve
    BY <1>20, RecordIs DEF NamesInv, Mine, TypeOK, Serve, files, synced, hist
<1>21. ASSUME NEW h \in Hosts, RecoverMarker(h) PROVE NamesInv'
    BY <1>21, MarkerIs, RecordIs DEF NamesInv, Mine, TypeOK, Starts
<1>22. ASSUME NEW h \in Hosts, LoadLock(h) PROVE NamesInv'
    BY <1>22, LoadCases, RecordIs DEF NamesInv, Mine, TypeOK, Starts, files, synced
<1>23. CASE Crash
    BY <1>23, CrashIs, Ends, RecordIs DEF NamesInv, Mine, TypeOK, hist
<1> QED
    BY <1>1, <1>2, <1>3, <1>4, <1>5, <1>6, <1>7, <1>8, <1>9, <1>10, <1>11, <1>12, <1>13,
         <1>14, <1>15, <1>16, <1>17, <1>18, <1>19, <1>20, <1>21, <1>22, <1>23 DEF Next,
         Handlers, Transition, Startup, Handle

\* The operation in flight stays in one of its phases.
LEMMA OpStep ==
    ASSUME TypeOK, NamesInv, OpInv, TodoInv, UnreadInv, Next
    PROVE  OpInv'
<1> USE NoneDiffers, OpFields
<1>1. ASSUME NEW r \in Runs, NEW h \in Hosts, Assign(r, h) PROVE OpInv'
    BY <1>1, AssignIs DEF OpInv, Idle, TypeOK, Kinds, Phases, Starts, files, synced, Serving,
         Running
<1>2. ASSUME NEW r \in Runs, Handle(r) PROVE OpInv'
    BY <1>2, HandleIs DEF OpInv, Idle, TypeOK, Kinds, Phases, Starts, Handled, Serving,
         Running
<1>3. ASSUME NEW r \in Runs, SaveAssignment(r) PROVE OpInv'
    BY <1>3 DEF OpInv, Idle, TypeOK, Kinds, Phases, SaveAssignment, Fault, hist, Running
<1>4. CASE FileStep
    BY <1>4, FileStepIs DEF OpInv, Idle, TypeOK, Kinds, Phases, Wrote, Running
<1>5. CASE FileStepFails
    BY <1>5, FileStepFailsIs, FailsIs, Ends DEF OpInv, Idle, TypeOK, Kinds, Phases, Wrote,
         files, Running
<1>6. CASE Scan
    BY <1>6, ScanIs DEF OpInv, Idle, TypeOK, Kinds, Phases, Scan, files, synced, hist, Running
<1>7. CASE PickJournal
    <2>1. /\ op.phase = "replay" /\ op.kind # None /\ op.cur = None /\ mode # "down"
          /\ UNCHANGED <<journal, assignment, hostLock, ledger, marker, mem, quar, mode, unread, faults>>
        BY <1>7, PickIs DEF PickJournal, Running, files
    <2>2. PICK q \in op.todo :
            /\ q \in Runs /\ journal[q] \in Record /\ journal[q].run = q
            /\ op'.kind = op.kind /\ op'.phase = "replay" /\ op'.want = op.want
            /\ op'.cur = Prepare(journal[q]) /\ op'.at = 1 /\ op'.todo = op.todo \ {q}
            /\ op'.failed = op.failed
        BY <1>7, PickIs
    <2>3. op'.cur \in Record /\ op'.cur.run = q /\ op'.cur.host = journal[q].host
        BY <2>2, PrepareIs
    <2> QED
        BY <2>1, <2>2, <2>3 DEF OpInv, Idle, Kinds, Phases
<1>8. CASE ReadFails
    BY <1>8, FailsIs, Ends DEF OpInv, Idle, TypeOK, Kinds, Phases, ReadFails, Running, Fault,
         files, synced, hist, Running
<1>9. CASE ReplayDone
    BY <1>9, ReplayedIs, Ends DEF OpInv, Idle, TypeOK, Kinds, Phases, ReplayDone, files,
         synced, hist, Running
<1>10. CASE CommitReturns
    BY <1>10, VerifyIs, Ends DEF OpInv, Idle, TypeOK, Kinds, Phases, CommitReturns, Ack,
         Adopt, files, synced, Running
<1>11. CASE FinishReturns
    BY <1>11, FinishIs, VerifyIs DEF OpInv, Idle, TypeOK, Kinds, Phases, Starts, files,
         synced, Running
<1>12. CASE CompleteReturns
    BY <1>12, VerifyIs, Ends DEF OpInv, Idle, TypeOK, Kinds, Phases, CompleteReturns, Ack,
         files, synced, Running
<1>13. CASE AssignReturns
    BY <1>13, VerifyIs, Ends DEF OpInv, Idle, TypeOK, Kinds, Phases, AssignReturns, Ack,
         Adopt, files, synced, Running
<1>14. CASE AssignFails
    BY <1>14, AssignFailsIs, VerifyIs DEF OpInv, Idle, TypeOK, Kinds, Phases, Starts, Running
<1>15. CASE RescueReturns
    BY <1>15, VerifyIs, Ends DEF OpInv, Idle, TypeOK, Kinds, Phases, RescueReturns, Ack, hist,
         files, synced, Running
<1>16. CASE CommitFails
    BY <1>16, VerifyIs, Ends DEF OpInv, Idle, TypeOK, Kinds, Phases, CommitFails, hist,
         Running
<1>17. CASE MarkerReturns
    BY <1>17, VerifyIs, Ends DEF OpInv, Idle, TypeOK, Kinds, Phases, MarkerReturns, Ack,
         Adopt, files, synced, Running
<1>18. CASE Start
    BY <1>18 DEF OpInv, Idle, TypeOK, Kinds, Phases, Start, files, synced, hist, Running
<1>19. CASE RecoverJournals
    BY <1>19, RecoverIs DEF OpInv, Idle, TypeOK, Kinds, Phases, RecoverJournals, files,
         synced, hist, Running
<1>20. CASE Serve
    BY <1>20 DEF OpInv, Idle, TypeOK, Kinds, Phases, Serve, files, synced, hist, Running
<1>21. ASSUME NEW h \in Hosts, RecoverMarker(h) PROVE OpInv'
    BY <1>21, MarkerIs DEF OpInv, Idle, TypeOK, Kinds, Phases, Starts, Running
<1>22. ASSUME NEW h \in Hosts, LoadLock(h) PROVE OpInv'
    BY <1>22, LoadCases DEF OpInv, Idle, TypeOK, Kinds, Phases, Starts, files, synced, Running
<1>23. CASE Crash
    BY <1>23, CrashIs, Ends DEF OpInv, Idle, TypeOK, Kinds, Phases, hist, Running
<1> QED
    BY <1>1, <1>2, <1>3, <1>4, <1>5, <1>6, <1>7, <1>8, <1>9, <1>10, <1>11, <1>12, <1>13,
         <1>14, <1>15, <1>16, <1>17, <1>18, <1>19, <1>20, <1>21, <1>22, <1>23 DEF Next,
         Handlers, Transition, Startup, Handle

\* Recover keeps track of the journals it has still to replay.
LEMMA TodoStep ==
    ASSUME TypeOK, NamesInv, OpInv, TodoInv, UnreadInv, Next
    PROVE  TodoInv'
<1> USE NoneDiffers
<1>1. ASSUME NEW r \in Runs, NEW h \in Hosts, Assign(r, h) PROVE TodoInv'
    BY <1>1, AssignIs DEF TodoInv, Of, NamesInv, Mine, OpInv, TypeOK, Phases, Starts, files,
         synced, Serving, Idle
<1>2. ASSUME NEW r \in Runs, Handle(r) PROVE TodoInv'
    BY <1>2, HandleIs DEF TodoInv, Of, NamesInv, Mine, OpInv, TypeOK, Phases, Starts, Handled,
         Serving, Idle
<1>3. ASSUME NEW r \in Runs, SaveAssignment(r) PROVE TodoInv'
    BY <1>3 DEF TodoInv, Of, NamesInv, Mine, OpInv, TypeOK, Phases, SaveAssignment, Fault,
         hist, Idle
<1>4. CASE FileStep
    BY <1>4, FileStepIs DEF TodoInv, Of, NamesInv, Mine, OpInv, TypeOK, Phases, Wrote
<1>5. CASE FileStepFails
    BY <1>5, FileStepFailsIs, FailsIs, Ends DEF TodoInv, Of, NamesInv, Mine, OpInv, TypeOK,
         Phases, Wrote, files
<1>6. CASE Scan
    BY <1>6, ScanIs DEF TodoInv, Of, NamesInv, Mine, OpInv, TypeOK, Phases, Scan, files,
         synced, hist
<1>7. CASE PickJournal
    <2>1. /\ op.phase = "replay" /\ op.kind # None /\ op.cur = None /\ mode # "down"
          /\ UNCHANGED <<journal, assignment, hostLock, ledger, marker, mem, quar, mode, unread, faults>>
        BY <1>7, PickIs DEF PickJournal, Running, files
    <2>2. PICK q \in op.todo :
            /\ q \in Runs /\ journal[q] \in Record /\ journal[q].run = q
            /\ op'.kind = op.kind /\ op'.phase = "replay" /\ op'.want = op.want
            /\ op'.cur = Prepare(journal[q]) /\ op'.at = 1 /\ op'.todo = op.todo \ {q}
            /\ op'.failed = op.failed
        BY <1>7, PickIs
    <2>3. op'.cur \in Record /\ op'.cur.run = q /\ op'.cur.host = journal[q].host
        BY <2>2, PrepareIs
    <2> QED
        BY <2>1, <2>2, <2>3 DEF TodoInv, Of
<1>8. CASE ReadFails
    BY <1>8, FailsIs, Ends DEF TodoInv, Of, NamesInv, Mine, OpInv, TypeOK, Phases, ReadFails,
         Running, Fault, files, synced, hist
<1>9. CASE ReplayDone
    BY <1>9, ReplayedIs, Ends DEF TodoInv, Of, NamesInv, Mine, OpInv, TypeOK, Phases,
         ReplayDone, files, synced, hist
<1>10. CASE CommitReturns
    BY <1>10, VerifyIs, Ends DEF TodoInv, Of, NamesInv, Mine, OpInv, TypeOK, Phases,
         CommitReturns, Ack, Adopt, files, synced
<1>11. CASE FinishReturns
    BY <1>11, FinishIs, VerifyIs DEF TodoInv, Of, NamesInv, Mine, OpInv, TypeOK, Phases,
         Starts, files, synced
<1>12. CASE CompleteReturns
    BY <1>12, VerifyIs, Ends DEF TodoInv, Of, NamesInv, Mine, OpInv, TypeOK, Phases,
         CompleteReturns, Ack, files, synced
<1>13. CASE AssignReturns
    BY <1>13, VerifyIs, Ends DEF TodoInv, Of, NamesInv, Mine, OpInv, TypeOK, Phases,
         AssignReturns, Ack, Adopt, files, synced
<1>14. CASE AssignFails
    BY <1>14, AssignFailsIs, VerifyIs DEF TodoInv, Of, NamesInv, Mine, OpInv, TypeOK, Phases,
         Starts
<1>15. CASE RescueReturns
    BY <1>15, VerifyIs, Ends DEF TodoInv, Of, NamesInv, Mine, OpInv, TypeOK, Phases,
         RescueReturns, Ack, hist, files, synced
<1>16. CASE CommitFails
    BY <1>16, VerifyIs, Ends DEF TodoInv, Of, NamesInv, Mine, OpInv, TypeOK, Phases,
         CommitFails, hist
<1>17. CASE MarkerReturns
    BY <1>17, VerifyIs, Ends DEF TodoInv, Of, NamesInv, Mine, OpInv, TypeOK, Phases,
         MarkerReturns, Ack, Adopt, files, synced
<1>18. CASE Start
    BY <1>18 DEF TodoInv, Of, NamesInv, Mine, OpInv, TypeOK, Phases, Start, files, synced,
         hist
<1>19. CASE RecoverJournals
    BY <1>19, RecoverIs DEF TodoInv, Of, NamesInv, Mine, OpInv, TypeOK, Phases,
         RecoverJournals, files, synced, hist, Idle
<1>20. CASE Serve
    BY <1>20 DEF TodoInv, Of, NamesInv, Mine, OpInv, TypeOK, Phases, Serve, files, synced,
         hist
<1>21. ASSUME NEW h \in Hosts, RecoverMarker(h) PROVE TodoInv'
    BY <1>21, MarkerIs DEF TodoInv, Of, NamesInv, Mine, OpInv, TypeOK, Phases, Starts
<1>22. ASSUME NEW h \in Hosts, LoadLock(h) PROVE TodoInv'
    BY <1>22, LoadCases DEF TodoInv, Of, NamesInv, Mine, OpInv, TypeOK, Phases, Starts, files,
         synced
<1>23. CASE Crash
    BY <1>23, CrashIs, Ends DEF TodoInv, Of, NamesInv, Mine, OpInv, TypeOK, Phases, hist
<1> QED
    BY <1>1, <1>2, <1>3, <1>4, <1>5, <1>6, <1>7, <1>8, <1>9, <1>10, <1>11, <1>12, <1>13,
         <1>14, <1>15, <1>16, <1>17, <1>18, <1>19, <1>20, <1>21, <1>22, <1>23 DEF Next,
         Handlers, Transition, Startup, Handle

\* A journal is there until its record is applied.
LEMMA JournalStep ==
    ASSUME TypeOK, NamesInv, OpInv, TodoInv, UnreadInv, JournalInv, Next
    PROVE  JournalInv'
<1> USE NoneDiffers
<1>1. ASSUME NEW r \in Runs, NEW h \in Hosts, Assign(r, h) PROVE JournalInv'
    BY <1>1, AssignIs, RecordIs DEF JournalInv, OpInv, TodoInv, TypeOK, Phases, Of, Starts,
         files, synced, Serving, Idle
<1>2. ASSUME NEW r \in Runs, Handle(r) PROVE JournalInv'
    BY <1>2, HandleIs, RecordIs DEF JournalInv, OpInv, TodoInv, TypeOK, Phases, Of, Starts,
         Handled, Serving, Idle
<1>3. ASSUME NEW r \in Runs, SaveAssignment(r) PROVE JournalInv'
    BY <1>3 DEF JournalInv, OpInv, TodoInv, TypeOK, Phases, Of, SaveAssignment, Fault, hist,
         Idle
<1>4. CASE FileStep
    <2>1. /\ op.cur.run \in Runs /\ op.at \in 0..5 /\ op.phase \in {"persist", "replay"}
          /\ op.phase = "persist" => op.cur = op.want
          /\ op.phase = "replay" => op.at \in 1..5
          /\ ~op.failed
        BY <1>4, FileStepIs, RecordIs DEF OpInv
    <2>2. CASE op.at = 0
        BY <2>1, <2>2, <1>4, FileStepIs DEF Wrote, JournalInv, TypeOK
    <2>3. CASE op.at \in 1..3
        <3>1. UNCHANGED journal /\ op'.at \in 2..4 /\ op'.phase = op.phase /\ op'.cur = op.cur
            BY <2>3, <1>4, FileStepIs DEF Wrote
        <3> QED
            BY <3>1, <2>1, <2>3, <1>4, FileStepIs DEF JournalInv
    <2>4. CASE op.at = 4
        BY <2>1, <2>4, <1>4, FileStepIs DEF Wrote, JournalInv, TypeOK
    <2>5. CASE op.at = 5
        BY <2>1, <2>5, <1>4, FileStepIs DEF Wrote, JournalInv
    <2> QED
        BY <2>1, <2>2, <2>3, <2>4, <2>5
<1>5. CASE FileStepFails
    BY <1>5, FileStepFailsIs, FailsIs, Ends DEF JournalInv, OpInv, TodoInv, TypeOK, Phases,
         Of, Wrote, files
<1>6. CASE Scan
    BY <1>6, ScanIs DEF JournalInv, OpInv, TodoInv, TypeOK, Phases, Of, Scan, files, synced,
         hist
<1>7. CASE PickJournal
    <2>1. /\ op.phase = "replay" /\ op.kind # None /\ op.cur = None /\ mode # "down"
          /\ UNCHANGED <<journal, assignment, hostLock, ledger, marker, mem, quar, mode, unread, faults>>
        BY <1>7, PickIs DEF PickJournal, Running, files
    <2>2. PICK q \in op.todo :
            /\ q \in Runs /\ journal[q] \in Record /\ journal[q].run = q
            /\ op'.kind = op.kind /\ op'.phase = "replay" /\ op'.want = op.want
            /\ op'.cur = Prepare(journal[q]) /\ op'.at = 1 /\ op'.todo = op.todo \ {q}
            /\ op'.failed = op.failed
        BY <1>7, PickIs
    <2>4. \/ op'.cur = journal[q]
          \/ op'.cur.state = "quarantined" /\ journal[q].state # "completed"
        BY <2>2, PrepareIs
    <2>3. op'.cur \in Record /\ op'.cur.run = q /\ op'.cur.host = journal[q].host
        BY <2>2, PrepareIs
    <2> QED
        BY <2>1, <2>2, <2>3, <2>4 DEF JournalInv
<1>8. CASE ReadFails
    BY <1>8, FailsIs, Ends DEF JournalInv, OpInv, TodoInv, TypeOK, Phases, Of, ReadFails,
         Running, Fault, files, synced, hist
<1>9. CASE ReplayDone
    BY <1>9, ReplayedIs, Ends DEF JournalInv, OpInv, TodoInv, TypeOK, Phases, Of, ReplayDone,
         files, synced, hist
<1>10. CASE CommitReturns
    BY <1>10, VerifyIs, Ends DEF JournalInv, OpInv, TodoInv, TypeOK, Phases, Of,
         CommitReturns, Ack, Adopt, files, synced
<1>11. CASE FinishReturns
    BY <1>11, FinishIs, VerifyIs DEF JournalInv, OpInv, TodoInv, TypeOK, Phases, Of, Starts,
         files, synced
<1>12. CASE CompleteReturns
    BY <1>12, VerifyIs, Ends DEF JournalInv, OpInv, TodoInv, TypeOK, Phases, Of,
         CompleteReturns, Ack, files, synced
<1>13. CASE AssignReturns
    BY <1>13, VerifyIs, Ends DEF JournalInv, OpInv, TodoInv, TypeOK, Phases, Of,
         AssignReturns, Ack, Adopt, files, synced
<1>14. CASE AssignFails
    BY <1>14, AssignFailsIs, VerifyIs DEF JournalInv, OpInv, TodoInv, TypeOK, Phases, Of,
         Starts
<1>15. CASE RescueReturns
    BY <1>15, VerifyIs, Ends DEF JournalInv, OpInv, TodoInv, TypeOK, Phases, Of,
         RescueReturns, Ack, hist, files, synced
<1>16. CASE CommitFails
    BY <1>16, VerifyIs, Ends DEF JournalInv, OpInv, TodoInv, TypeOK, Phases, Of, CommitFails,
         hist
<1>17. CASE MarkerReturns
    BY <1>17, VerifyIs, Ends DEF JournalInv, OpInv, TodoInv, TypeOK, Phases, Of,
         MarkerReturns, Ack, Adopt, files, synced
<1>18. CASE Start
    BY <1>18 DEF JournalInv, OpInv, TodoInv, TypeOK, Phases, Of, Start, files, synced, hist
<1>19. CASE RecoverJournals
    BY <1>19, RecoverIs DEF JournalInv, OpInv, TodoInv, TypeOK, Phases, Of, RecoverJournals,
         files, synced, hist, Idle
<1>20. CASE Serve
    BY <1>20 DEF JournalInv, OpInv, TodoInv, TypeOK, Phases, Of, Serve, files, synced, hist
<1>21. ASSUME NEW h \in Hosts, RecoverMarker(h) PROVE JournalInv'
    BY <1>21, MarkerIs DEF JournalInv, OpInv, TodoInv, TypeOK, Phases, Of, Starts
<1>22. ASSUME NEW h \in Hosts, LoadLock(h) PROVE JournalInv'
    BY <1>22, LoadCases DEF JournalInv, OpInv, TodoInv, TypeOK, Phases, Of, Starts, files,
         synced
<1>23. CASE Crash
    BY <1>23, CrashIs, Ends DEF JournalInv, OpInv, TodoInv, TypeOK, Phases, Of, hist
<1> QED
    BY <1>1, <1>2, <1>3, <1>4, <1>5, <1>6, <1>7, <1>8, <1>9, <1>10, <1>11, <1>12, <1>13,
         <1>14, <1>15, <1>16, <1>17, <1>18, <1>19, <1>20, <1>21, <1>22, <1>23 DEF Next,
         Handlers, Transition, Startup, Handle

\* The Host Locks to be loaded stay where they are.
LEMMA UnreadStep ==
    ASSUME TypeOK, NamesInv, OpInv, TodoInv, UnreadInv, JournalInv, Next
    PROVE  UnreadInv'
<1> USE NoneDiffers
<1>1. ASSUME NEW r \in Runs, NEW h \in Hosts, Assign(r, h) PROVE UnreadInv'
    BY <1>1, AssignIs DEF UnreadInv, Idle, OpInv, TodoInv, Of, TypeOK, Starts, files, synced,
         Serving
<1>2. ASSUME NEW r \in Runs, Handle(r) PROVE UnreadInv'
    BY <1>2, HandleIs DEF UnreadInv, Idle, OpInv, TodoInv, Of, TypeOK, Starts, Handled,
         Serving
<1>3. ASSUME NEW r \in Runs, SaveAssignment(r) PROVE UnreadInv'
    BY <1>3 DEF UnreadInv, Idle, OpInv, TodoInv, Of, TypeOK, SaveAssignment, Fault, hist
<1>4. CASE FileStep
    BY <1>4, FileStepIs DEF UnreadInv, Idle, OpInv, TodoInv, Of, TypeOK, Wrote
<1>5. CASE FileStepFails
    BY <1>5, FileStepFailsIs, FailsIs, Ends DEF UnreadInv, Idle, OpInv, TodoInv, Of, TypeOK,
         Wrote, files
<1>6. CASE Scan
    BY <1>6, ScanIs DEF UnreadInv, Idle, OpInv, TodoInv, Of, TypeOK, Scan, files, synced, hist
<1>7. CASE PickJournal
    <2>1. /\ op.phase = "replay" /\ op.kind # None /\ op.cur = None /\ mode # "down"
          /\ UNCHANGED <<journal, assignment, hostLock, ledger, marker, mem, quar, mode, unread, faults>>
        BY <1>7, PickIs DEF PickJournal, Running, files
    <2>2. PICK q \in op.todo :
            /\ q \in Runs /\ journal[q] \in Record /\ journal[q].run = q
            /\ op'.kind = op.kind /\ op'.phase = "replay" /\ op'.want = op.want
            /\ op'.cur = Prepare(journal[q]) /\ op'.at = 1 /\ op'.todo = op.todo \ {q}
            /\ op'.failed = op.failed
        BY <1>7, PickIs
    <2>3. op'.cur \in Record /\ op'.cur.run = q /\ op'.cur.host = journal[q].host
        BY <2>2, PrepareIs
    <2> QED
        BY <2>1, <2>2, <2>3 DEF UnreadInv, Idle, OpInv
<1>8. CASE ReadFails
    BY <1>8, FailsIs, Ends DEF UnreadInv, Idle, OpInv, TodoInv, Of, TypeOK, ReadFails,
         Running, Fault, files, synced, hist
<1>9. CASE ReplayDone
    BY <1>9, ReplayedIs, Ends DEF UnreadInv, Idle, OpInv, TodoInv, Of, TypeOK, ReplayDone,
         files, synced, hist
<1>10. CASE CommitReturns
    BY <1>10, VerifyIs, Ends DEF UnreadInv, Idle, OpInv, TodoInv, Of, TypeOK, CommitReturns,
         Ack, Adopt, files, synced
<1>11. CASE FinishReturns
    BY <1>11, FinishIs, VerifyIs DEF UnreadInv, Idle, OpInv, TodoInv, Of, TypeOK, Starts,
         files, synced
<1>12. CASE CompleteReturns
    <2>1. op.want \in Record /\ op.phase = "verify" /\ op.kind # None
        BY <1>12, VerifyIs, NoneDiffers DEF CompleteReturns
    <2>2. journal[op.want.run] = None
        BY <2>1, <1>12, RecordIs DEF CompleteReturns, Succeeds, JournalInv
    <2>3. ASSUME mode = "load", NEW q \in Runs, journal[q] # None PROVE FALSE
        <3>1. journal[q] = op.want /\ journal[q].run = q
            BY <2>3 DEF UnreadInv, NamesInv, Mine
        <3> QED
            BY <3>1, <2>2, <2>3
    <2> QED
        BY <2>3, <1>12, Ends DEF CompleteReturns, UnreadInv, Idle, files
<1>13. CASE AssignReturns
    BY <1>13, VerifyIs, Ends DEF UnreadInv, Idle, OpInv, TodoInv, Of, TypeOK, AssignReturns,
         Ack, Adopt, files, synced
<1>14. CASE AssignFails
    BY <1>14, AssignFailsIs, VerifyIs DEF UnreadInv, Idle, OpInv, TodoInv, Of, TypeOK, Starts
<1>15. CASE RescueReturns
    BY <1>15, VerifyIs, Ends DEF UnreadInv, Idle, OpInv, TodoInv, Of, TypeOK, RescueReturns,
         Ack, hist, files, synced
<1>16. CASE CommitFails
    BY <1>16, VerifyIs, Ends DEF UnreadInv, Idle, OpInv, TodoInv, Of, TypeOK, CommitFails,
         hist
<1>17. CASE MarkerReturns
    BY <1>17, VerifyIs, Ends DEF UnreadInv, Idle, OpInv, TodoInv, Of, TypeOK, MarkerReturns,
         Ack, Adopt, files, synced
<1>18. CASE Start
    BY <1>18 DEF UnreadInv, Idle, OpInv, TodoInv, Of, TypeOK, Start, files, synced, hist
<1>19. CASE RecoverJournals
    BY <1>19, RecoverIs DEF UnreadInv, Idle, OpInv, TodoInv, Of, TypeOK, RecoverJournals,
         files, synced, hist
<1>20. CASE Serve
    BY <1>20 DEF UnreadInv, Idle, OpInv, TodoInv, Of, TypeOK, Serve, files, synced, hist
<1>21. ASSUME NEW h \in Hosts, RecoverMarker(h) PROVE UnreadInv'
    BY <1>21, MarkerIs DEF UnreadInv, Idle, OpInv, TodoInv, Of, TypeOK, Starts
<1>22. ASSUME NEW h \in Hosts, LoadLock(h) PROVE UnreadInv'
    <2>1. \A q \in Runs : journal[q] = None
        BY <1>22, LoadCases, Ends DEF UnreadInv, OpInv
    <2>2. CASE UNCHANGED op
        BY <2>1, <2>2, <1>22, LoadCases, Ends DEF UnreadInv, OpInv, files, Idle
    <2>3. CASE \E rec \in Record : rec.host = h /\ Starts("complete", rec)
        BY <2>1, <2>3, <1>22, LoadCases DEF UnreadInv, Starts, files, TypeOK
    <2> QED
        BY <2>2, <2>3, <1>22, LoadCases
<1>23. CASE Crash
    BY <1>23, CrashIs, Ends DEF UnreadInv, Idle, OpInv, TodoInv, Of, TypeOK, hist
<1> QED
    BY <1>1, <1>2, <1>3, <1>4, <1>5, <1>6, <1>7, <1>8, <1>9, <1>10, <1>11, <1>12, <1>13,
         <1>14, <1>15, <1>16, <1>17, <1>18, <1>19, <1>20, <1>21, <1>22, <1>23 DEF Next,
         Handlers, Transition, Startup, Handle

-----------------------------------------------------------------------------
(* The theorems.                                                           *)

\* The initial state is typed, and nothing is in flight.
LEMMA InitBase == Init => Base
<1> SUFFICES ASSUME Init PROVE Base
    OBVIOUS
<1> USE NoneDiffers, FaultAssumption
<1>1. op = NoOp /\ mode = "serving" /\ unread = {}
    BY DEF Init
<1>2. FileTypes
    BY DEF Init, FileTypes, Modes, Ledgers
<1>3. TypeOK
    BY <1>1, <1>2, FilesTyped, Ends
<1>4. NamesInv
    BY DEF Init, NamesInv, Mine
<1>5. OpInv /\ TodoInv /\ JournalInv /\ UnreadInv
    BY <1>1, Ends DEF OpInv, Idle, Kinds, Phases, TodoInv, JournalInv, UnreadInv
<1> QED
    BY <1>3, <1>4, <1>5 DEF Base

\* Every step keeps it.
LEMMA BaseStep == Base /\ [Next]_vars => Base'
<1> SUFFICES ASSUME Base, [Next]_vars PROVE Base'
    OBVIOUS
<1>1. CASE Next
    BY <1>1, TypeStep, NamesStep, OpStep, TodoStep, JournalStep, UnreadStep DEF Base
<1>2. CASE UNCHANGED vars
    BY <1>2 DEF Base, TypeOK, NamesInv, Mine, OpInv, Idle, TodoInv, Of, JournalInv, UnreadInv,
         vars, files, synced, hist
<1> QED
    BY <1>1, <1>2

\* What a transition of the store holds and has left to do, in every reachable state
\* and under any failing file operations and any crashes: the journal of the record
\* it applies is on disk until that record is in place, Recover replays the journals
\* that are there and no others, and a Commit that succeeds leaves no journal.
THEOREM Invariance == Spec => []Base
    BY InitBase, BaseStep, PTL DEF Spec

\* The files, their durable twins and the process state keep their types: recovery
\* never replays an incomplete journal and never verifies a transition without a
\* wanted record.
THEOREM TypeCorrect == Spec => []TypeOK
<1>1. Base => TypeOK
    BY DEF Base
<1> QED
    BY <1>1, Invariance, PTL

=============================================================================
