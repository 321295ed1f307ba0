------------------------ MODULE TransitionStoreSafety ------------------------
(***************************************************************************)
(* Who owns a Host, and what a Run's files say after any crash: proofs     *)
(* about TransitionStore for any Runs and Hosts.  They assume that a       *)
(* machine that can lose power has no failing file operations; a process   *)
(* that only stops may meet any number of them.                            *)
(***************************************************************************)
EXTENDS TransitionStoreProofs

Reliable == PowerLoss => MaxFaults = 0

\* What is seen is durable, up to the journal whose removal is not synced yet.
TwinInv ==
    /\ sAssignment = assignment /\ sHostLock = hostLock /\ sLedger = ledger
    /\ \A r \in Runs :
         \/ sJournal[r] = journal[r]
         \/ /\ PowerLoss /\ Of(op.cur, r) /\ op.at = 5 /\ journal[r] = None
            /\ sJournal[r] # None /\ sJournal[r].host = op.cur.host
            /\ \/ op.cur = sJournal[r]
               \/ op.cur.state = "quarantined" /\ sJournal[r].state # "completed"

\* The records a Run may have: the last acknowledged one and those in doubt.
Possible(r) == {acked[r]} \cup doubt[r]

\* Every file, and memory, holds one of them.
HistoryInv ==
    \A r \in Runs : /\ {journal[r], sJournal[r], assignment[r], mem[r]} \subseteq Possible(r) \cup {None}
                    /\ Of(op.cur, r) => op.cur \in Possible(r)
                    /\ Of(op.want, r) => op.want \in doubt[r]

\* The ledger a record publishes is that of its state.
LedgerOf(state) == IF state \in {"assigned", "confirmed"} THEN "submitted" ELSE "terminal"

CoherentInv ==
    /\ \A r \in Runs : \A x \in Possible(r) : x # None => x.ledger = LedgerOf(x.state)
    /\ \A h \in Hosts : hostLock[h] # None => hostLock[h].state # "completed"

\* A Run has one Host.
HomeInv ==
    \A r \in Runs :
        /\ \A x, y \in Possible(r) : x # None /\ y # None => x.host = y.host
        /\ \A h \in Hosts : marker[h] = r \/ quar[h] = r \/ Of(hostLock[h], r) =>
              \E x \in Possible(r) : x # None /\ x.host = h

\* Who has to do with a Host; it is one Run at a time.
Named(r, h) ==
    \/ marker[h] = r \/ quar[h] = r \/ Of(hostLock[h], r) \/ At(mem[r], r, h)
    \/ At(journal[r], r, h) \/ At(sJournal[r], r, h) \/ At(op.cur, r, h) \/ At(op.want, r, h)

Exclusive == \A h \in Hosts, r, q \in Runs : Named(r, h) /\ Named(q, h) => r = q

\* What a transition wants, and the record in memory that it starts from.
KindInv ==
    /\ op.kind = "assign" => /\ op.want.state = "assigned" /\ ~op.want.bound
                             /\ mem[op.want.run] = None /\ marker[op.want.host] = op.want.run
                             /\ acked[op.want.run] = None
    /\ op.kind \in {"confirm", "bind"} =>
          op.want.state = "confirmed" /\ In(mem[op.want.run], op.want.run, {"assigned", "confirmed"})
    /\ op.kind = "finish" =>
          op.want.state = "finishing" /\ In(mem[op.want.run], op.want.run, {"confirmed"})
    /\ op.kind = "complete" => op.want.state = "completed"
    /\ op.kind = "complete" /\ mode = "serving" => In(mem[op.want.run], op.want.run, {"finishing"})
    /\ op.kind \in {"quarantine", "rescue", "marker"} => op.want.state = "quarantined"
    /\ op.kind = "quarantine" => In(mem[op.want.run], op.want.run, {"confirmed", "finishing"})
    /\ op.kind = "rescue" => mem[op.want.run] = op.want
    /\ op.kind \in {"rescue", "marker"} =>
          marker[op.want.host] = op.want.run /\ quar[op.want.host] = op.want.run

\* The states of a Run that an Agent works on.
Live == {"assigned", "confirmed"}

\* A serving process knows the Run behind every file; a starting one has seen every
\* marker before it reads the journals, and knows the Runs whose locks it has read.
KnownInv ==
    /\ mode \in {"recover", "load"} => \A h \in Hosts : marker[h] = None
    /\ mode \in {"down", "markers", "recover"} => \A r \in Runs : ~In(mem[r], r, Live)
    /\ mode = "load" => \A r \in Runs : In(mem[r], r, Live) => mem[r].host \notin unread
    /\ mode = "load" =>
         \A r \in Runs, h \in Hosts : Of(hostLock[h], r) /\ h \notin unread =>
             At(mem[r], r, h) \/ At(op.want, r, h)
    /\ mode = "serving" =>
         \A r \in Runs, h \in Hosts :
             marker[h] = r \/ Of(hostLock[h], r) \/ At(journal[r], r, h) \/ At(sJournal[r], r, h) =>
                 At(mem[r], r, h) \/ (op.kind = "assign" /\ At(op.want, r, h))

\* A Run that began to complete has nothing left of its earlier life.
Ending(r) ==
    \/ In(assignment[r], r, {"completed"}) \/ In(journal[r], r, {"completed"})
    \/ In(sJournal[r], r, {"completed"}) \/ In(op.cur, r, {"completed"})
    \/ In(op.want, r, {"completed"}) \/ In(mem[r], r, {"finishing"})
Going(r) ==
    \/ In(mem[r], r, Live) \/ In(journal[r], r, Live) \/ In(sJournal[r], r, Live)
    \/ In(op.cur, r, Live) \/ In(op.want, r, Live)

LevelInv == \A r \in Runs : ~(Ending(r) /\ Going(r))

\* As long as its marker is there, a Run is assigned or quarantined, and no session
\* is bound.
Early(x, r) == Of(x, r) => x.state \in {"assigned", "quarantined"} /\ ~x.bound

MarkerInv ==
    \A h \in Hosts, r \in Runs : marker[h] = r =>
        /\ Early(assignment[r], r) /\ Early(journal[r], r) /\ Early(sJournal[r], r)
        /\ Early(op.cur, r) /\ Early(op.want, r)
        /\ Of(mem[r], r) => mem[r].state = "quarantined"

\* A quarantine on disk that nothing in flight can change.
Quarantined(r) ==
    /\ journal[r] = None /\ sJournal[r] = None /\ ~Of(op.cur, r) /\ ~Of(op.want, r)
    /\ In(assignment[r], r, {"quarantined"}) /\ Of(hostLock[assignment[r].host], r)
    /\ Of(mem[r], r) => mem[r].state = "quarantined"

\* A quarantine on disk that whatever is in flight writes again.
Settled(r) ==
    /\ Of(journal[r], r) => journal[r].state = "quarantined"
    /\ Of(sJournal[r], r) => sJournal[r].state = "quarantined"
    /\ Of(op.cur, r) => op.cur.state = "quarantined"
    /\ Of(op.want, r) => op.want.state = "quarantined"
    /\ In(assignment[r], r, {"quarantined"}) /\ Of(hostLock[assignment[r].host], r)
    /\ Of(mem[r], r) => mem[r].state = "quarantined"

AckedInv == \A r \in Runs : In(acked[r], r, {"quarantined"}) => Settled(r)

\* A quarantine that is under way.
Marked(r, h) ==
    /\ marker[h] = r /\ ledger[r] = "terminal"
    /\ Of(op.cur, r) => op.cur.state = "quarantined"
    /\ Of(op.want, r) => op.want.state = "quarantined"
    /\ \E x \in doubt[r] : x.state = "quarantined" /\ ~x.bound

\* The Run an Agent is quarantined for is quarantined on disk, or its marker is there.
Kept(r) == Quarantined(r) \/ \A h \in Hosts : quar[h] = r => Marked(r, h)

QuarantineInv == \A r \in Runs : Kept(r)

\* How far the operation in flight has come.
ProgressInv ==
    /\ op.cur # None /\ op.cur.state = "completed" =>
          /\ op.at \in 2..6 => assignment[op.cur.run] = op.cur
          /\ op.at \in 3..6 => ledger[op.cur.run] = "terminal"
          /\ op.at \in 4..6 => hostLock[op.cur.host] = None
    /\ op.cur # None /\ op.cur.state # "completed" =>
          /\ op.at \in 3..6 => hostLock[op.cur.host] = LockOf(op.cur)
          /\ op.at \in 4..6 /\ (op.phase # "replay" \/ faults \in 0..1) => assignment[op.cur.run] = op.cur

\* A Run given to an Agent has the Host Lock, and one that began to complete has it
\* until its ledger is terminal.
CustodyInv ==
    \A r \in Runs :
        /\ In(mem[r], r, Live) => Of(hostLock[mem[r].host], r)
        /\ Ending(r) => (\E h \in Hosts : Of(hostLock[h], r)) \/ ledger[r] = "terminal"

\* An acknowledged Run has the Host Lock until completed is one of its records.
ReleaseInv ==
    \A r \in Runs : acked[r] # None =>
        \/ Of(hostLock[acked[r].host], r)
        \/ \E x \in Possible(r) : x # None /\ x.state = "completed"

\* After at most one failure a Host Lock without journal agrees with its assignment,
LocksAgree ==
    faults \in 0..1 =>
        \A h \in Hosts, r \in Runs : Of(hostLock[h], r) /\ journal[r] = None =>
            At(assignment[r], r, h) /\ LockOf(assignment[r]) = hostLock[h]

\* memory agrees with the Host Lock, or has the transition that changed it in flight,
MemoryAgrees ==
    faults \in 0..1 =>
        \A r \in Runs : In(mem[r], r, Live) =>
            /\ journal[r] = None =>
                 \/ hostLock[mem[r].host] = LockOf(mem[r])
                 \/ Of(op.want, r) /\ hostLock[mem[r].host] = LockOf(op.want)
            /\ journal[r] # None => journal[r] = op.want

\* and the failure is the one that sent Commit into Recover.
FaultsInv ==
    /\ op.failed => faults \notin 0..1
    /\ op.kind \notin {None, "boot"} /\ op.at # 6 /\ op.phase # "persist" => faults # 0

RepairInv == LocksAgree /\ MemoryAgrees /\ FaultsInv

\* What is replayed is the journal, or the Agent is quarantined for its Run.
ReplayInv ==
    op.phase = "replay" /\ op.at \in 1..4 =>
        op.cur = journal[op.cur.run] \/ quar[op.cur.host] = op.cur.run

-----------------------------------------------------------------------------
(* Facts that several steps need.                                          *)

\* The records of the operation in flight.
LEMMA Handed ==
    ASSUME TypeOK
    PROVE  /\ op.cur # None => op.cur \in Record /\ op.cur.run \in Runs /\ op.cur.host \in Hosts
           /\ op.want # None => op.want \in Record /\ op.want.run \in Runs /\ op.want.host \in Hosts
    BY OpFields, RecordIs DEF TypeOK

\* What is seen stays durable.
LEMMA TwinStep ==
    ASSUME TypeOK, NamesInv, OpInv, TodoInv, UnreadInv, JournalInv, TwinInv, Reliable,
           Next
    PROVE  TwinInv'
<1> USE NoneDiffers, FaultAssumption
<1>1. ASSUME NEW r \in Runs, NEW h \in Hosts, Assign(r, h) PROVE TwinInv'
    BY <1>1, AssignIs, Ends DEF TwinInv, Of, OpInv, TypeOK, Starts, files, synced, Serving,
         Idle
<1>2. ASSUME NEW r \in Runs, Handle(r) PROVE TwinInv'
    BY <1>2, HandleIs, Ends DEF TwinInv, Of, OpInv, TypeOK, Starts, Handled, Serving, Idle
<1>3. ASSUME NEW r \in Runs, SaveAssignment(r) PROVE TwinInv'
    <2>1. sAssignment' = assignment'
        BY <1>3 DEF SaveAssignment, Fault, Reliable, TypeOK
    <2> QED
        BY <2>1, <1>3 DEF SaveAssignment, TwinInv
<1>4. CASE FileStep
    <2>1. op.cur.run \in Runs /\ op.at \in 0..5 /\ op.cur \in Record
        BY <1>4, FileStepIs, RecordIs
    <2>2. CASE op.at = 4
        <3>1. StepAt(op.cur, op.at) = "remove"
            BY <2>1, <2>2, StepIs
        <3>2. NotSynced
            BY <3>1, <1>4 DEF FileStep
        <3>3. /\ journal' = [journal EXCEPT ![op.cur.run] = None]
              /\ UNCHANGED <<assignment, ledger, hostLock>>
              /\ op'.at = 5 /\ op'.cur = op.cur
            BY <2>2, <1>4, FileStepIs DEF Wrote
        <3>4. CASE ~PowerLoss
            BY <3>2, <3>3, <3>4 DEF NotSynced, TwinInv
        <3>5. CASE PowerLoss
            <4>1. /\ journal[op.cur.run] # None /\ journal[op.cur.run].host = op.cur.host
                  /\ \/ op.cur = journal[op.cur.run]
                     \/ op.cur.state = "quarantined" /\ journal[op.cur.run].state # "completed"
                BY <2>1, <2>2, <1>4, FileStepIs DEF JournalInv, OpInv
            <4>2. UNCHANGED synced /\ \A r \in Runs : sJournal[r] = journal[r]
                BY <2>2, <3>2, <3>5 DEF NotSynced, TwinInv
            <4> QED
                BY <2>1, <3>3, <3>5, <4>1, <4>2 DEF TwinInv, Of, synced, TypeOK
        <3> QED
            BY <3>4, <3>5
    <2>3. CASE op.at # 4
        <3>1. StepAt(op.cur, op.at) # "remove"
            BY <2>1, <2>3, StepIs
        <3>2. Synced(StepAt(op.cur, op.at), op.cur.run)
            BY <3>1, <1>4 DEF FileStep
        <3>3. op.at \in {0, 5} => sJournal' = journal'
            BY <2>1, <3>2, StepIs DEF Synced
        <3>4. op.at \notin {0, 5} => UNCHANGED <<journal, sJournal>> /\ \A r \in Runs : sJournal[r] = journal[r]
            BY <2>1, <2>3, <3>2, StepIs, <1>4, FileStepIs DEF Synced, Wrote, TwinInv
        <3>5. sAssignment' = assignment'
            BY <2>1, <2>3, <3>2, StepIs, <1>4, FileStepIs DEF Synced, Wrote, TwinInv
        <3>6. sHostLock' = hostLock'
            BY <2>1, <2>3, <3>2, StepIs, <1>4, FileStepIs DEF Synced, Wrote, TwinInv
        <3>7. sLedger' = ledger'
            BY <2>1, <2>3, <3>2, StepIs, <1>4, FileStepIs DEF Synced, Wrote, TwinInv, TypeOK
        <3> QED
            BY <3>3, <3>4, <3>5, <3>6, <3>7 DEF TwinInv
    <2> QED
        BY <2>2, <2>3
<1>5. CASE FileStepFails
    <2>1. ~PowerLoss
        BY <1>5, FileStepFailsIs DEF Reliable, TypeOK
    <2> QED
        BY <2>1, <1>5, FileStepFailsIs DEF NotSynced, TwinInv
<1>6. CASE Scan
    BY <1>6, ScanIs DEF TwinInv, Of, OpInv, TypeOK, Scan, files, synced, hist
<1>7. CASE PickJournal
    BY <1>7, PickIs, PrepareIs DEF TwinInv, Of, OpInv, TypeOK, PickJournal, files, synced,
         hist
<1>8. CASE ReadFails
    BY <1>8, FailsIs, Ends DEF TwinInv, Of, OpInv, TypeOK, ReadFails, Running, Fault, files,
         synced, hist
<1>9. CASE ReplayDone
    BY <1>9, ReplayedIs, Ends DEF TwinInv, Of, OpInv, TypeOK, ReplayDone, files, synced, hist
<1>10. CASE CommitReturns
    BY <1>10, VerifyIs, Ends DEF TwinInv, Of, OpInv, TypeOK, CommitReturns, Ack, Adopt, files,
         synced
<1>11. CASE FinishReturns
    BY <1>11, FinishIs, VerifyIs DEF TwinInv, Of, OpInv, TypeOK, Starts, files, synced
<1>12. CASE CompleteReturns
    BY <1>12, VerifyIs, Ends DEF TwinInv, Of, OpInv, TypeOK, CompleteReturns, Ack, files,
         synced
<1>13. CASE AssignReturns
    BY <1>13, VerifyIs, Ends DEF TwinInv, Of, OpInv, TypeOK, AssignReturns, Ack, Adopt, files,
         synced
<1>14. CASE AssignFails
    BY <1>14, AssignFailsIs, VerifyIs DEF TwinInv, Of, OpInv, TypeOK, Starts
<1>15. CASE RescueReturns
    BY <1>15, VerifyIs, Ends DEF TwinInv, Of, OpInv, TypeOK, RescueReturns, Ack, hist, files,
         synced
<1>16. CASE CommitFails
    BY <1>16, VerifyIs, Ends DEF TwinInv, Of, OpInv, TypeOK, CommitFails, hist
<1>17. CASE MarkerReturns
    BY <1>17, VerifyIs, Ends DEF TwinInv, Of, OpInv, TypeOK, MarkerReturns, Ack, Adopt, files,
         synced
<1>18. CASE Start
    BY <1>18 DEF TwinInv, Of, OpInv, TypeOK, Start, files, synced, hist
<1>19. CASE RecoverJournals
    BY <1>19, RecoverIs, Ends DEF TwinInv, Of, OpInv, TypeOK, RecoverJournals, files, synced,
         hist, Idle
<1>20. CASE Serve
    BY <1>20, Ends DEF TwinInv, Of, OpInv, TypeOK, Serve, files, synced, hist, Idle
<1>21. ASSUME NEW h \in Hosts, RecoverMarker(h) PROVE TwinInv'
    BY <1>21, MarkerIs, Ends DEF TwinInv, Of, OpInv, TypeOK, Starts, Idle
<1>22. ASSUME NEW h \in Hosts, LoadLock(h) PROVE TwinInv'
    BY <1>22, LoadCases, Ends DEF TwinInv, Of, OpInv, TypeOK, Starts, files, synced, Idle
<1>23. CASE Crash
    BY <1>23, CrashIs, Ends DEF TwinInv, Of, OpInv, TypeOK, hist
<1> QED
    BY <1>1, <1>2, <1>3, <1>4, <1>5, <1>6, <1>7, <1>8, <1>9, <1>10, <1>11, <1>12, <1>13,
         <1>14, <1>15, <1>16, <1>17, <1>18, <1>19, <1>20, <1>21, <1>22, <1>23 DEF Next,
         Handlers, Transition, Startup, Handle

\* Records with equal fields are equal.
LEMMA SameRecord ==
    ASSUME NEW x \in Record, NEW y \in Record, x.run = y.run, x.host = y.host,
           x.state = y.state, x.bound = y.bound, x.ledger = y.ledger
    PROVE  x = y
    BY DEF Record

\* When Commit reports success the files say what was wanted, and the journal is gone
\* for good.
LEMMA DoneIs ==
    ASSUME TypeOK, NamesInv, OpInv, JournalInv, TwinInv, HistoryInv, CoherentInv, ProgressInv,
           Running("verify"), Succeeds
    PROVE  /\ assignment[op.want.run] = op.want
           /\ journal[op.want.run] = None /\ sJournal[op.want.run] = None
           /\ op.want.state # "completed" => hostLock[op.want.host] = LockOf(op.want)
           /\ op.want.state = "completed" =>
                hostLock[op.want.host] = None /\ ledger[op.want.run] = "terminal"
           /\ op.want \in doubt[op.want.run]
<1> USE NoneDiffers
<1>1. /\ op.phase = "verify" /\ op.want \in Record /\ op.want.run \in Runs /\ op.want.host \in Hosts
    BY VerifyIs
<1>2. op.want \in doubt[op.want.run] /\ op.want \in Possible(op.want.run)
    BY <1>1 DEF HistoryInv, Of, Possible
<1>3. op.want.ledger = LedgerOf(op.want.state)
    BY <1>1, <1>2 DEF CoherentInv
<1>4. journal[op.want.run] = None
    BY <1>1 DEF Succeeds, JournalInv
<1>5. sJournal[op.want.run] = None
    BY <1>1, <1>4 DEF TwinInv, OpInv, Of
<1>6. CASE op.at = 6
    <2>1. op.cur = op.want
        BY <1>1, <1>6 DEF OpInv
    <2> QED
        BY <1>1, <1>2, <1>4, <1>5, <1>6, <2>1 DEF ProgressInv
<1>7. CASE op.at # 6
    <2>1. Verified(op.want)
        BY <1>7 DEF Succeeds
    <2>2. PICK a \in Record : a = assignment[op.want.run]
        BY <1>1, <2>1 DEF Verified, TypeOK
    <2>3. a.run = op.want.run /\ a \in Possible(op.want.run)
        BY <1>1, <2>2 DEF NamesInv, Mine, HistoryInv
    <2>4. a.ledger = LedgerOf(a.state)
        BY <1>1, <2>3 DEF CoherentInv
    <2>5. a.state = op.want.state /\ a.host = op.want.host /\ a.bound = op.want.bound
        BY <2>1, <2>2 DEF Verified
    <2>6. a = op.want
        BY <1>1, <1>3, <2>3, <2>4, <2>5, SameRecord
    <2> QED
        BY <1>2, <1>3, <1>4, <1>5, <2>1, <2>2, <2>6 DEF Verified, LedgerOf
<1> QED
    BY <1>6, <1>7

\* The record that replaces a journal whose Agent is quarantined was committed before.
LEMMA PreparedIs ==
    ASSUME TypeOK, NamesInv, HistoryInv, CoherentInv, HomeInv, MarkerInv, QuarantineInv,
           NEW r \in Runs, journal[r] # None
    PROVE  /\ Prepare(journal[r]) \in Possible(r)
           /\ \/ Prepare(journal[r]) = journal[r]
              \/ /\ quar[journal[r].host] = r /\ marker[journal[r].host] = r
                 /\ journal[r].state # "completed" /\ Prepare(journal[r]).state = "quarantined"
<1> USE NoneDiffers
<1>1. PICK j \in Record : j = journal[r]
    BY DEF TypeOK
<1>2. j.run = r /\ j.host \in Hosts /\ j \in Possible(r)
    BY <1>1, RecordIs DEF NamesInv, Mine, HistoryInv
<1>3. PICK p \in Record : p = Prepare(journal[r])
    BY <1>1, PrepareIs
<1>4. /\ p.run = r /\ p.host = j.host /\ p.bound = j.bound
      /\ \/ p = j
         \/ /\ quar[j.host] = r /\ j.state # "completed"
            /\ p.state = "quarantined" /\ p.ledger = ledger[r]
    BY <1>1, <1>2, <1>3, PrepareIs
<1>5. CASE p = j
    BY <1>1, <1>2, <1>3, <1>5
<1>6. CASE /\ quar[j.host] = r /\ j.state # "completed"
           /\ p.state = "quarantined" /\ p.ledger = ledger[r]
    <2>1. /\ marker[j.host] = r /\ ledger[r] = "terminal"
          /\ \E x \in doubt[r] : x.state = "quarantined" /\ ~x.bound
        BY <1>1, <1>2, <1>6 DEF QuarantineInv, Kept, Quarantined, Marked
    <2>2. PICK x \in doubt[r] : x.state = "quarantined" /\ ~x.bound
        BY <2>1
    <2>3. x \in Record /\ x.run = r /\ x \in Possible(r)
        BY <2>2 DEF TypeOK, NamesInv, Possible
    <2>4. x.host = j.host
        BY <1>1, <1>2, <2>3 DEF HomeInv
    <2>5. x.ledger = "terminal"
        BY <2>2, <2>3 DEF CoherentInv, LedgerOf
    <2>6. ~j.bound
        BY <1>1, <1>2, <2>1 DEF MarkerInv, Early, Of
    <2>7. p.bound = x.bound
        BY <1>4, <2>2, <2>3, <2>6, <1>1 DEF Record
    <2>8. p = x
        BY <1>4, <1>6, <2>1, <2>2, <2>3, <2>4, <2>5, <2>7, SameRecord
    <2> QED
        BY <1>1, <1>3, <1>6, <2>1, <2>3, <2>8
<1> QED
    BY <1>4, <1>5, <1>6

\* Every file stays one of the records committed for its Run.
LEMMA HistoryStep ==
    ASSUME TypeOK, NamesInv, OpInv, TodoInv, UnreadInv, JournalInv, TwinInv, HistoryInv,
           CoherentInv, HomeInv, Exclusive, KindInv, KnownInv, LevelInv, MarkerInv,
           AckedInv, QuarantineInv, ProgressInv, CustodyInv, ReleaseInv, RepairInv,
           ReplayInv, Reliable, Next
    PROVE  HistoryInv'
<1> USE NoneDiffers, Handed
<1>1. ASSUME NEW r \in Runs, NEW h \in Hosts, Assign(r, h) PROVE HistoryInv'
    BY <1>1, AssignIs, Ends DEF HistoryInv, Possible, Of, TypeOK, NamesInv, Mine, Starts,
         files, synced, Serving, Idle
<1>2. ASSUME NEW r \in Runs, Handle(r) PROVE HistoryInv'
    BY <1>2, HandleIs, Ends DEF HistoryInv, Possible, Of, TypeOK, NamesInv, Mine, Starts,
         Handled, Serving, Idle
<1>3. ASSUME NEW r \in Runs, SaveAssignment(r) PROVE HistoryInv'
    BY <1>3 DEF HistoryInv, Possible, Of, TypeOK, NamesInv, Mine, SaveAssignment, Fault, hist,
         Idle
<1>4. CASE FileStep
    BY <1>4, FileStepIs DEF HistoryInv, Possible, Of, TypeOK, NamesInv, Mine, Wrote, FileStep,
         Synced, NotSynced, synced
<1>5. CASE FileStepFails
    BY <1>5, FileStepFailsIs, FailsIs, Ends DEF HistoryInv, Possible, Of, TypeOK, NamesInv,
         Mine, Wrote, files, NotSynced, synced
<1>6. CASE Scan
    BY <1>6, ScanIs DEF HistoryInv, Possible, Of, TypeOK, NamesInv, Mine, Scan, files, synced,
         hist
<1>7. CASE PickJournal
    <2>1. /\ op.phase = "replay" /\ op.kind # None /\ op.cur = None /\ mode # "down"
          /\ UNCHANGED <<journal, assignment, hostLock, ledger, marker, mem, quar, mode, unread, faults>>
          /\ UNCHANGED <<sJournal, sAssignment, sHostLock, sLedger, acked, doubt>>
        BY <1>7, PickIs DEF PickJournal, Running, files, synced, hist
    <2>2. PICK q \in op.todo :
            /\ q \in Runs /\ journal[q] \in Record /\ journal[q].run = q
            /\ op'.kind = op.kind /\ op'.phase = "replay" /\ op'.want = op.want
            /\ op'.cur = Prepare(journal[q]) /\ op'.at = 1 /\ op'.todo = op.todo \ {q}
            /\ op'.failed = op.failed
        BY <1>7, PickIs
    <2>3. op'.cur \in Record /\ op'.cur.run = q /\ op'.cur.host = journal[q].host
        BY <2>2, PrepareIs
    <2>4. /\ op'.cur \in Possible(q)
          /\ \/ op'.cur = journal[q]
             \/ /\ quar[journal[q].host] = q /\ marker[journal[q].host] = q
                /\ journal[q].state # "completed" /\ op'.cur.state = "quarantined"
        BY <2>2, PreparedIs
    <2> QED
        BY <2>1, <2>2, <2>3, <2>4 DEF HistoryInv, Possible, Of
<1>8. CASE ReadFails
    BY <1>8, FailsIs, Ends DEF HistoryInv, Possible, Of, TypeOK, NamesInv, Mine, ReadFails,
         Running, Fault, files, synced, hist
<1>9. CASE ReplayDone
    BY <1>9, ReplayedIs, Ends DEF HistoryInv, Possible, Of, TypeOK, NamesInv, Mine,
         ReplayDone, files, synced, hist
<1>10. CASE CommitReturns
    BY <1>10, VerifyIs, Ends, DoneIs DEF HistoryInv, Possible, Of, TypeOK, NamesInv, Mine,
         CommitReturns, Ack, Adopt, files, synced
<1>11. CASE FinishReturns
    BY <1>11, FinishIs, VerifyIs, DoneIs DEF HistoryInv, Possible, Of, TypeOK, NamesInv, Mine,
         Starts, files, synced
<1>12. CASE CompleteReturns
    BY <1>12, VerifyIs, Ends, DoneIs DEF HistoryInv, Possible, Of, TypeOK, NamesInv, Mine,
         CompleteReturns, Ack, files, synced
<1>13. CASE AssignReturns
    BY <1>13, VerifyIs, Ends, DoneIs DEF HistoryInv, Possible, Of, TypeOK, NamesInv, Mine,
         AssignReturns, Ack, Adopt, files, synced
<1>14. CASE AssignFails
    BY <1>14, AssignFailsIs, VerifyIs DEF HistoryInv, Possible, Of, TypeOK, NamesInv, Mine,
         Starts
<1>15. CASE RescueReturns
    <2>1. op.want \in Record /\ op.want.run \in Runs /\ mem[op.want.run] = op.want
        BY <1>15, VerifyIs DEF RescueReturns, KindInv
    <2>2. CASE ~Succeeds
        BY <2>2, <1>15, Ends DEF RescueReturns, HistoryInv, Possible, Of, hist, files, synced
    <2>3. CASE Succeeds
        <3>1. /\ acked' = [acked EXCEPT ![op.want.run] = op.want] /\ doubt' = [doubt EXCEPT ![op.want.run] = {}]
              /\ UNCHANGED <<journal, sJournal, assignment, mem>> /\ op' = NoOp
            BY <2>3, <1>15 DEF RescueReturns, Ack, files, synced
        <3>2. /\ assignment[op.want.run] = op.want
              /\ journal[op.want.run] = None /\ sJournal[op.want.run] = None
            BY <2>3, <1>15, DoneIs DEF RescueReturns
        <3>3. acked'[op.want.run] = op.want /\ doubt'[op.want.run] = {}
            BY <2>1, <3>1 DEF TypeOK
        <3>4. ASSUME NEW r \in Runs, r # op.want.run PROVE acked'[r] = acked[r] /\ doubt'[r] = doubt[r]
            BY <2>1, <3>1, <3>4 DEF TypeOK
        <3> QED
            BY <2>1, <3>1, <3>2, <3>3, <3>4, Ends DEF HistoryInv, Possible, Of
    <2> QED
        BY <2>2, <2>3
<1>16. CASE CommitFails
    BY <1>16, VerifyIs, Ends DEF HistoryInv, Possible, Of, TypeOK, NamesInv, Mine,
         CommitFails, hist
<1>17. CASE MarkerReturns
    BY <1>17, VerifyIs, Ends, DoneIs DEF HistoryInv, Possible, Of, TypeOK, NamesInv, Mine,
         MarkerReturns, Ack, Adopt, files, synced
<1>18. CASE Start
    BY <1>18 DEF HistoryInv, Possible, Of, TypeOK, NamesInv, Mine, Start, files, synced, hist
<1>19. CASE RecoverJournals
    BY <1>19, RecoverIs, Ends DEF HistoryInv, Possible, Of, TypeOK, NamesInv, Mine,
         RecoverJournals, files, synced, hist, Idle
<1>20. CASE Serve
    BY <1>20, Ends DEF HistoryInv, Possible, Of, TypeOK, NamesInv, Mine, Serve, files, synced,
         hist, Idle
<1>21. ASSUME NEW h \in Hosts, RecoverMarker(h) PROVE HistoryInv'
    BY <1>21, MarkerIs, Ends DEF HistoryInv, Possible, Of, TypeOK, NamesInv, Mine, Starts,
         Idle
<1>22. ASSUME NEW h \in Hosts, LoadLock(h) PROVE HistoryInv'
    <2>1. /\ mode = "load" /\ UNCHANGED <<journal, sJournal, assignment, acked>>
        BY <1>22, LoadCases DEF files, synced
    <2>2. CASE UNCHANGED <<mem, op, doubt>>
        BY <2>1, <2>2 DEF HistoryInv, Possible, Of
    <2>3. CASE /\ UNCHANGED mem
               /\ \E rec \in Record : /\ rec.run = hostLock[h].run /\ Starts("complete", rec)
                                      /\ doubt' = [doubt EXCEPT ![rec.run] = doubt[rec.run] \cup {rec}]
        BY <2>1, <2>3, RecordIs DEF HistoryInv, Possible, Of, Starts, TypeOK
    <2>4. ASSUME LockMatches(h), UNCHANGED <<op, doubt>>, NEW rec \in Record,
                 rec.run = hostLock[h].run, rec.host = h, rec.bound = assignment[rec.run].bound,
                 rec.ledger = assignment[rec.run].ledger,
                 IF quar[h] = rec.run THEN rec.state = "quarantined" ELSE rec = assignment[rec.run],
                 mem' = [mem EXCEPT ![rec.run] = rec]
          PROVE  HistoryInv'
        <3>1. /\ assignment[rec.run] \in Record /\ assignment[rec.run].run = rec.run
              /\ assignment[rec.run].host = h /\ rec.run \in Runs
            BY <2>4, <1>22, LoadIs
        <3>2. rec = assignment[rec.run]
            <4>1. CASE quar[h] = rec.run
                <5>1. Quarantined(rec.run)
                    BY <2>1, <3>1, <4>1 DEF QuarantineInv, Kept, Marked, KnownInv
                <5>2. assignment[rec.run].state = "quarantined"
                    BY <5>1 DEF Quarantined, In
                <5> QED
                    BY <5>2, <4>1, <2>4, <3>1, SameRecord
            <4> QED
                BY <4>1, <2>4
        <3>3. rec \in Possible(rec.run)
            BY <3>1, <3>2 DEF HistoryInv
        <3> QED
            BY <2>1, <2>4, <3>1, <3>3 DEF HistoryInv, Possible, Of, TypeOK
    <2> QED
        BY <2>2, <2>3, <2>4, <1>22, LoadCases
<1>23. CASE Crash
    BY <1>23, CrashIs, Ends DEF HistoryInv, Possible, Of, TypeOK, NamesInv, Mine, hist,
         TwinInv
<1> QED
    BY <1>1, <1>2, <1>3, <1>4, <1>5, <1>6, <1>7, <1>8, <1>9, <1>10, <1>11, <1>12, <1>13,
         <1>14, <1>15, <1>16, <1>17, <1>18, <1>19, <1>20, <1>21, <1>22, <1>23 DEF Next,
         Handlers, Transition, Startup, Handle

\* Every record publishes the ledger of its state, and no Host Lock is completed.
LEMMA CoherentStep ==
    ASSUME TypeOK, NamesInv, OpInv, TodoInv, UnreadInv, JournalInv, TwinInv, HistoryInv,
           CoherentInv, HomeInv, Exclusive, KindInv, KnownInv, LevelInv, MarkerInv,
           AckedInv, QuarantineInv, ProgressInv, CustodyInv, ReleaseInv, RepairInv,
           ReplayInv, Reliable, Next
    PROVE  CoherentInv'
<1> USE NoneDiffers, Handed
<1>1. ASSUME NEW r \in Runs, NEW h \in Hosts, Assign(r, h) PROVE CoherentInv'
    BY <1>1, AssignIs, Ends DEF CoherentInv, Possible, LedgerOf, TypeOK, NamesInv, Mine,
         Starts, files, synced, Serving, Idle
<1>2. ASSUME NEW r \in Runs, Handle(r) PROVE CoherentInv'
    BY <1>2, HandleIs, Ends DEF CoherentInv, Possible, LedgerOf, TypeOK, NamesInv, Mine,
         Starts, Handled, Serving, Idle, HistoryInv
<1>3. ASSUME NEW r \in Runs, SaveAssignment(r) PROVE CoherentInv'
    BY <1>3 DEF CoherentInv, Possible, LedgerOf, TypeOK, NamesInv, Mine, SaveAssignment,
         Fault, hist, Idle
<1>4. CASE FileStep
    BY <1>4, FileStepIs, LockIs DEF CoherentInv, Possible, LedgerOf, TypeOK, NamesInv, Mine,
         Wrote
<1>5. CASE FileStepFails
    BY <1>5, FileStepFailsIs, FailsIs, Ends, LockIs DEF CoherentInv, Possible, LedgerOf,
         TypeOK, NamesInv, Mine, Wrote, files
<1>6. CASE Scan
    BY <1>6, ScanIs DEF CoherentInv, Possible, LedgerOf, TypeOK, NamesInv, Mine, Scan, files,
         synced, hist
<1>7. CASE PickJournal
    <2>1. /\ op.phase = "replay" /\ op.kind # None /\ op.cur = None /\ mode # "down"
          /\ UNCHANGED <<journal, assignment, hostLock, ledger, marker, mem, quar, mode, unread, faults>>
          /\ UNCHANGED <<sJournal, sAssignment, sHostLock, sLedger, acked, doubt>>
        BY <1>7, PickIs DEF PickJournal, Running, files, synced, hist
    <2>2. PICK q \in op.todo :
            /\ q \in Runs /\ journal[q] \in Record /\ journal[q].run = q
            /\ op'.kind = op.kind /\ op'.phase = "replay" /\ op'.want = op.want
            /\ op'.cur = Prepare(journal[q]) /\ op'.at = 1 /\ op'.todo = op.todo \ {q}
            /\ op'.failed = op.failed
        BY <1>7, PickIs
    <2>3. op'.cur \in Record /\ op'.cur.run = q /\ op'.cur.host = journal[q].host
        BY <2>2, PrepareIs
    <2>4. /\ op'.cur \in Possible(q)
          /\ \/ op'.cur = journal[q]
             \/ /\ quar[journal[q].host] = q /\ marker[journal[q].host] = q
                /\ journal[q].state # "completed" /\ op'.cur.state = "quarantined"
        BY <2>2, PreparedIs
    <2> QED
        BY <2>1, <2>2, <2>3, <2>4 DEF CoherentInv, Possible
<1>8. CASE ReadFails
    BY <1>8, FailsIs, Ends DEF CoherentInv, Possible, LedgerOf, TypeOK, NamesInv, Mine,
         ReadFails, Running, Fault, files, synced, hist
<1>9. CASE ReplayDone
    BY <1>9, ReplayedIs, Ends DEF CoherentInv, Possible, LedgerOf, TypeOK, NamesInv, Mine,
         ReplayDone, files, synced, hist
<1>10. CASE CommitReturns
    BY <1>10, VerifyIs, Ends, DoneIs DEF CoherentInv, Possible, LedgerOf, TypeOK, NamesInv,
         Mine, CommitReturns, Ack, Adopt, files, synced
<1>11. CASE FinishReturns
    BY <1>11, FinishIs, VerifyIs, DoneIs DEF CoherentInv, Possible, LedgerOf, TypeOK,
         NamesInv, Mine, Starts, files, synced
<1>12. CASE CompleteReturns
    BY <1>12, VerifyIs, Ends, DoneIs DEF CoherentInv, Possible, LedgerOf, TypeOK, NamesInv,
         Mine, CompleteReturns, Ack, files, synced
<1>13. CASE AssignReturns
    BY <1>13, VerifyIs, Ends, DoneIs DEF CoherentInv, Possible, LedgerOf, TypeOK, NamesInv,
         Mine, AssignReturns, Ack, Adopt, files, synced
<1>14. CASE AssignFails
    BY <1>14, AssignFailsIs, VerifyIs DEF CoherentInv, Possible, LedgerOf, TypeOK, NamesInv,
         Mine, Starts
<1>15. CASE RescueReturns
    BY <1>15, VerifyIs, Ends, DoneIs DEF CoherentInv, Possible, LedgerOf, TypeOK, NamesInv,
         Mine, RescueReturns, Ack, hist, files, synced
<1>16. CASE CommitFails
    BY <1>16, VerifyIs, Ends DEF CoherentInv, Possible, LedgerOf, TypeOK, NamesInv, Mine,
         CommitFails, hist
<1>17. CASE MarkerReturns
    BY <1>17, VerifyIs, Ends, DoneIs DEF CoherentInv, Possible, LedgerOf, TypeOK, NamesInv,
         Mine, MarkerReturns, Ack, Adopt, files, synced
<1>18. CASE Start
    BY <1>18 DEF CoherentInv, Possible, LedgerOf, TypeOK, NamesInv, Mine, Start, files,
         synced, hist
<1>19. CASE RecoverJournals
    BY <1>19, RecoverIs, Ends DEF CoherentInv, Possible, LedgerOf, TypeOK, NamesInv, Mine,
         RecoverJournals, files, synced, hist, Idle
<1>20. CASE Serve
    BY <1>20, Ends DEF CoherentInv, Possible, LedgerOf, TypeOK, NamesInv, Mine, Serve, files,
         synced, hist, Idle
<1>21. ASSUME NEW h \in Hosts, RecoverMarker(h) PROVE CoherentInv'
    BY <1>21, MarkerIs, Ends DEF CoherentInv, Possible, LedgerOf, TypeOK, NamesInv, Mine,
         Starts, Idle
<1>22. ASSUME NEW h \in Hosts, LoadLock(h) PROVE CoherentInv'
    BY <1>22, LoadCases, Ends DEF CoherentInv, Possible, LedgerOf, TypeOK, NamesInv, Mine,
         Starts, files, synced, Idle
<1>23. CASE Crash
    BY <1>23, CrashIs, Ends DEF CoherentInv, Possible, LedgerOf, TypeOK, NamesInv, Mine, hist,
         TwinInv
<1> QED
    BY <1>1, <1>2, <1>3, <1>4, <1>5, <1>6, <1>7, <1>8, <1>9, <1>10, <1>11, <1>12, <1>13,
         <1>14, <1>15, <1>16, <1>17, <1>18, <1>19, <1>20, <1>21, <1>22, <1>23 DEF Next,
         Handlers, Transition, Startup, Handle

\* A Run's Host is known from its records.
Homed(r, h) == \E x \in Possible(r) : x # None /\ x.host = h

\* A step keeps the Host of a Run if it adds no record of another Host and forgets
\* no Run.
LEMMA HomeKept ==
    ASSUME HomeInv,
           \A r \in Runs : \A x \in Possible(r)' : x # None => Homed(r, x.host),
           \A r \in Runs : \A y \in Possible(r) : y # None => \E x \in Possible(r)' : x # None,
           \A h \in Hosts, r \in Runs : marker'[h] = r \/ quar'[h] = r \/ Of(hostLock'[h], r) => Homed(r, h)
    PROVE  HomeInv'
<1> SUFFICES ASSUME NEW r \in Runs
             PROVE  /\ \A x, y \in Possible(r)' : x # None /\ y # None => x.host = y.host
                    /\ \A h \in Hosts : marker'[h] = r \/ quar'[h] = r \/ Of(hostLock'[h], r) =>
                         \E x \in Possible(r)' : x # None /\ x.host = h
    BY DEF HomeInv, Of
<1>1. \A x, y \in Possible(r)' : x # None /\ y # None => x.host = y.host
    BY DEF HomeInv, Homed
<1>2. ASSUME NEW h \in Hosts, marker'[h] = r \/ quar'[h] = r \/ Of(hostLock'[h], r)
      PROVE  \E x \in Possible(r)' : x # None /\ x.host = h
    <2>1. PICK y \in Possible(r) : y # None /\ y.host = h
        BY <1>2 DEF Homed
    <2>2. PICK x \in Possible(r)' : x # None
        BY <2>1
    <2>3. PICK z \in Possible(r) : z # None /\ z.host = x.host
        BY <2>2 DEF Homed
    <2>4. x.host = h
        BY <2>1, <2>3 DEF HomeInv
    <2> QED
        BY <2>2, <2>4
<1> QED
    BY <1>1, <1>2

\* It is the Host of everything that is kept for the Run.
LEMMA HomeOf ==
    ASSUME HomeInv, HistoryInv, TypeOK, NEW r \in Runs, NEW h \in Hosts,
           marker[h] = r \/ quar[h] = r \/ Of(hostLock[h], r) \/ Homed(r, h)
    PROVE  /\ Homed(r, h)
           /\ acked[r] # None => acked[r].host = h
           /\ \A x \in doubt[r] : x.host = h
           /\ journal[r] # None => journal[r].host = h
           /\ sJournal[r] # None => sJournal[r].host = h
           /\ assignment[r] # None => assignment[r].host = h
           /\ mem[r] # None => mem[r].host = h
           /\ Of(op.cur, r) => op.cur.host = h
           /\ Of(op.want, r) => op.want.host = h
           /\ \A k \in Hosts : marker[k] = r \/ quar[k] = r \/ Of(hostLock[k], r) => k = h
<1> USE NoneDiffers
<1>1. Homed(r, h)
    BY DEF HomeInv, Homed
<1>2. \A x \in Possible(r) : x # None => x.host = h
    BY <1>1 DEF HomeInv, Homed
<1>3. \A x \in doubt[r] : x \in Possible(r) /\ x # None
    BY DEF TypeOK, Possible
<1>4. /\ acked[r] # None => acked[r].host = h
      /\ \A x \in doubt[r] : x.host = h
    BY <1>2, <1>3 DEF Possible
<1>5. /\ journal[r] # None => journal[r].host = h
      /\ sJournal[r] # None => sJournal[r].host = h
      /\ assignment[r] # None => assignment[r].host = h
      /\ mem[r] # None => mem[r].host = h
    BY <1>2 DEF HistoryInv
<1>6. Of(op.cur, r) => op.cur.host = h
    BY <1>2 DEF HistoryInv, Of
<1>7. Of(op.want, r) => op.want.host = h
    BY <1>4 DEF HistoryInv, Of
<1>8. \A k \in Hosts : marker[k] = r \/ quar[k] = r \/ Of(hostLock[k], r) => k = h
    BY <1>2 DEF HomeInv
<1> QED
    BY <1>1, <1>4, <1>5, <1>6, <1>7, <1>8

\* A report of success keeps it.
LEMMA HomeAcked ==
    ASSUME TypeOK, HomeInv, HistoryInv, NEW w \in Record, w \in doubt[w.run],
           NEW d, d \subseteq Record, \A x \in d : x.run = w.run /\ x.host = w.host,
           acked' = [acked EXCEPT ![w.run] = w], doubt' = [doubt EXCEPT ![w.run] = d],
           \A h \in Hosts, r \in Runs : marker'[h] = r \/ quar'[h] = r \/ Of(hostLock'[h], r) =>
               marker[h] = r \/ quar[h] = r \/ Of(hostLock[h], r) \/ (r = w.run /\ h = w.host)
    PROVE  HomeInv'
<1> USE NoneDiffers
<1>1. w.run \in Runs /\ w.host \in Hosts /\ Homed(w.run, w.host)
    BY RecordIs DEF Homed, Possible
<1>2. Possible(w.run)' = {w} \cup d
    BY <1>1 DEF Possible, TypeOK
<1>3. \A r \in Runs : r # w.run => Possible(r)' = Possible(r)
    BY <1>1 DEF Possible, TypeOK
<1>4. \A r \in Runs : \A x \in Possible(r)' : x # None => Homed(r, x.host)
    BY <1>1, <1>2, <1>3 DEF Homed
<1>5. \A r \in Runs : \A y \in Possible(r) : y # None => \E x \in Possible(r)' : x # None
    BY <1>1, <1>2, <1>3
<1>6. \A h \in Hosts, r \in Runs : marker'[h] = r \/ quar'[h] = r \/ Of(hostLock'[h], r) => Homed(r, h)
    BY <1>1 DEF HomeInv, Homed
<1> QED
    BY <1>4, <1>5, <1>6, HomeKept

\* A Run keeps its Host.
LEMMA HomeStep ==
    ASSUME TypeOK, NamesInv, OpInv, TodoInv, UnreadInv, JournalInv, TwinInv, HistoryInv,
           CoherentInv, HomeInv, Exclusive, KindInv, KnownInv, LevelInv, MarkerInv,
           AckedInv, QuarantineInv, ProgressInv, CustodyInv, ReleaseInv, RepairInv,
           ReplayInv, Reliable, Next
    PROVE  HomeInv'
<1> USE NoneDiffers
<1>1. ASSUME NEW r \in Runs, NEW h \in Hosts, Assign(r, h) PROVE HomeInv'
    <2>1. PICK rec \in Record :
            /\ rec.run = r /\ rec.host = h
            /\ doubt' = [doubt EXCEPT ![r] = doubt[r] \cup {rec}]
        BY <1>1, AssignIs
    <2>2. /\ acked[r] = None /\ doubt[r] = {} /\ UNCHANGED <<acked, hostLock, quar>>
          /\ marker' = [marker EXCEPT ![h] = r]
        BY <1>1 DEF Assign, Begin, files
    <2>3. Possible(r)' = {None, rec}
        BY <2>1, <2>2 DEF Possible, TypeOK
    <2>4. \A q \in Runs : q # r => Possible(q)' = Possible(q)
        BY <2>1, <2>2 DEF Possible, TypeOK
    <2>5. \A k \in Hosts : marker[k] # r /\ quar[k] # r /\ ~Of(hostLock[k], r)
        BY <2>2 DEF HomeInv, Possible
    <2> QED
        BY <2>1, <2>2, <2>3, <2>4, <2>5 DEF HomeInv, Of, TypeOK
<1>2. ASSUME NEW r \in Runs, Handle(r) PROVE HomeInv'
    <2>1. PICK rec \in Record :
            /\ rec.run = r /\ rec.host = mem[r].host
            /\ doubt' = [doubt EXCEPT ![r] = doubt[r] \cup {rec}]
        BY <1>2, HandleIs DEF Handled
    <2>2. mem[r] \in Record /\ UNCHANGED <<acked, hostLock, quar, marker>>
        BY <1>2, HandleIs
    <2>3. Homed(r, rec.host)
        BY <2>1, <2>2 DEF HistoryInv, Homed
    <2>4. \A q \in Runs : Possible(q) \subseteq Possible(q)' /\ Possible(q)' \subseteq Possible(q) \cup {rec}
        BY <2>1, <2>2 DEF Possible, TypeOK
    <2>5. \A q \in Runs : q # r => Possible(q)' = Possible(q)
        BY <2>1, <2>2 DEF Possible, TypeOK
    <2>6. \A k \in Hosts, q \in Runs : marker'[k] = q \/ quar'[k] = q \/ Of(hostLock'[k], q) => Homed(q, k)
        BY <2>2 DEF HomeInv, Homed
    <2>7. \A q \in Runs : \A x \in Possible(q)' : x # None => Homed(q, x.host)
        BY <2>3, <2>4, <2>5 DEF Homed
    <2> QED
        BY <2>4, <2>6, <2>7, HomeKept
<1>3. ASSUME NEW r \in Runs, SaveAssignment(r) PROVE HomeInv'
    BY <1>3 DEF HomeInv, Possible, Of, HistoryInv, TypeOK, NamesInv, Mine, SaveAssignment,
         Fault, hist, Idle
<1>4. CASE FileStep
    <2>1. /\ op.cur \in Record /\ op.cur.run \in Runs /\ op.cur.host \in Hosts
          /\ UNCHANGED <<marker, quar, acked, doubt>>
        BY <1>4, FileStepIs, RecordIs
    <2>2. Homed(op.cur.run, op.cur.host)
        BY <2>1 DEF HistoryInv, Of, Homed
    <2>3. \A h \in Hosts : hostLock'[h] \in {hostLock[h], None} \/ (hostLock'[h] = LockOf(op.cur) /\ h = op.cur.host)
        BY <2>1, <1>4, FileStepIs DEF Wrote, TypeOK
    <2>4. \A k \in Hosts, q \in Runs : marker'[k] = q \/ quar'[k] = q \/ Of(hostLock'[k], q) => Homed(q, k)
        BY <2>1, <2>2, <2>3, LockIs DEF HomeInv, Homed, Of
    <2>5. \A q \in Runs : Possible(q)' = Possible(q)
        BY <2>1 DEF Possible
    <2> QED
        BY <2>4, <2>5, HomeKept DEF Homed
<1>5. CASE FileStepFails
    <2>1. /\ op.cur \in Record /\ op.cur.run \in Runs /\ op.cur.host \in Hosts
          /\ UNCHANGED <<marker, quar, acked, doubt>>
        BY <1>5, FileStepFailsIs, RecordIs
    <2>2. Homed(op.cur.run, op.cur.host)
        BY <2>1 DEF HistoryInv, Of, Homed
    <2>3. \A h \in Hosts : hostLock'[h] \in {hostLock[h], None} \/ (hostLock'[h] = LockOf(op.cur) /\ h = op.cur.host)
        BY <2>1, <1>5, FileStepFailsIs DEF Wrote, TypeOK, files
    <2>4. \A k \in Hosts, q \in Runs : marker'[k] = q \/ quar'[k] = q \/ Of(hostLock'[k], q) => Homed(q, k)
        BY <2>1, <2>2, <2>3, LockIs DEF HomeInv, Homed, Of
    <2>5. \A q \in Runs : Possible(q)' = Possible(q)
        BY <2>1 DEF Possible
    <2> QED
        BY <2>4, <2>5, HomeKept DEF Homed
<1>6. CASE Scan
    BY <1>6, ScanIs DEF HomeInv, Possible, Of, HistoryInv, TypeOK, NamesInv, Mine, Scan,
         files, synced, hist
<1>7. CASE PickJournal
    <2>1. /\ op.phase = "replay" /\ op.kind # None /\ op.cur = None /\ mode # "down"
          /\ UNCHANGED <<journal, assignment, hostLock, ledger, marker, mem, quar, mode, unread, faults>>
          /\ UNCHANGED <<sJournal, sAssignment, sHostLock, sLedger, acked, doubt>>
        BY <1>7, PickIs DEF PickJournal, Running, files, synced, hist
    <2>2. PICK q \in op.todo :
            /\ q \in Runs /\ journal[q] \in Record /\ journal[q].run = q
            /\ op'.kind = op.kind /\ op'.phase = "replay" /\ op'.want = op.want
            /\ op'.cur = Prepare(journal[q]) /\ op'.at = 1 /\ op'.todo = op.todo \ {q}
            /\ op'.failed = op.failed
        BY <1>7, PickIs
    <2>3. op'.cur \in Record /\ op'.cur.run = q /\ op'.cur.host = journal[q].host
        BY <2>2, PrepareIs
    <2>4. /\ op'.cur \in Possible(q)
          /\ \/ op'.cur = journal[q]
             \/ /\ quar[journal[q].host] = q /\ marker[journal[q].host] = q
                /\ journal[q].state # "completed" /\ op'.cur.state = "quarantined"
        BY <2>2, PreparedIs
    <2> QED
        BY <2>1, <2>2, <2>3, <2>4 DEF HomeInv, Possible, Of
<1>8. CASE ReadFails
    BY <1>8, FailsIs, Ends DEF HomeInv, Possible, Of, HistoryInv, TypeOK, NamesInv, Mine,
         ReadFails, Running, Fault, files, synced, hist
<1>9. CASE ReplayDone
    BY <1>9, ReplayedIs, Ends DEF HomeInv, Possible, Of, HistoryInv, TypeOK, NamesInv, Mine,
         ReplayDone, files, synced, hist
<1>10. CASE CommitReturns
    <2>1. Running("verify") /\ Succeeds
        BY <1>10 DEF CommitReturns
    <2>2. op.want \in Record /\ op.want.run \in Runs /\ op.want.host \in Hosts /\ op.want \in doubt[op.want.run]
        BY <2>1, VerifyIs, DoneIs
    <2>3. PICK w \in Record : w = op.want
        BY <2>2
    <2>4. /\ acked' = [acked EXCEPT ![w.run] = w] /\ doubt' = [doubt EXCEPT ![w.run] = {}]
          /\ UNCHANGED hostLock
          /\ \A h \in Hosts : marker'[h] \in {marker[h], None}
          /\ \A h \in Hosts : quar'[h] = quar[h] \/ (quar'[h] = w.run /\ h = w.host)
        BY <1>10, <2>2, <2>3 DEF CommitReturns, Ack, Adopt, files, synced, TypeOK
    <2>5. PICK d : d = {}
        OBVIOUS
    <2>6. \A h \in Hosts, r \in Runs : marker'[h] = r \/ quar'[h] = r \/ Of(hostLock'[h], r) =>
            marker[h] = r \/ quar[h] = r \/ Of(hostLock[h], r) \/ (r = w.run /\ h = w.host)
        BY <2>4 DEF Of
    <2>7. /\ w \in doubt[w.run] /\ d \subseteq Record /\ (\A x \in d : x.run = w.run /\ x.host = w.host)
          /\ acked' = [acked EXCEPT ![w.run] = w] /\ doubt' = [doubt EXCEPT ![w.run] = d]
        BY <2>2, <2>3, <2>4, <2>5
    <2> QED
        BY <2>6, <2>7, HomeAcked
<1>11. CASE FinishReturns
    <2>1. Running("verify") /\ Succeeds
        BY <1>11, FinishIs
    <2>2. op.want \in Record /\ op.want.run \in Runs /\ op.want.host \in Hosts /\ op.want \in doubt[op.want.run]
        BY <2>1, VerifyIs, DoneIs
    <2>3. PICK w \in Record : w = op.want
        BY <2>2
    <2>4. PICK rec \in Record : rec.run = w.run /\ rec.host = w.host /\ doubt' = [doubt EXCEPT ![w.run] = {rec}]
        BY <1>11, <2>3, FinishIs
    <2>5. acked' = [acked EXCEPT ![w.run] = w] /\ UNCHANGED <<hostLock, marker, quar>>
        BY <1>11, <2>3, FinishIs DEF files
    <2>6. PICK d : d = {rec}
        OBVIOUS
    <2>7. \A h \in Hosts, r \in Runs : marker'[h] = r \/ quar'[h] = r \/ Of(hostLock'[h], r) =>
            marker[h] = r \/ quar[h] = r \/ Of(hostLock[h], r) \/ (r = w.run /\ h = w.host)
        BY <2>5 DEF Of
    <2>8. /\ w \in doubt[w.run] /\ d \subseteq Record /\ (\A x \in d : x.run = w.run /\ x.host = w.host)
          /\ acked' = [acked EXCEPT ![w.run] = w] /\ doubt' = [doubt EXCEPT ![w.run] = d]
        BY <2>2, <2>3, <2>4, <2>5, <2>6
    <2> QED
        BY <2>7, <2>8, HomeAcked
<1>12. CASE CompleteReturns
    <2>1. Running("verify") /\ Succeeds
        BY <1>12 DEF CompleteReturns
    <2>2. op.want \in Record /\ op.want.run \in Runs /\ op.want.host \in Hosts /\ op.want \in doubt[op.want.run]
        BY <2>1, VerifyIs, DoneIs
    <2>3. PICK w \in Record : w = op.want
        BY <2>2
    <2>4. /\ acked' = [acked EXCEPT ![w.run] = w] /\ doubt' = [doubt EXCEPT ![w.run] = {}]
          /\ UNCHANGED hostLock
          /\ \A h \in Hosts : marker'[h] \in {marker[h], None}
          /\ \A h \in Hosts : quar'[h] = quar[h] \/ (quar'[h] = w.run /\ h = w.host)
        BY <1>12, <2>2, <2>3 DEF CompleteReturns, Ack, Adopt, files, synced, TypeOK
    <2>5. PICK d : d = {}
        OBVIOUS
    <2>6. \A h \in Hosts, r \in Runs : marker'[h] = r \/ quar'[h] = r \/ Of(hostLock'[h], r) =>
            marker[h] = r \/ quar[h] = r \/ Of(hostLock[h], r) \/ (r = w.run /\ h = w.host)
        BY <2>4 DEF Of
    <2>7. /\ w \in doubt[w.run] /\ d \subseteq Record /\ (\A x \in d : x.run = w.run /\ x.host = w.host)
          /\ acked' = [acked EXCEPT ![w.run] = w] /\ doubt' = [doubt EXCEPT ![w.run] = d]
        BY <2>2, <2>3, <2>4, <2>5
    <2> QED
        BY <2>6, <2>7, HomeAcked
<1>13. CASE AssignReturns
    <2>1. Running("verify") /\ Succeeds
        BY <1>13 DEF AssignReturns
    <2>2. op.want \in Record /\ op.want.run \in Runs /\ op.want.host \in Hosts /\ op.want \in doubt[op.want.run]
        BY <2>1, VerifyIs, DoneIs
    <2>3. PICK w \in Record : w = op.want
        BY <2>2
    <2>4. /\ acked' = [acked EXCEPT ![w.run] = w] /\ doubt' = [doubt EXCEPT ![w.run] = {}]
          /\ UNCHANGED hostLock
          /\ \A h \in Hosts : marker'[h] \in {marker[h], None}
          /\ \A h \in Hosts : quar'[h] = quar[h] \/ (quar'[h] = w.run /\ h = w.host)
        BY <1>13, <2>2, <2>3 DEF AssignReturns, Ack, Adopt, files, synced, TypeOK
    <2>5. PICK d : d = {}
        OBVIOUS
    <2>6. \A h \in Hosts, r \in Runs : marker'[h] = r \/ quar'[h] = r \/ Of(hostLock'[h], r) =>
            marker[h] = r \/ quar[h] = r \/ Of(hostLock[h], r) \/ (r = w.run /\ h = w.host)
        BY <2>4 DEF Of
    <2>7. /\ w \in doubt[w.run] /\ d \subseteq Record /\ (\A x \in d : x.run = w.run /\ x.host = w.host)
          /\ acked' = [acked EXCEPT ![w.run] = w] /\ doubt' = [doubt EXCEPT ![w.run] = d]
        BY <2>2, <2>3, <2>4, <2>5
    <2> QED
        BY <2>6, <2>7, HomeAcked
<1>14. CASE AssignFails
    <2>1. PICK rec \in Record :
            /\ rec.run = op.want.run /\ rec.host = op.want.host
            /\ quar' = [quar EXCEPT ![rec.host] = rec.run]
            /\ doubt' = [doubt EXCEPT ![rec.run] = doubt[rec.run] \cup {rec}]
        BY <1>14, AssignFailsIs
    <2>2. /\ op.want \in Record /\ rec.run \in Runs /\ rec.host \in Hosts /\ UNCHANGED <<acked, hostLock, marker>>
        BY <1>14, <2>1, AssignFailsIs, VerifyIs
    <2>3. Homed(rec.run, rec.host)
        BY <2>1, <2>2 DEF HistoryInv, Homed, Of, Possible
    <2>4. \A q \in Runs : Possible(q) \subseteq Possible(q)' /\ Possible(q)' \subseteq Possible(q) \cup {rec}
        BY <2>1, <2>2 DEF Possible, TypeOK
    <2>5. \A q \in Runs : q # rec.run => Possible(q)' = Possible(q)
        BY <2>1, <2>2 DEF Possible, TypeOK
    <2>6. \A k \in Hosts, q \in Runs : marker'[k] = q \/ quar'[k] = q \/ Of(hostLock'[k], q) => Homed(q, k)
        BY <2>1, <2>2, <2>3 DEF HomeInv, Homed, TypeOK, Of
    <2>7. \A q \in Runs : \A x \in Possible(q)' : x # None => Homed(q, x.host)
        BY <2>3, <2>4, <2>5 DEF Homed
    <2> QED
        BY <2>4, <2>6, <2>7, HomeKept
<1>15. CASE RescueReturns
    <2>1. CASE ~Succeeds
        BY <2>1, <1>15 DEF RescueReturns, HomeInv, Possible, Of, hist, files
    <2>2. CASE Succeeds
        <3>1. Running("verify")
            BY <1>15 DEF RescueReturns
        <3>2. op.want \in Record /\ op.want.run \in Runs /\ op.want.host \in Hosts /\ op.want \in doubt[op.want.run]
            BY <2>2, <3>1, VerifyIs, DoneIs
        <3>3. PICK w \in Record : w = op.want
            BY <3>2
        <3>4. /\ acked' = [acked EXCEPT ![w.run] = w] /\ doubt' = [doubt EXCEPT ![w.run] = {}]
              /\ UNCHANGED <<hostLock, quar>>
              /\ \A h \in Hosts : marker'[h] \in {marker[h], None}
            BY <1>15, <2>2, <3>2, <3>3, RemovedIs DEF RescueReturns, Ack, files, TypeOK
        <3>5. PICK d : d = {}
            OBVIOUS
        <3>6. \A h \in Hosts, r \in Runs : marker'[h] = r \/ quar'[h] = r \/ Of(hostLock'[h], r) =>
                marker[h] = r \/ quar[h] = r \/ Of(hostLock[h], r) \/ (r = w.run /\ h = w.host)
            BY <3>4 DEF Of
        <3>7. /\ w \in doubt[w.run] /\ d \subseteq Record /\ (\A x \in d : x.run = w.run /\ x.host = w.host)
              /\ acked' = [acked EXCEPT ![w.run] = w] /\ doubt' = [doubt EXCEPT ![w.run] = d]
            BY <3>2, <3>3, <3>4, <3>5
        <3> QED
            BY <3>6, <3>7, HomeAcked
    <2> QED
        BY <2>1, <2>2
<1>16. CASE CommitFails
    BY <1>16, VerifyIs, Ends DEF HomeInv, Possible, Of, HistoryInv, TypeOK, NamesInv, Mine,
         CommitFails, hist
<1>17. CASE MarkerReturns
    <2>1. Running("verify") /\ Succeeds
        BY <1>17 DEF MarkerReturns
    <2>2. op.want \in Record /\ op.want.run \in Runs /\ op.want.host \in Hosts /\ op.want \in doubt[op.want.run]
        BY <2>1, VerifyIs, DoneIs
    <2>3. PICK w \in Record : w = op.want
        BY <2>2
    <2>4. /\ acked' = [acked EXCEPT ![w.run] = w] /\ doubt' = [doubt EXCEPT ![w.run] = {}]
          /\ UNCHANGED hostLock
          /\ \A h \in Hosts : marker'[h] \in {marker[h], None}
          /\ \A h \in Hosts : quar'[h] = quar[h] \/ (quar'[h] = w.run /\ h = w.host)
        BY <1>17, <2>2, <2>3, RemovedIs DEF MarkerReturns, Ack, Adopt, files, synced, TypeOK
    <2>5. PICK d : d = {}
        OBVIOUS
    <2>6. \A h \in Hosts, r \in Runs : marker'[h] = r \/ quar'[h] = r \/ Of(hostLock'[h], r) =>
            marker[h] = r \/ quar[h] = r \/ Of(hostLock[h], r) \/ (r = w.run /\ h = w.host)
        BY <2>4 DEF Of
    <2>7. /\ w \in doubt[w.run] /\ d \subseteq Record /\ (\A x \in d : x.run = w.run /\ x.host = w.host)
          /\ acked' = [acked EXCEPT ![w.run] = w] /\ doubt' = [doubt EXCEPT ![w.run] = d]
        BY <2>2, <2>3, <2>4, <2>5
    <2> QED
        BY <2>6, <2>7, HomeAcked
<1>18. CASE Start
    BY <1>18 DEF HomeInv, Possible, Of, HistoryInv, TypeOK, NamesInv, Mine, Start, files,
         synced, hist
<1>19. CASE RecoverJournals
    BY <1>19, RecoverIs, Ends DEF HomeInv, Possible, Of, HistoryInv, TypeOK, NamesInv, Mine,
         RecoverJournals, files, synced, hist, Idle
<1>20. CASE Serve
    BY <1>20, Ends DEF HomeInv, Possible, Of, HistoryInv, TypeOK, NamesInv, Mine, Serve,
         files, synced, hist, Idle
<1>21. ASSUME NEW h \in Hosts, RecoverMarker(h) PROVE HomeInv'
    <2>1. PICK rec \in Record :
            /\ rec.run = marker[h] /\ rec.host = h
            /\ doubt' = [doubt EXCEPT ![marker[h]] = doubt[marker[h]] \cup {rec}]
        BY <1>21, MarkerIs
    <2>2. rec.run \in Runs /\ quar' = [quar EXCEPT ![h] = rec.run] /\ UNCHANGED <<acked, hostLock, marker>>
        BY <1>21, <2>1, MarkerIs
    <2>3. Homed(rec.run, rec.host)
        BY <2>1, <2>2 DEF HomeInv, Homed
    <2>4. \A q \in Runs : Possible(q) \subseteq Possible(q)' /\ Possible(q)' \subseteq Possible(q) \cup {rec}
        BY <2>1, <2>2 DEF Possible, TypeOK
    <2>5. \A q \in Runs : q # rec.run => Possible(q)' = Possible(q)
        BY <2>1, <2>2 DEF Possible, TypeOK
    <2>6. \A k \in Hosts, q \in Runs : marker'[k] = q \/ quar'[k] = q \/ Of(hostLock'[k], q) => Homed(q, k)
        BY <2>1, <2>2, <2>3 DEF HomeInv, Homed, TypeOK, Of
    <2>7. \A q \in Runs : \A x \in Possible(q)' : x # None => Homed(q, x.host)
        BY <2>3, <2>4, <2>5 DEF Homed
    <2> QED
        BY <2>4, <2>6, <2>7, HomeKept
<1>22. ASSUME NEW h \in Hosts, LoadLock(h) PROVE HomeInv'
    <2>1. PICK q \in Runs : q = hostLock[h].run
        BY <1>22, LoadIs
    <2>2. Homed(q, h)
        BY <2>1, <1>22 DEF HomeInv, Homed, LoadLock, UnreadInv, Of
    <2>3. /\ UNCHANGED <<acked, hostLock, marker>>
          /\ quar' \in {quar, [quar EXCEPT ![h] = q]}
        BY <1>22, <2>1, LoadCases DEF files
    <2>4. UNCHANGED doubt \/ \E rec \in Record : rec.run = q /\ rec.host = h /\ doubt' = [doubt EXCEPT ![q] = doubt[q] \cup {rec}]
        BY <1>22, <2>1, LoadCases
    <2>5. \A p \in Runs : Possible(p) \subseteq Possible(p)'
        BY <2>3, <2>4 DEF Possible, TypeOK
    <2>6. \A p \in Runs : p # q => Possible(p)' = Possible(p)
        BY <2>3, <2>4 DEF Possible, TypeOK
    <2>7. \A k \in Hosts, p \in Runs : marker'[k] = p \/ quar'[k] = p \/ Of(hostLock'[k], p) => Homed(p, k)
        BY <2>2, <2>3 DEF HomeInv, Homed, TypeOK, Of
    <2>8. \A x \in Possible(q)' : x \in Possible(q) \/ x.host = h
        BY <2>3, <2>4 DEF Possible, TypeOK
    <2>9. \A p \in Runs : \A x \in Possible(p)' : x # None => Homed(p, x.host)
        BY <2>2, <2>6, <2>8 DEF Homed
    <2> QED
        BY <2>5, <2>7, <2>9, HomeKept
<1>23. CASE Crash
    BY <1>23, CrashIs, Ends DEF HomeInv, Possible, Of, HistoryInv, TypeOK, NamesInv, Mine,
         hist, TwinInv
<1> QED
    BY <1>1, <1>2, <1>3, <1>4, <1>5, <1>6, <1>7, <1>8, <1>9, <1>10, <1>11, <1>12, <1>13,
         <1>14, <1>15, <1>16, <1>17, <1>18, <1>19, <1>20, <1>21, <1>22, <1>23 DEF Next,
         Handlers, Transition, Startup, Handle

\* Only an assignment gives a Host to a Run that has nothing to do with it.
LEMMA NamedStep ==
    ASSUME TypeOK, NamesInv, OpInv, TodoInv, UnreadInv, JournalInv, TwinInv, Next,
           ~(\E r \in Runs, h \in Hosts : Assign(r, h))
    PROVE  \A q \in Runs, k \in Hosts : Named(q, k)' => Named(q, k)
<1> USE NoneDiffers, Handed
<1>1. ASSUME NEW r \in Runs, NEW h \in Hosts, Assign(r, h) PROVE \A q \in Runs, k \in Hosts : Named(q, k)' => Named(q, k)
    BY <1>1, NoneDiffers
<1>2. ASSUME NEW r \in Runs, Handle(r) PROVE \A q \in Runs, k \in Hosts : Named(q, k)' => Named(q, k)
    BY <1>2, HandleIs, Ends DEF Named, At, Of, TypeOK, NamesInv, Mine, Starts, Handled,
         Serving, Idle
<1>3. ASSUME NEW r \in Runs, SaveAssignment(r) PROVE \A q \in Runs, k \in Hosts : Named(q, k)' => Named(q, k)
    BY <1>3 DEF Named, At, Of, TypeOK, NamesInv, Mine, SaveAssignment, Fault, hist, Idle
<1>4. CASE FileStep
    BY <1>4, FileStepIs, LockIs, RecordIs DEF Named, At, Of, TypeOK, NamesInv, Mine, Wrote,
         FileStep, Synced, NotSynced, synced
<1>5. CASE FileStepFails
    BY <1>5, FileStepFailsIs, FailsIs, Ends, LockIs, RecordIs DEF Named, At, Of, TypeOK,
         NamesInv, Mine, Wrote, files, NotSynced, synced
<1>6. CASE Scan
    BY <1>6, ScanIs DEF Named, At, Of, TypeOK, NamesInv, Mine, Scan, files, synced, hist
<1>7. CASE PickJournal
    <2>1. /\ UNCHANGED <<journal, hostLock, marker, mem, quar, sJournal>>
        BY <1>7 DEF PickJournal, files, synced
    <2>2. PICK q \in op.todo :
            /\ q \in Runs /\ journal[q] \in Record /\ journal[q].run = q
            /\ op'.want = op.want /\ op'.cur = Prepare(journal[q])
        BY <1>7, PickIs
    <2>3. op'.cur \in Record /\ op'.cur.run = q /\ op'.cur.host = journal[q].host
        BY <2>2, PrepareIs
    <2> QED
        BY <2>1, <2>2, <2>3 DEF Named, At, Of
<1>8. CASE ReadFails
    BY <1>8, FailsIs, Ends DEF Named, At, Of, TypeOK, NamesInv, Mine, ReadFails, Running,
         Fault, files, synced, hist
<1>9. CASE ReplayDone
    BY <1>9, ReplayedIs, Ends DEF Named, At, Of, TypeOK, NamesInv, Mine, ReplayDone, files,
         synced, hist
<1>10. CASE CommitReturns
    BY <1>10, VerifyIs, Ends DEF Named, At, Of, TypeOK, NamesInv, Mine, CommitReturns, Ack,
         Adopt, files, synced
<1>11. CASE FinishReturns
    BY <1>11, FinishIs, VerifyIs DEF Named, At, Of, TypeOK, NamesInv, Mine, Starts, files,
         synced
<1>12. CASE CompleteReturns
    BY <1>12, VerifyIs, Ends DEF Named, At, Of, TypeOK, NamesInv, Mine, CompleteReturns, Ack,
         files, synced
<1>13. CASE AssignReturns
    BY <1>13, VerifyIs, Ends DEF Named, At, Of, TypeOK, NamesInv, Mine, AssignReturns, Ack,
         Adopt, files, synced
<1>14. CASE AssignFails
    BY <1>14, AssignFailsIs, VerifyIs DEF Named, At, Of, TypeOK, NamesInv, Mine, Starts
<1>15. CASE RescueReturns
    BY <1>15, EndedIs, Ends DEF Named, At, Of, TypeOK
<1>16. CASE CommitFails
    BY <1>16, VerifyIs, Ends DEF Named, At, Of, TypeOK, NamesInv, Mine, CommitFails, hist
<1>17. CASE MarkerReturns
    BY <1>17, EndedIs, Ends DEF Named, At, Of, TypeOK
<1>18. CASE Start
    BY <1>18 DEF Named, At, Of, TypeOK, NamesInv, Mine, Start, files, synced, hist
<1>19. CASE RecoverJournals
    BY <1>19, RecoverIs, Ends DEF Named, At, Of, TypeOK, NamesInv, Mine, RecoverJournals,
         files, synced, hist, Idle
<1>20. CASE Serve
    BY <1>20, Ends DEF Named, At, Of, TypeOK, NamesInv, Mine, Serve, files, synced, hist, Idle
<1>21. ASSUME NEW h \in Hosts, RecoverMarker(h) PROVE \A q \in Runs, k \in Hosts : Named(q, k)' => Named(q, k)
    BY <1>21, MarkerIs, Ends DEF Named, At, Of, TypeOK, NamesInv, Mine, Starts, Idle
<1>22. ASSUME NEW h \in Hosts, LoadLock(h) PROVE \A q \in Runs, k \in Hosts : Named(q, k)' => Named(q, k)
    BY <1>22, LoadCases, Ends, LoadIs DEF Named, At, Of, TypeOK, NamesInv, Mine, Starts,
         files, synced, Idle
<1>23. CASE Crash
    BY <1>23, CrashIs, Ends DEF Named, At, Of, TypeOK, NamesInv, Mine, hist, TwinInv
<1> QED
    BY <1>1, <1>2, <1>3, <1>4, <1>5, <1>6, <1>7, <1>8, <1>9, <1>10, <1>11, <1>12, <1>13,
         <1>14, <1>15, <1>16, <1>17, <1>18, <1>19, <1>20, <1>21, <1>22, <1>23 DEF Next,
         Handlers, Transition, Startup, Handle

\* A Host stays with one Run.
LEMMA ExclusiveStep ==
    ASSUME TypeOK, NamesInv, OpInv, TodoInv, UnreadInv, JournalInv, TwinInv, KnownInv, Exclusive, Next
    PROVE  Exclusive'
<1> USE NoneDiffers
<1>1. ASSUME NEW r \in Runs, NEW h \in Hosts, Assign(r, h) PROVE Exclusive'
    <2>1. PICK rec \in Record : rec.run = r /\ rec.host = h /\ Starts("assign", rec)
        BY <1>1, AssignIs
    <2>2. /\ mode = "serving" /\ op = NoOp /\ quar[h] = None /\ marker' = [marker EXCEPT ![h] = r]
          /\ UNCHANGED <<mem, quar, hostLock, journal, sJournal>>
          /\ \A q \in Runs : mem[q] # None => mem[q].host # h
        BY <1>1 DEF Assign, Begin, files, synced, Serving, OpInv
    <2>3. \A q \in Runs : ~Named(q, h)
        BY <2>2, Ends DEF Named, KnownInv, At, Of
    <2>4. \A q \in Runs, k \in Hosts : Named(q, k)' => Named(q, k) \/ (q = r /\ k = h)
        BY <2>1, <2>2 DEF Named, At, Of, Starts, TypeOK
    <2> QED
        BY <2>3, <2>4 DEF Exclusive
<1>2. CASE ~(\E r \in Runs, h \in Hosts : Assign(r, h))
    <2>1. \A q \in Runs, k \in Hosts : Named(q, k)' => Named(q, k)
        BY <1>2, NamedStep
    <2> QED
        BY <2>1 DEF Exclusive
<1> QED
    BY <1>1, <1>2

\* A transition goes on from the record it began with.
LEMMA KindStep ==
    ASSUME TypeOK, NamesInv, OpInv, TodoInv, UnreadInv, JournalInv, TwinInv, HistoryInv,
           CoherentInv, HomeInv, Exclusive, KindInv, KnownInv, LevelInv, MarkerInv,
           AckedInv, QuarantineInv, ProgressInv, CustodyInv, ReleaseInv, RepairInv,
           ReplayInv, Reliable, Next
    PROVE  KindInv'
<1> USE NoneDiffers, Handed
<1>1. ASSUME NEW r \in Runs, NEW h \in Hosts, Assign(r, h) PROVE KindInv'
    <2>1. PICK rec \in Record : /\ rec.run = r /\ rec.host = h /\ rec.state = "assigned" /\ ~rec.bound
                                /\ Starts("assign", rec)
        BY <1>1, AssignIs
    <2>2. mem[r] = None /\ acked[r] = None /\ UNCHANGED <<mem, acked>> /\ marker'[h] = r
        BY <1>1 DEF Assign, Begin, TypeOK
    <2> QED
        BY <2>1, <2>2 DEF KindInv, Starts
<1>2. ASSUME NEW r \in Runs, Handle(r) PROVE KindInv'
    BY <1>2, HandleIs, Ends DEF KindInv, In, Of, OpInv, TypeOK, Kinds, Starts, Handled,
         Serving, Idle
<1>3. ASSUME NEW r \in Runs, SaveAssignment(r) PROVE KindInv'
    BY <1>3 DEF KindInv, In, Of, OpInv, TypeOK, Kinds, SaveAssignment, Fault, hist, Idle
<1>4. CASE FileStep
    BY <1>4, FileStepIs DEF KindInv, In, Of, OpInv, TypeOK, Kinds, Wrote
<1>5. CASE FileStepFails
    BY <1>5, FileStepFailsIs, FailsIs, Ends DEF KindInv, In, Of, OpInv, TypeOK, Kinds, Wrote,
         files
<1>6. CASE Scan
    BY <1>6, ScanIs DEF KindInv, In, Of, OpInv, TypeOK, Kinds, Scan, files, synced, hist
<1>7. CASE PickJournal
    BY <1>7, PickIs, PrepareIs DEF KindInv, In, Of, OpInv, TypeOK, Kinds, PickJournal, files,
         synced, hist
<1>8. CASE ReadFails
    BY <1>8, FailsIs, Ends DEF KindInv, In, Of, OpInv, TypeOK, Kinds, ReadFails, Running,
         Fault, files, synced, hist
<1>9. CASE ReplayDone
    BY <1>9, ReplayedIs, Ends DEF KindInv, In, Of, OpInv, TypeOK, Kinds, ReplayDone, files,
         synced, hist
<1>10. CASE CommitReturns
    BY <1>10, VerifyIs, Ends DEF KindInv, In, Of, OpInv, TypeOK, Kinds, CommitReturns, Ack,
         Adopt, files, synced
<1>11. CASE FinishReturns
    BY <1>11, FinishIs, VerifyIs DEF KindInv, In, Of, OpInv, TypeOK, Kinds, Starts, files,
         synced
<1>12. CASE CompleteReturns
    BY <1>12, VerifyIs, Ends DEF KindInv, In, Of, OpInv, TypeOK, Kinds, CompleteReturns, Ack,
         files, synced
<1>13. CASE AssignReturns
    BY <1>13, VerifyIs, Ends DEF KindInv, In, Of, OpInv, TypeOK, Kinds, AssignReturns, Ack,
         Adopt, files, synced
<1>14. CASE AssignFails
    BY <1>14, AssignFailsIs, VerifyIs DEF KindInv, In, Of, OpInv, TypeOK, Kinds, Starts
<1>15. CASE RescueReturns
    BY <1>15, VerifyIs, Ends DEF KindInv, In, Of, OpInv, TypeOK, Kinds, RescueReturns, Ack,
         hist, files, synced
<1>16. CASE CommitFails
    BY <1>16, VerifyIs, Ends DEF KindInv, In, Of, OpInv, TypeOK, Kinds, CommitFails, hist
<1>17. CASE MarkerReturns
    BY <1>17, VerifyIs, Ends DEF KindInv, In, Of, OpInv, TypeOK, Kinds, MarkerReturns, Ack,
         Adopt, files, synced
<1>18. CASE Start
    BY <1>18 DEF KindInv, In, Of, OpInv, TypeOK, Kinds, Start, files, synced, hist
<1>19. CASE RecoverJournals
    BY <1>19, RecoverIs, Ends DEF KindInv, In, Of, OpInv, TypeOK, Kinds, RecoverJournals,
         files, synced, hist, Idle
<1>20. CASE Serve
    BY <1>20, Ends DEF KindInv, In, Of, OpInv, TypeOK, Kinds, Serve, files, synced, hist, Idle
<1>21. ASSUME NEW h \in Hosts, RecoverMarker(h) PROVE KindInv'
    BY <1>21, MarkerIs, Ends DEF KindInv, In, Of, OpInv, TypeOK, Kinds, Starts, Idle
<1>22. ASSUME NEW h \in Hosts, LoadLock(h) PROVE KindInv'
    BY <1>22, LoadCases, Ends DEF KindInv, In, Of, OpInv, TypeOK, Kinds, Starts, files,
         synced, Idle
<1>23. CASE Crash
    BY <1>23, CrashIs, Ends DEF KindInv, In, Of, OpInv, TypeOK, Kinds, hist
<1> QED
    BY <1>1, <1>2, <1>3, <1>4, <1>5, <1>6, <1>7, <1>8, <1>9, <1>10, <1>11, <1>12, <1>13,
         <1>14, <1>15, <1>16, <1>17, <1>18, <1>19, <1>20, <1>21, <1>22, <1>23 DEF Next,
         Handlers, Transition, Startup, Handle

\* A journal is replayed as it is, or as a quarantine.
LEMMA ReplayStep ==
    ASSUME TypeOK, NamesInv, OpInv, TodoInv, UnreadInv, JournalInv, ReplayInv, Next
    PROVE  ReplayInv'
<1> USE NoneDiffers, Handed
<1>1. ASSUME NEW r \in Runs, NEW h \in Hosts, Assign(r, h) PROVE ReplayInv'
    BY <1>1, AssignIs, Ends DEF ReplayInv, OpInv, TodoInv, Of, TypeOK, Phases, Starts, files,
         synced, Serving, Idle
<1>2. ASSUME NEW r \in Runs, Handle(r) PROVE ReplayInv'
    BY <1>2, HandleIs, Ends DEF ReplayInv, OpInv, TodoInv, Of, TypeOK, Phases, Starts,
         Handled, Serving, Idle
<1>3. ASSUME NEW r \in Runs, SaveAssignment(r) PROVE ReplayInv'
    BY <1>3 DEF ReplayInv, OpInv, TodoInv, Of, TypeOK, Phases, SaveAssignment, Fault, hist,
         Idle
<1>4. CASE FileStep
    BY <1>4, FileStepIs DEF ReplayInv, OpInv, TodoInv, Of, TypeOK, Phases, Wrote
<1>5. CASE FileStepFails
    BY <1>5, FileStepFailsIs, FailsIs, Ends DEF ReplayInv, OpInv, TodoInv, Of, TypeOK, Phases,
         Wrote, files
<1>6. CASE Scan
    BY <1>6, ScanIs DEF ReplayInv, OpInv, TodoInv, Of, TypeOK, Phases, Scan, files, synced,
         hist
<1>7. CASE PickJournal
    <2>1. /\ op.phase = "replay" /\ op.kind # None /\ op.cur = None /\ mode # "down"
          /\ UNCHANGED <<journal, assignment, hostLock, ledger, marker, mem, quar, mode, unread, faults>>
          /\ UNCHANGED <<sJournal, sAssignment, sHostLock, sLedger, acked, doubt>>
        BY <1>7, PickIs DEF PickJournal, Running, files, synced, hist
    <2>2. PICK q \in op.todo :
            /\ q \in Runs /\ journal[q] \in Record /\ journal[q].run = q
            /\ op'.kind = op.kind /\ op'.phase = "replay" /\ op'.want = op.want
            /\ op'.cur = Prepare(journal[q]) /\ op'.at = 1 /\ op'.todo = op.todo \ {q}
            /\ op'.failed = op.failed
        BY <1>7, PickIs
    <2>3. op'.cur \in Record /\ op'.cur.run = q /\ op'.cur.host = journal[q].host
        BY <2>2, PrepareIs
    <2>4. op'.cur = journal[q] \/ quar[journal[q].host] = q
        BY <2>2, PrepareIs
    <2> QED
        BY <2>1, <2>2, <2>3, <2>4 DEF ReplayInv
<1>8. CASE ReadFails
    BY <1>8, FailsIs, Ends DEF ReplayInv, OpInv, TodoInv, Of, TypeOK, Phases, ReadFails,
         Running, Fault, files, synced, hist
<1>9. CASE ReplayDone
    BY <1>9, ReplayedIs, Ends DEF ReplayInv, OpInv, TodoInv, Of, TypeOK, Phases, ReplayDone,
         files, synced, hist
<1>10. CASE CommitReturns
    BY <1>10, VerifyIs, Ends DEF ReplayInv, OpInv, TodoInv, Of, TypeOK, Phases, CommitReturns,
         Ack, Adopt, files, synced
<1>11. CASE FinishReturns
    BY <1>11, FinishIs, VerifyIs DEF ReplayInv, OpInv, TodoInv, Of, TypeOK, Phases, Starts,
         files, synced
<1>12. CASE CompleteReturns
    BY <1>12, VerifyIs, Ends DEF ReplayInv, OpInv, TodoInv, Of, TypeOK, Phases,
         CompleteReturns, Ack, files, synced
<1>13. CASE AssignReturns
    BY <1>13, VerifyIs, Ends DEF ReplayInv, OpInv, TodoInv, Of, TypeOK, Phases, AssignReturns,
         Ack, Adopt, files, synced
<1>14. CASE AssignFails
    BY <1>14, AssignFailsIs, VerifyIs DEF ReplayInv, OpInv, TodoInv, Of, TypeOK, Phases,
         Starts
<1>15. CASE RescueReturns
    BY <1>15, VerifyIs, Ends DEF ReplayInv, OpInv, TodoInv, Of, TypeOK, Phases, RescueReturns,
         Ack, hist, files, synced
<1>16. CASE CommitFails
    BY <1>16, VerifyIs, Ends DEF ReplayInv, OpInv, TodoInv, Of, TypeOK, Phases, CommitFails,
         hist
<1>17. CASE MarkerReturns
    BY <1>17, VerifyIs, Ends DEF ReplayInv, OpInv, TodoInv, Of, TypeOK, Phases, MarkerReturns,
         Ack, Adopt, files, synced
<1>18. CASE Start
    BY <1>18 DEF ReplayInv, OpInv, TodoInv, Of, TypeOK, Phases, Start, files, synced, hist
<1>19. CASE RecoverJournals
    BY <1>19, RecoverIs, Ends DEF ReplayInv, OpInv, TodoInv, Of, TypeOK, Phases,
         RecoverJournals, files, synced, hist, Idle
<1>20. CASE Serve
    BY <1>20, Ends DEF ReplayInv, OpInv, TodoInv, Of, TypeOK, Phases, Serve, files, synced,
         hist, Idle
<1>21. ASSUME NEW h \in Hosts, RecoverMarker(h) PROVE ReplayInv'
    BY <1>21, MarkerIs, Ends DEF ReplayInv, OpInv, TodoInv, Of, TypeOK, Phases, Starts, Idle
<1>22. ASSUME NEW h \in Hosts, LoadLock(h) PROVE ReplayInv'
    BY <1>22, LoadCases, Ends DEF ReplayInv, OpInv, TodoInv, Of, TypeOK, Phases, Starts,
         files, synced, Idle
<1>23. CASE Crash
    BY <1>23, CrashIs, Ends DEF ReplayInv, OpInv, TodoInv, Of, TypeOK, Phases, hist
<1> QED
    BY <1>1, <1>2, <1>3, <1>4, <1>5, <1>6, <1>7, <1>8, <1>9, <1>10, <1>11, <1>12, <1>13,
         <1>14, <1>15, <1>16, <1>17, <1>18, <1>19, <1>20, <1>21, <1>22, <1>23 DEF Next,
         Handlers, Transition, Startup, Handle

\* A serving process has in memory the Run whose record it applies, or assigns it.
LEMMA ServingKnown ==
    ASSUME TypeOK, NamesInv, OpInv, JournalInv, HistoryInv, HomeInv, KindInv, KnownInv,
           mode = "serving", op.kind # None, op.cur # None, op.phase \in {"persist", "replay"},
           op.at \in 0..4
    PROVE  \/ At(mem[op.cur.run], op.cur.run, op.cur.host)
           \/ op.kind = "assign" /\ At(op.want, op.cur.run, op.cur.host)
<1> USE NoneDiffers
<1>1. op.cur \in Record /\ op.cur.run \in Runs /\ op.cur.host \in Hosts
    BY Handed
<1>2. CASE op.phase = "replay"
    <2>1. op.at \in 1..4
        BY <1>2 DEF OpInv
    <2>2. journal[op.cur.run] # None /\ journal[op.cur.run].host = op.cur.host
        BY <1>2, <2>1 DEF JournalInv
    <2>3. At(journal[op.cur.run], op.cur.run, op.cur.host)
        BY <1>1, <2>2 DEF At, Of, NamesInv, Mine
    <2> QED
        BY <1>1, <2>3 DEF KnownInv
<1>3. CASE op.phase = "persist"
    <2>1. op.cur = op.want
        BY <1>3 DEF OpInv
    <2>2. op.kind \in Kinds \ {"boot", "marker"}
        BY OpFields DEF TypeOK, OpInv
    <2>3. CASE op.kind = "assign"
        BY <1>1, <2>1, <2>3 DEF At, Of
    <2>4. CASE op.kind # "assign"
        <3>1. mem[op.want.run] # None
            BY <1>1, <2>1, <2>2, <2>4 DEF KindInv, In, Of, Kinds
        <3>2. Homed(op.cur.run, op.cur.host)
            BY <1>1 DEF HistoryInv, Homed, Of
        <3>3. mem[op.cur.run].host = op.cur.host /\ mem[op.cur.run].run = op.cur.run
            BY <1>1, <2>1, <3>1, <3>2, HomeOf DEF NamesInv, Mine
        <3> QED
            BY <2>1, <3>1, <3>3 DEF At, Of
    <2> QED
        BY <2>3, <2>4
<1> QED
    BY <1>2, <1>3

\* The process adopts a record of the Run whose transition ended.
LEMMA AdoptKnown ==
    ASSUME TypeOK, HomeInv, HistoryInv, KnownInv, mode = "serving", mode' = mode,
           NEW w \in Record, NEW x \in Record, w = op.want, x.run = w.run, x.host = w.host,
           mem' = [mem EXCEPT ![w.run] = x], UNCHANGED <<journal, sJournal, hostLock>>,
           \A h \in Hosts : marker'[h] \in {marker[h], None}
    PROVE  KnownInv'
<1> USE NoneDiffers
<1>1. w.run \in Runs /\ w.host \in Hosts /\ Homed(w.run, w.host)
    BY RecordIs DEF HistoryInv, Homed, Of, Possible
<1>2. ASSUME NEW r \in Runs, NEW h \in Hosts,
             marker'[h] = r \/ Of(hostLock[h], r) \/ At(journal[r], r, h) \/ At(sJournal[r], r, h)
      PROVE  At(mem'[r], r, h)
    <2>1. marker[h] = r \/ Of(hostLock[h], r) \/ At(journal[r], r, h) \/ At(sJournal[r], r, h)
        BY <1>2
    <2>2. CASE r = w.run
        <3>1. h = w.host
            BY <1>1, <2>1, <2>2, HomeOf DEF At, Of
        <3> QED
            BY <3>1, <2>2, <1>1 DEF At, Of, TypeOK
    <2>3. CASE r # w.run
        BY <2>1, <2>3, <1>1 DEF KnownInv, At, Of, TypeOK
    <2> QED
        BY <2>2, <2>3
<1>3. mode' = "serving"
    OBVIOUS
<1> QED
    BY <1>2, <1>3 DEF KnownInv, At, Of

\* The process keeps knowing the Runs behind its files.
LEMMA KnownStep ==
    ASSUME TypeOK, NamesInv, OpInv, TodoInv, UnreadInv, JournalInv, TwinInv, HistoryInv,
           CoherentInv, HomeInv, Exclusive, KindInv, KnownInv, LevelInv, MarkerInv,
           AckedInv, QuarantineInv, ProgressInv, CustodyInv, ReleaseInv, RepairInv,
           ReplayInv, Reliable, Next
    PROVE  KnownInv'
<1> USE NoneDiffers, Handed
<1>1. ASSUME NEW r \in Runs, NEW h \in Hosts, Assign(r, h) PROVE KnownInv'
    BY <1>1, AssignIs, Ends DEF KnownInv, In, At, Of, OpInv, TypeOK, Live, Starts, files,
         synced, Serving, Idle
<1>2. ASSUME NEW r \in Runs, Handle(r) PROVE KnownInv'
    BY <1>2, HandleIs, Ends DEF KnownInv, In, At, Of, OpInv, TypeOK, Live, Starts, Handled,
         Serving, Idle
<1>3. ASSUME NEW r \in Runs, SaveAssignment(r) PROVE KnownInv'
    BY <1>3 DEF KnownInv, In, At, Of, OpInv, TypeOK, Live, SaveAssignment, Fault, hist, Idle
<1>4. CASE FileStep
    <2>1. /\ op.cur \in Record /\ op.cur.run \in Runs /\ op.cur.host \in Hosts /\ op.at \in 0..5
          /\ op.phase \in {"persist", "replay"} /\ op.kind # None
          /\ UNCHANGED <<marker, mem, unread>>
        BY <1>4, FileStepIs, RecordIs
    <2>2. (mode' = mode /\ op'.want = op.want /\ op'.kind = op.kind) \/ mode' = "exit"
        BY <1>4, FileStepIs
    <2>3. \A h \in Hosts : \/ hostLock'[h] \in {hostLock[h], None}
                           \/ hostLock'[h] = LockOf(op.cur) /\ h = op.cur.host /\ op.at = 2
        BY <2>1, <1>4, FileStepIs DEF Wrote, TypeOK
    <2>4. \A r \in Runs : journal'[r] \in {journal[r], None} \/ (journal'[r] = op.cur /\ r = op.cur.run /\ op.at = 0)
        BY <2>1, <1>4, FileStepIs DEF Wrote, TypeOK
    <2>5. \A r \in Runs : sJournal'[r] \in {sJournal[r], journal'[r]}
        BY <1>4, FileStepIs DEF FileStep, Synced, NotSynced, synced
    <2>6. ASSUME mode' = "serving", NEW r \in Runs, NEW h \in Hosts,
                 marker'[h] = r \/ Of(hostLock'[h], r) \/ At(journal'[r], r, h) \/ At(sJournal'[r], r, h)
          PROVE  At(mem[r], r, h) \/ (op'.kind = "assign" /\ At(op'.want, r, h))
        <3>1. /\ mode = "serving" /\ op'.want = op.want /\ op'.kind = op.kind
            BY <2>2, <2>6
        <3>2. \/ marker[h] = r \/ Of(hostLock[h], r) \/ At(journal[r], r, h) \/ At(sJournal[r], r, h)
              \/ r = op.cur.run /\ h = op.cur.host /\ op.at \in {0, 2}
            BY <2>1, <2>3, <2>4, <2>5, <2>6, LockIs DEF At, Of
        <3>3. CASE r = op.cur.run /\ h = op.cur.host /\ op.at \in {0, 2}
            BY <2>1, <3>1, <3>3, ServingKnown
        <3> QED
            BY <3>1, <3>2, <3>3 DEF KnownInv
    <2>7. ASSUME mode' = "load", NEW r \in Runs, NEW h \in Hosts, Of(hostLock'[h], r), h \notin unread
          PROVE  At(mem[r], r, h) \/ At(op'.want, r, h)
        <3>1. mode = "load" /\ op'.want = op.want /\ op.want \in Record
            BY <2>1, <2>2, <2>7 DEF OpInv
        <3>2. CASE Of(hostLock[h], r)
            BY <3>1, <3>2, <2>7 DEF KnownInv
        <3>3. CASE r = op.cur.run /\ h = op.cur.host
            <4>1. op.cur.host = op.want.host /\ op.want.run \in Runs /\ op.want.run = op.want.run
                BY <2>1, <3>1, Handed DEF UnreadInv
            <4>2. Named(op.cur.run, h) /\ Named(op.want.run, h)
                BY <2>1, <3>1, <3>3, <4>1 DEF Named, At, Of
            <4>3. op.cur.run = op.want.run
                BY <2>1, <4>1, <4>2 DEF Exclusive
            <4> QED
                BY <3>1, <3>3, <4>1, <4>3 DEF At, Of
        <3> QED
            BY <2>1, <2>3, <2>7, <3>2, <3>3, LockIs DEF Of
    <2>8. \/ mode' = "exit"
          \/ mode' = mode /\ UNCHANGED <<marker, mem, unread>>
        BY <2>1, <2>2
    <2> QED
        BY <2>6, <2>7, <2>8 DEF KnownInv
<1>5. CASE FileStepFails
    <2>1. /\ op.cur \in Record /\ op.cur.run \in Runs /\ op.cur.host \in Hosts /\ op.at \in 0..5
          /\ op.phase \in {"persist", "replay"} /\ op.kind # None
          /\ UNCHANGED <<marker, mem, unread>>
        BY <1>5, FileStepFailsIs, RecordIs
    <2>2. (mode' = mode /\ op'.want = op.want /\ op'.kind = op.kind) \/ mode' = "exit"
        BY <1>5, FileStepFailsIs, FailsIs, Ends
    <2>3. \A h \in Hosts : \/ hostLock'[h] \in {hostLock[h], None}
                           \/ hostLock'[h] = LockOf(op.cur) /\ h = op.cur.host /\ op.at = 2
        BY <2>1, <1>5, FileStepFailsIs DEF Wrote, TypeOK, files
    <2>4. \A r \in Runs : journal'[r] \in {journal[r], None} \/ (journal'[r] = op.cur /\ r = op.cur.run /\ op.at = 0)
        BY <2>1, <1>5, FileStepFailsIs DEF Wrote, TypeOK, files
    <2>5. \A r \in Runs : sJournal'[r] \in {sJournal[r], journal'[r]}
        BY <1>5, FileStepFailsIs DEF NotSynced, synced
    <2>6. ASSUME mode' = "serving", NEW r \in Runs, NEW h \in Hosts,
                 marker'[h] = r \/ Of(hostLock'[h], r) \/ At(journal'[r], r, h) \/ At(sJournal'[r], r, h)
          PROVE  At(mem[r], r, h) \/ (op'.kind = "assign" /\ At(op'.want, r, h))
        <3>1. /\ mode = "serving" /\ op'.want = op.want /\ op'.kind = op.kind
            BY <2>2, <2>6
        <3>2. \/ marker[h] = r \/ Of(hostLock[h], r) \/ At(journal[r], r, h) \/ At(sJournal[r], r, h)
              \/ r = op.cur.run /\ h = op.cur.host /\ op.at \in {0, 2}
            BY <2>1, <2>3, <2>4, <2>5, <2>6, LockIs DEF At, Of
        <3>3. CASE r = op.cur.run /\ h = op.cur.host /\ op.at \in {0, 2}
            BY <2>1, <3>1, <3>3, ServingKnown
        <3> QED
            BY <3>1, <3>2, <3>3 DEF KnownInv
    <2>7. ASSUME mode' = "load", NEW r \in Runs, NEW h \in Hosts, Of(hostLock'[h], r), h \notin unread
          PROVE  At(mem[r], r, h) \/ At(op'.want, r, h)
        <3>1. mode = "load" /\ op'.want = op.want /\ op.want \in Record
            BY <2>1, <2>2, <2>7 DEF OpInv
        <3>2. CASE Of(hostLock[h], r)
            BY <3>1, <3>2, <2>7 DEF KnownInv
        <3>3. CASE r = op.cur.run /\ h = op.cur.host
            <4>1. op.cur.host = op.want.host /\ op.want.run \in Runs /\ op.want.run = op.want.run
                BY <2>1, <3>1, Handed DEF UnreadInv
            <4>2. Named(op.cur.run, h) /\ Named(op.want.run, h)
                BY <2>1, <3>1, <3>3, <4>1 DEF Named, At, Of
            <4>3. op.cur.run = op.want.run
                BY <2>1, <4>1, <4>2 DEF Exclusive
            <4> QED
                BY <3>1, <3>3, <4>1, <4>3 DEF At, Of
        <3> QED
            BY <2>1, <2>3, <2>7, <3>2, <3>3, LockIs DEF Of
    <2>8. \/ mode' = "exit"
          \/ mode' = mode /\ UNCHANGED <<marker, mem, unread>>
        BY <2>1, <2>2
    <2> QED
        BY <2>6, <2>7, <2>8 DEF KnownInv
<1>6. CASE Scan
    BY <1>6, ScanIs DEF KnownInv, In, At, Of, OpInv, TypeOK, Live, Scan, files, synced, hist
<1>7. CASE PickJournal
    <2>1. /\ UNCHANGED <<journal, sJournal, hostLock, marker, mem, mode, unread>> /\ op'.want = op.want /\ op'.kind = op.kind
        BY <1>7, PickIs DEF PickJournal, files, synced
    <2> QED
        BY <2>1 DEF KnownInv
<1>8. CASE ReadFails
    BY <1>8, FailsIs, Ends DEF KnownInv, In, At, Of, OpInv, TypeOK, Live, ReadFails, Running,
         Fault, files, synced, hist
<1>9. CASE ReplayDone
    BY <1>9, ReplayedIs, Ends DEF KnownInv, In, At, Of, OpInv, TypeOK, Live, ReplayDone,
         files, synced, hist
<1>10. CASE CommitReturns
    <2>1. op.want \in Record /\ op.want.run \in Runs /\ op.want.host \in Hosts /\ mode = "serving"
        BY <1>10, VerifyIs DEF CommitReturns, OpInv, Kinds
    <2>2. /\ mem' = [mem EXCEPT ![op.want.run] = op.want] /\ UNCHANGED <<journal, sJournal, hostLock, mode>>
          /\ \A h \in Hosts : marker'[h] \in {marker[h], None}
        BY <1>10, <2>1 DEF CommitReturns, Adopt, files, synced, TypeOK
    <2> QED
        BY <2>1, <2>2, AdoptKnown
<1>11. CASE FinishReturns
    <2>1. op.want \in Record /\ op.want.run \in Runs /\ op.want.host \in Hosts /\ mode = "serving"
        BY <1>11, VerifyIs, FinishIs DEF OpInv, Kinds
    <2>2. /\ mem' = [mem EXCEPT ![op.want.run] = op.want] /\ UNCHANGED <<journal, sJournal, hostLock, mode, marker>>
        BY <1>11, FinishIs DEF files, synced
    <2> QED
        BY <2>1, <2>2, AdoptKnown
<1>12. CASE CompleteReturns
    <2>1. /\ op.want \in Record /\ op.want.run \in Runs /\ op.want.host \in Hosts
          /\ mode \in {"load", "serving"} /\ op.want.state = "completed"
        BY <1>12, VerifyIs DEF CompleteReturns, OpInv, KindInv
    <2>2. /\ mem' = [mem EXCEPT ![op.want.run] = None] /\ op' = NoOp
          /\ UNCHANGED <<journal, sJournal, hostLock, mode, marker, unread>>
        BY <1>12 DEF CompleteReturns, files, synced
    <2>3. /\ journal[op.want.run] = None /\ sJournal[op.want.run] = None /\ hostLock[op.want.host] = None
          /\ op.want \in doubt[op.want.run]
        BY <1>12, <2>1, DoneIs DEF CompleteReturns
    <2>4. Homed(op.want.run, op.want.host)
        BY <2>1, <2>3 DEF Homed, Possible
    <2>5. \A h \in Hosts : marker[h] # op.want.run
        BY <2>1 DEF MarkerInv, Early, Of
    <2>6. \A h \in Hosts : ~Of(hostLock[h], op.want.run)
        BY <2>1, <2>3, <2>4, HomeOf DEF Of
    <2>7. \A r \in Runs : r # op.want.run => mem'[r] = mem[r]
        BY <2>1, <2>2 DEF TypeOK
    <2>8. mem'[op.want.run] = None
        BY <2>1, <2>2 DEF TypeOK
    <2>9. \A r \in Runs, h \in Hosts :
            marker[h] = r \/ Of(hostLock[h], r) \/ At(journal[r], r, h) \/ At(sJournal[r], r, h) => r # op.want.run
        BY <2>3, <2>5, <2>6 DEF At, Of
    <2>10. CASE mode = "serving"
        <3>1. op.kind # "assign" /\ mode' = "serving"
            BY <1>12, <2>2, <2>10 DEF CompleteReturns
        <3> QED
            BY <2>2, <2>7, <2>9, <2>10, <3>1 DEF KnownInv
    <2>11. CASE mode = "load"
        <3>1. \A h \in Hosts : marker[h] = None
            BY <2>11 DEF KnownInv
        <3>2. \A r \in Runs : In(mem'[r], r, Live) => mem'[r].host \notin unread
            BY <2>7, <2>8, <2>11 DEF KnownInv, In, Of
        <3>3. \A r \in Runs, h \in Hosts : Of(hostLock[h], r) /\ h \notin unread => At(mem'[r], r, h)
            BY <2>6, <2>7, <2>11 DEF KnownInv, At, Of
        <3>4. mode' = "load"
            BY <2>2, <2>11
        <3> QED
            BY <2>2, <3>1, <3>2, <3>3, <3>4 DEF KnownInv
    <2> QED
        BY <2>1, <2>10, <2>11
<1>13. CASE AssignReturns
    <2>1. op.want \in Record /\ op.want.run \in Runs /\ op.want.host \in Hosts /\ mode = "serving"
        BY <1>13, VerifyIs DEF AssignReturns, OpInv, Kinds
    <2>2. /\ mem' = [mem EXCEPT ![op.want.run] = op.want] /\ UNCHANGED <<journal, sJournal, hostLock, mode>>
          /\ \A h \in Hosts : marker'[h] \in {marker[h], None}
        BY <1>13, <2>1 DEF AssignReturns, Adopt, files, synced, TypeOK
    <2> QED
        BY <2>1, <2>2, AdoptKnown
<1>14. CASE AssignFails
    <2>1. op.want \in Record /\ op.want.run \in Runs /\ op.want.host \in Hosts /\ mode = "serving"
        BY <1>14, VerifyIs, AssignFailsIs DEF OpInv, Kinds
    <2>2. PICK rec \in Record : /\ rec.run = op.want.run /\ rec.host = op.want.host
                                /\ mem' = [mem EXCEPT ![rec.run] = rec]
        BY <1>14, AssignFailsIs
    <2>3. UNCHANGED <<journal, sJournal, hostLock, mode, marker>>
        BY <1>14, AssignFailsIs
    <2> QED
        BY <2>1, <2>2, <2>3, AdoptKnown
<1>15. CASE RescueReturns
    <2>1. UNCHANGED <<mem, mode, unread>> /\ op.kind # "assign"
        BY <1>15 DEF RescueReturns
    <2>2. \A h \in Hosts : marker'[h] \in {marker[h], None}
        BY <1>15, EndedIs DEF TypeOK
    <2>3. \A r \in Runs, h \in Hosts : At(op.want, r, h) => At(mem[r], r, h)
        BY <1>15 DEF RescueReturns, KindInv, At, Of
    <2> QED
        BY <1>15, <2>1, <2>2, <2>3, EndedIs, Ends DEF KnownInv, In, At, Of
<1>16. CASE CommitFails
    BY <1>16, VerifyIs, Ends DEF KnownInv, In, At, Of, OpInv, TypeOK, Live, CommitFails, hist
<1>17. CASE MarkerReturns
    <2>1. /\ op.want \in Record /\ op.want.run \in Runs /\ mode = "markers" /\ op.want.state = "quarantined"
        BY <1>17, VerifyIs DEF MarkerReturns, OpInv, KindInv
    <2>2. mode' \in {"markers", "exit"} /\ mem' = [mem EXCEPT ![op.want.run] = op.want]
        BY <1>17, <2>1 DEF MarkerReturns, Adopt
    <2>3. \A r \in Runs : ~In(mem'[r], r, Live)
        BY <2>1, <2>2 DEF KnownInv, In, Of, Live, TypeOK
    <2> QED
        BY <2>2, <2>3 DEF KnownInv
<1>18. CASE Start
    BY <1>18 DEF KnownInv, In, At, Of, OpInv, TypeOK, Live, Start, files, synced, hist
<1>19. CASE RecoverJournals
    BY <1>19, RecoverIs, Ends DEF KnownInv, In, At, Of, OpInv, TypeOK, Live, RecoverJournals,
         files, synced, hist, Idle
<1>20. CASE Serve
    BY <1>20, Ends DEF KnownInv, In, At, Of, OpInv, TypeOK, Live, Serve, files, synced, hist,
         Idle, TwinInv, UnreadInv
<1>21. ASSUME NEW h \in Hosts, RecoverMarker(h) PROVE KnownInv'
    BY <1>21, MarkerIs, Ends DEF KnownInv, In, At, Of, OpInv, TypeOK, Live, Starts, Idle
<1>22. ASSUME NEW h \in Hosts, LoadLock(h) PROVE KnownInv'
    <2>1. /\ mode = "load" /\ op = NoOp /\ h \in unread /\ unread' = unread \ {h}
          /\ UNCHANGED <<hostLock, marker>>
        BY <1>22, LoadCases DEF files, OpInv
    <2>2. PICK q \in Runs : q = hostLock[h].run
        BY <1>22, LoadIs
    <2>3. mode' = "refused" \/ mode' = "load"
        BY <2>1, <1>22, LoadCases
    <2>4. CASE mode' = "refused"
        BY <2>4 DEF KnownInv
    <2>5. ASSUME mode' = "load" PROVE KnownInv'
        <3>1. \/ \E rec \in Record : rec.run = q /\ rec.host = h /\ mem' = [mem EXCEPT ![q] = rec] /\ UNCHANGED op
              \/ UNCHANGED mem /\ \E rec \in Record : rec.run = q /\ rec.host = h /\ Starts("complete", rec)
            BY <2>1, <2>2, <2>5, <1>22, LoadCases
        <3>2. \A r \in Runs : mem'[r] = mem[r] \/ (At(mem'[r], r, h) /\ r = q)
            BY <3>1 DEF At, Of, TypeOK
        <3>3. At(mem'[q], q, h) \/ At(op'.want, q, h)
            BY <3>1 DEF At, Of, TypeOK, Starts
        <3>4. \A r \in Runs : In(mem'[r], r, Live) => mem'[r].host \notin unread'
            BY <2>1, <3>2 DEF KnownInv, In, Of, At
        <3>5. \A r \in Runs, k \in Hosts : Of(hostLock[k], r) /\ k \notin unread' => At(mem'[r], r, k) \/ At(op'.want, r, k)
            <4> SUFFICES ASSUME NEW r \in Runs, NEW k \in Hosts, Of(hostLock[k], r), k \notin unread'
                         PROVE  At(mem'[r], r, k) \/ At(op'.want, r, k)
                OBVIOUS
            <4>1. CASE k = h
                BY <4>1, <2>2, <3>3 DEF Of
            <4>2. CASE k # h
                <5>1. At(mem[r], r, k)
                    BY <4>2, <2>1, Ends DEF KnownInv, At, Of
                <5> QED
                    <6>1. CASE mem'[r] = mem[r]
                        BY <5>1, <6>1
                    <6>2. CASE r = q
                        <7>1. Of(hostLock[h], r)
                            BY <6>2, <2>1, <2>2 DEF Of, UnreadInv
                        <7>2. k = h
                            BY <7>1, HomeOf
                        <7> QED
                            BY <7>2, <4>2
                    <6> QED
                        BY <6>1, <6>2, <3>2
            <4> QED
                BY <4>1, <4>2
        <3> QED
            BY <2>1, <2>5, <3>4, <3>5 DEF KnownInv
    <2> QED
        BY <2>3, <2>4, <2>5
<1>23. CASE Crash
    BY <1>23, CrashIs, Ends DEF KnownInv, In, At, Of, OpInv, TypeOK, Live, hist, TwinInv
<1> QED
    BY <1>1, <1>2, <1>3, <1>4, <1>5, <1>6, <1>7, <1>8, <1>9, <1>10, <1>11, <1>12, <1>13,
         <1>14, <1>15, <1>16, <1>17, <1>18, <1>19, <1>20, <1>21, <1>22, <1>23 DEF Next,
         Handlers, Transition, Startup, Handle

\* A Run does not go back from its completion.
LEMMA LevelStep ==
    ASSUME TypeOK, NamesInv, OpInv, TodoInv, UnreadInv, JournalInv, TwinInv, HistoryInv,
           CoherentInv, HomeInv, Exclusive, KindInv, KnownInv, LevelInv, MarkerInv,
           AckedInv, QuarantineInv, ProgressInv, CustodyInv, ReleaseInv, RepairInv,
           ReplayInv, Reliable, Next
    PROVE  LevelInv'
<1> USE NoneDiffers, Handed
<1>1. ASSUME NEW r \in Runs, NEW h \in Hosts, Assign(r, h) PROVE LevelInv'
    <2>1. PICK rec \in Record : /\ rec.run = r /\ rec.state = "assigned" /\ Starts("assign", rec)
        BY <1>1, AssignIs
    <2>2. /\ acked[r] = None /\ doubt[r] = {} /\ mem[r] = None
          /\ UNCHANGED <<journal, sJournal, assignment, mem>>
        BY <1>1 DEF Assign, Begin, files, synced
    <2>3. journal[r] = None /\ sJournal[r] = None /\ assignment[r] = None
        BY <2>2 DEF HistoryInv, Possible
    <2> QED
        BY <2>1, <2>2, <2>3 DEF LevelInv, Ending, Going, In, Of, Starts
<1>2. ASSUME NEW r \in Runs, Handle(r) PROVE LevelInv'
    BY <1>2, HandleIs, Ends DEF LevelInv, Ending, Going, In, Of, Live, TypeOK, Starts,
         Handled, Serving, Idle
<1>3. ASSUME NEW r \in Runs, SaveAssignment(r) PROVE LevelInv'
    BY <1>3 DEF LevelInv, Ending, Going, In, Of, Live, TypeOK, SaveAssignment, Fault, hist,
         Idle
<1>4. CASE FileStep
    BY <1>4, FileStepIs DEF LevelInv, Ending, Going, In, Of, Live, TypeOK, Wrote, FileStep,
         Synced, NotSynced, synced
<1>5. CASE FileStepFails
    BY <1>5, FileStepFailsIs, FailsIs, Ends DEF LevelInv, Ending, Going, In, Of, Live, TypeOK,
         Wrote, files, NotSynced, synced
<1>6. CASE Scan
    BY <1>6, ScanIs DEF LevelInv, Ending, Going, In, Of, Live, TypeOK, Scan, files, synced,
         hist
<1>7. CASE PickJournal
    <2>1. /\ op.phase = "replay" /\ op.kind # None /\ op.cur = None /\ mode # "down"
          /\ UNCHANGED <<journal, assignment, hostLock, ledger, marker, mem, quar, mode, unread, faults>>
          /\ UNCHANGED <<sJournal, sAssignment, sHostLock, sLedger, acked, doubt>>
        BY <1>7, PickIs DEF PickJournal, Running, files, synced, hist
    <2>2. PICK q \in op.todo :
            /\ q \in Runs /\ journal[q] \in Record /\ journal[q].run = q
            /\ op'.kind = op.kind /\ op'.phase = "replay" /\ op'.want = op.want
            /\ op'.cur = Prepare(journal[q]) /\ op'.at = 1 /\ op'.todo = op.todo \ {q}
            /\ op'.failed = op.failed
        BY <1>7, PickIs
    <2>3. op'.cur \in Record /\ op'.cur.run = q /\ op'.cur.host = journal[q].host
        BY <2>2, PrepareIs
    <2>4. /\ op'.cur \in Possible(q)
          /\ \/ op'.cur = journal[q]
             \/ /\ quar[journal[q].host] = q /\ marker[journal[q].host] = q
                /\ journal[q].state # "completed" /\ op'.cur.state = "quarantined"
        BY <2>2, PreparedIs
    <2> QED
        BY <2>1, <2>2, <2>3, <2>4 DEF LevelInv, Ending, Going, In, Of, Live
<1>8. CASE ReadFails
    BY <1>8, FailsIs, Ends DEF LevelInv, Ending, Going, In, Of, Live, TypeOK, ReadFails,
         Running, Fault, files, synced, hist
<1>9. CASE ReplayDone
    BY <1>9, ReplayedIs, Ends DEF LevelInv, Ending, Going, In, Of, Live, TypeOK, ReplayDone,
         files, synced, hist
<1>10. CASE CommitReturns
    BY <1>10, VerifyIs, Ends, DoneIs DEF LevelInv, Ending, Going, In, Of, Live, TypeOK,
         CommitReturns, Ack, Adopt, files, synced, KindInv
<1>11. CASE FinishReturns
    BY <1>11, FinishIs, VerifyIs, DoneIs DEF LevelInv, Ending, Going, In, Of, Live, TypeOK,
         Starts, files, synced, KindInv
<1>12. CASE CompleteReturns
    BY <1>12, VerifyIs, Ends, DoneIs DEF LevelInv, Ending, Going, In, Of, Live, TypeOK,
         CompleteReturns, Ack, files, synced, KindInv
<1>13. CASE AssignReturns
    BY <1>13, VerifyIs, Ends, DoneIs DEF LevelInv, Ending, Going, In, Of, Live, TypeOK,
         AssignReturns, Ack, Adopt, files, synced, KindInv
<1>14. CASE AssignFails
    BY <1>14, AssignFailsIs, VerifyIs DEF LevelInv, Ending, Going, In, Of, Live, TypeOK,
         Starts
<1>15. CASE RescueReturns
    BY <1>15, VerifyIs, Ends, DoneIs DEF LevelInv, Ending, Going, In, Of, Live, TypeOK,
         RescueReturns, Ack, hist, files, synced, KindInv
<1>16. CASE CommitFails
    BY <1>16, VerifyIs, Ends DEF LevelInv, Ending, Going, In, Of, Live, TypeOK, CommitFails,
         hist
<1>17. CASE MarkerReturns
    BY <1>17, VerifyIs, Ends, DoneIs DEF LevelInv, Ending, Going, In, Of, Live, TypeOK,
         MarkerReturns, Ack, Adopt, files, synced, KindInv
<1>18. CASE Start
    BY <1>18 DEF LevelInv, Ending, Going, In, Of, Live, TypeOK, Start, files, synced, hist
<1>19. CASE RecoverJournals
    BY <1>19, RecoverIs, Ends DEF LevelInv, Ending, Going, In, Of, Live, TypeOK,
         RecoverJournals, files, synced, hist, Idle
<1>20. CASE Serve
    BY <1>20, Ends DEF LevelInv, Ending, Going, In, Of, Live, TypeOK, Serve, files, synced,
         hist, Idle
<1>21. ASSUME NEW h \in Hosts, RecoverMarker(h) PROVE LevelInv'
    BY <1>21, MarkerIs, Ends DEF LevelInv, Ending, Going, In, Of, Live, TypeOK, Starts, Idle
<1>22. ASSUME NEW h \in Hosts, LoadLock(h) PROVE LevelInv'
    <2>1. /\ mode = "load" /\ op = NoOp /\ h \in unread
          /\ UNCHANGED <<journal, sJournal, assignment>>
          /\ hostLock[h] # None
        BY <1>22, LoadCases DEF files, synced, OpInv, UnreadInv
    <2>2. PICK q \in Runs : q = hostLock[h].run
        BY <1>22, LoadIs
    <2>3. \A r \in Runs : journal[r] = None /\ sJournal[r] = None
        BY <2>1, Ends DEF UnreadInv, TwinInv, Of
    <2>4. CASE UNCHANGED <<mem, op>>
        BY <2>1, <2>4 DEF LevelInv, Ending, Going, In, Of
    <2>5. ASSUME UNCHANGED mem, NEW rec \in Record, rec.run = q, rec.state = "completed", Starts("complete", rec)
          PROVE  LevelInv'
        <3>1. ~In(mem[q], q, Live)
            <4>1. Of(hostLock[h], q)
                BY <2>1, <2>2 DEF Of
            <4>2. mem[q] # None => mem[q].host = h
                BY <4>1, HomeOf
            <4> QED
                BY <2>1, <4>2 DEF KnownInv, In, Of
        <3> QED
            BY <2>1, <2>3, <2>5, <3>1 DEF LevelInv, Ending, Going, In, Of, Live, Starts
    <2>6. ASSUME LockMatches(h), UNCHANGED op, NEW rec \in Record, rec.run = q,
                 IF quar[h] = q THEN rec.state = "quarantined" ELSE rec = assignment[q],
                 assignment[q].state # "finishing", mem' = [mem EXCEPT ![q] = rec]
          PROVE  LevelInv'
        <3>1. assignment[q].state # "completed"
            BY <2>2, <2>6, <1>22, LoadIs
        <3> QED
            BY <2>1, <2>3, <2>6, <3>1, Ends DEF LevelInv, Ending, Going, In, Of, Live, TypeOK
    <2> QED
        BY <2>2, <2>4, <2>5, <2>6, <1>22, LoadCases
<1>23. CASE Crash
    BY <1>23, CrashIs, Ends DEF LevelInv, Ending, Going, In, Of, Live, TypeOK, hist, TwinInv
<1> QED
    BY <1>1, <1>2, <1>3, <1>4, <1>5, <1>6, <1>7, <1>8, <1>9, <1>10, <1>11, <1>12, <1>13,
         <1>14, <1>15, <1>16, <1>17, <1>18, <1>19, <1>20, <1>21, <1>22, <1>23 DEF Next,
         Handlers, Transition, Startup, Handle

\* A Run with a marker stays early.
LEMMA MarkerStep ==
    ASSUME TypeOK, NamesInv, OpInv, TodoInv, UnreadInv, JournalInv, TwinInv, HistoryInv,
           CoherentInv, HomeInv, Exclusive, KindInv, KnownInv, LevelInv, MarkerInv,
           AckedInv, QuarantineInv, ProgressInv, CustodyInv, ReleaseInv, RepairInv,
           ReplayInv, Reliable, Next
    PROVE  MarkerInv'
<1> USE NoneDiffers, Handed
<1>1. ASSUME NEW r \in Runs, NEW h \in Hosts, Assign(r, h) PROVE MarkerInv'
    <2>1. PICK rec \in Record : /\ rec.run = r /\ rec.state = "assigned" /\ ~rec.bound /\ Starts("assign", rec)
        BY <1>1, AssignIs
    <2>2. /\ acked[r] = None /\ doubt[r] = {} /\ mem[r] = None /\ op = NoOp
          /\ UNCHANGED <<journal, sJournal, assignment, mem>>
          /\ marker' = [marker EXCEPT ![h] = r]
        BY <1>1 DEF Assign, Begin, files, synced, Serving, OpInv
    <2>3. journal[r] = None /\ sJournal[r] = None /\ assignment[r] = None
        BY <2>2 DEF HistoryInv, Possible
    <2>4. \A k \in Hosts, q \in Runs : marker'[k] = q => q = r \/ marker[k] = q
        BY <2>2 DEF TypeOK
    <2> QED
        BY <2>1, <2>2, <2>3, <2>4 DEF MarkerInv, Early, Of, Starts
<1>2. ASSUME NEW r \in Runs, Handle(r) PROVE MarkerInv'
    BY <1>2, HandleIs, Ends DEF MarkerInv, Early, Of, In, TypeOK, NamesInv, Mine, Starts,
         Handled, Serving, Idle
<1>3. ASSUME NEW r \in Runs, SaveAssignment(r) PROVE MarkerInv'
    BY <1>3 DEF MarkerInv, Early, Of, In, TypeOK, NamesInv, Mine, SaveAssignment, Fault, hist,
         Idle
<1>4. CASE FileStep
    BY <1>4, FileStepIs DEF MarkerInv, Early, Of, In, TypeOK, NamesInv, Mine, Wrote, FileStep,
         Synced, NotSynced, synced
<1>5. CASE FileStepFails
    BY <1>5, FileStepFailsIs, FailsIs, Ends DEF MarkerInv, Early, Of, In, TypeOK, NamesInv,
         Mine, Wrote, files, NotSynced, synced
<1>6. CASE Scan
    BY <1>6, ScanIs DEF MarkerInv, Early, Of, In, TypeOK, NamesInv, Mine, Scan, files, synced,
         hist
<1>7. CASE PickJournal
    <2>1. /\ op.phase = "replay" /\ op.kind # None /\ op.cur = None /\ mode # "down"
          /\ UNCHANGED <<journal, assignment, hostLock, ledger, marker, mem, quar, mode, unread, faults>>
          /\ UNCHANGED <<sJournal, sAssignment, sHostLock, sLedger, acked, doubt>>
        BY <1>7, PickIs DEF PickJournal, Running, files, synced, hist
    <2>2. PICK q \in op.todo :
            /\ q \in Runs /\ journal[q] \in Record /\ journal[q].run = q
            /\ op'.kind = op.kind /\ op'.phase = "replay" /\ op'.want = op.want
            /\ op'.cur = Prepare(journal[q]) /\ op'.at = 1 /\ op'.todo = op.todo \ {q}
            /\ op'.failed = op.failed
        BY <1>7, PickIs
    <2>3. op'.cur \in Record /\ op'.cur.run = q /\ op'.cur.host = journal[q].host
        BY <2>2, PrepareIs
    <2>4. /\ op'.cur \in Possible(q)
          /\ \/ op'.cur = journal[q]
             \/ /\ quar[journal[q].host] = q /\ marker[journal[q].host] = q
                /\ journal[q].state # "completed" /\ op'.cur.state = "quarantined"
        BY <2>2, PreparedIs
    <2>5. op'.cur.bound = journal[q].bound
        BY <2>2, PrepareIs
    <2> QED
        BY <2>1, <2>2, <2>3, <2>4, <2>5 DEF MarkerInv, Early, Of
<1>8. CASE ReadFails
    BY <1>8, FailsIs, Ends DEF MarkerInv, Early, Of, In, TypeOK, NamesInv, Mine, ReadFails,
         Running, Fault, files, synced, hist
<1>9. CASE ReplayDone
    BY <1>9, ReplayedIs, Ends DEF MarkerInv, Early, Of, In, TypeOK, NamesInv, Mine,
         ReplayDone, files, synced, hist
<1>10. CASE CommitReturns
    BY <1>10, VerifyIs, Ends, DoneIs DEF MarkerInv, Early, Of, In, TypeOK, NamesInv, Mine,
         CommitReturns, Ack, Adopt, files, synced, KindInv
<1>11. CASE FinishReturns
    BY <1>11, FinishIs, VerifyIs, DoneIs DEF MarkerInv, Early, Of, In, TypeOK, NamesInv, Mine,
         Starts, files, synced, KindInv
<1>12. CASE CompleteReturns
    BY <1>12, VerifyIs, Ends, DoneIs DEF MarkerInv, Early, Of, In, TypeOK, NamesInv, Mine,
         CompleteReturns, Ack, files, synced, KindInv
<1>13. CASE AssignReturns
    <2>1. /\ op.want \in Record /\ op.want.run \in Runs /\ op.want.host \in Hosts
        BY <1>13, VerifyIs DEF AssignReturns
    <2>2. /\ UNCHANGED <<journal, sJournal, assignment>> /\ op' = NoOp
          /\ mem' = [mem EXCEPT ![op.want.run] = op.want]
          /\ marker' = [marker EXCEPT ![op.want.host] = None]
        BY <1>13 DEF AssignReturns, Adopt, files, synced
    <2>3. Homed(op.want.run, op.want.host)
        BY <2>1 DEF HistoryInv, Homed, Of, Possible
    <2>4. \A k \in Hosts : marker[k] = op.want.run => k = op.want.host
        BY <2>1, <2>3, HomeOf
    <2>5. \A k \in Hosts, q \in Runs : marker'[k] = q => marker[k] = q /\ q # op.want.run
        BY <2>1, <2>2, <2>4 DEF TypeOK
    <2> QED
        BY <2>1, <2>2, <2>5, Ends DEF MarkerInv, Early, Of, TypeOK
<1>14. CASE AssignFails
    BY <1>14, AssignFailsIs, VerifyIs DEF MarkerInv, Early, Of, In, TypeOK, NamesInv, Mine,
         Starts
<1>15. CASE RescueReturns
    <2>1. UNCHANGED mem /\ \A h \in Hosts : marker'[h] \in {marker[h], None}
        BY <1>15, EndedIs DEF RescueReturns, TypeOK
    <2> QED
        BY <1>15, <2>1, EndedIs, Ends DEF MarkerInv, Early, Of
<1>16. CASE CommitFails
    BY <1>16, VerifyIs, Ends DEF MarkerInv, Early, Of, In, TypeOK, NamesInv, Mine,
         CommitFails, hist
<1>17. CASE MarkerReturns
    <2>1. op.want.state = "quarantined" /\ \A h \in Hosts : marker'[h] \in {marker[h], None}
        BY <1>17, EndedIs DEF MarkerReturns, KindInv, TypeOK
    <2>2. \A r \in Runs : mem'[r] = mem[r] \/ mem'[r] = op.want
        BY <1>17, EndedIs DEF TypeOK
    <2> QED
        BY <1>17, <2>1, <2>2, EndedIs, Ends DEF MarkerInv, Early, Of
<1>18. CASE Start
    BY <1>18 DEF MarkerInv, Early, Of, In, TypeOK, NamesInv, Mine, Start, files, synced, hist
<1>19. CASE RecoverJournals
    BY <1>19, RecoverIs, Ends DEF MarkerInv, Early, Of, In, TypeOK, NamesInv, Mine,
         RecoverJournals, files, synced, hist, Idle
<1>20. CASE Serve
    BY <1>20, Ends DEF MarkerInv, Early, Of, In, TypeOK, NamesInv, Mine, Serve, files, synced,
         hist, Idle
<1>21. ASSUME NEW h \in Hosts, RecoverMarker(h) PROVE MarkerInv'
    BY <1>21, MarkerIs, Ends DEF MarkerInv, Early, Of, In, TypeOK, NamesInv, Mine, Starts,
         Idle
<1>22. ASSUME NEW h \in Hosts, LoadLock(h) PROVE MarkerInv'
    <2>1. UNCHANGED marker /\ \A k \in Hosts : marker[k] = None
        BY <1>22, LoadCases DEF KnownInv
    <2> QED
        BY <2>1 DEF MarkerInv
<1>23. CASE Crash
    BY <1>23, CrashIs, Ends DEF MarkerInv, Early, Of, In, TypeOK, NamesInv, Mine, hist,
         TwinInv
<1> QED
    BY <1>1, <1>2, <1>3, <1>4, <1>5, <1>6, <1>7, <1>8, <1>9, <1>10, <1>11, <1>12, <1>13,
         <1>14, <1>15, <1>16, <1>17, <1>18, <1>19, <1>20, <1>21, <1>22, <1>23 DEF Next,
         Handlers, Transition, Startup, Handle

\* A quarantine on disk stays.
LEMMA QuarantinedStep ==
    ASSUME TypeOK, NamesInv, OpInv, TodoInv, UnreadInv, JournalInv, TwinInv, HistoryInv,
           CoherentInv, HomeInv, Exclusive, KindInv, KnownInv, LevelInv, MarkerInv,
           AckedInv, QuarantineInv, ProgressInv, CustodyInv, ReleaseInv, RepairInv,
           ReplayInv, Reliable, Next
    PROVE  \A q \in Runs : Quarantined(q) => Kept(q)'
<1> USE NoneDiffers, Handed
<1>1. ASSUME NEW r \in Runs, NEW h \in Hosts, Assign(r, h) PROVE \A q \in Runs : Quarantined(q) => Quarantined(q)'
    <2>1. /\ acked[r] = None /\ doubt[r] = {} /\ op = NoOp /\ marker' = [marker EXCEPT ![h] = r]
          /\ UNCHANGED <<journal, sJournal, assignment, mem, hostLock>>
        BY <1>1 DEF Assign, Begin, files, synced, Serving, OpInv
    <2>2. assignment[r] = None
        BY <2>1 DEF HistoryInv, Possible
    <2>3. PICK rec \in Record : rec.run = r /\ op'.want = rec /\ op'.cur = rec
        BY <1>1, AssignIs DEF Starts
    <2> QED
        BY <2>1, <2>2, <2>3 DEF Quarantined, In, Of, TypeOK
<1>2. ASSUME NEW r \in Runs, Handle(r) PROVE \A q \in Runs : Quarantined(q) => Quarantined(q)'
    BY <1>2, HandleIs, Ends DEF Quarantined, In, Of, TypeOK, Starts, Handled, Serving, Idle
<1>3. ASSUME NEW r \in Runs, SaveAssignment(r) PROVE \A q \in Runs : Quarantined(q) => Quarantined(q)'
    BY <1>3 DEF Quarantined, In, Of, TypeOK, SaveAssignment, Fault, hist, Idle, NamesInv, Mine
<1>4. ASSUME FileStep PROVE \A q \in Runs : Quarantined(q) => Quarantined(q)'
    <2>1. /\ op.cur \in Record /\ op.cur.run \in Runs /\ op.cur.host \in Hosts
          /\ UNCHANGED <<marker, mem>>
        BY <1>4, FileStepIs, RecordIs
    <2>2. op'.want \in {op.want, None} /\ op'.cur \in {op.cur, None}
        BY <1>4, FileStepIs
    <2>3. \A k \in Hosts : k # op.cur.host => hostLock'[k] = hostLock[k]
        BY <2>1, <1>4, FileStepIs DEF Wrote, TypeOK
    <2>4. \A q \in Runs : q # op.cur.run => journal'[q] = journal[q] /\ assignment'[q] = assignment[q]
        BY <2>1, <1>4, FileStepIs DEF Wrote, TypeOK
    <2>5. \A q \in Runs : sJournal'[q] \in {sJournal[q], journal'[q]}
        BY <1>4, FileStepIs DEF FileStep, Synced, NotSynced, synced
    <2>6. ASSUME NEW q \in Runs, Quarantined(q) PROVE Quarantined(q)'
        <3>1. q # op.cur.run
            BY <2>1, <2>6 DEF Quarantined, Of
        <3>2. assignment[q] # None /\ assignment[q] \in Record
            BY <2>6 DEF Quarantined, In, Of, TypeOK
        <3>3. assignment[q].host \in Hosts
            BY <3>2, RecordIs
        <3>4. Named(q, assignment[q].host) /\ Named(op.cur.run, op.cur.host)
            BY <2>1, <2>6 DEF Quarantined, Named, At, Of
        <3>5. assignment[q].host # op.cur.host
            BY <2>1, <3>1, <3>3, <3>4 DEF Exclusive
        <3> QED
            BY <2>1, <2>2, <2>3, <2>4, <2>5, <2>6, <3>1, <3>3, <3>5 DEF Quarantined, In, Of
    <2> QED
        BY <2>6
<1>5. ASSUME FileStepFails PROVE \A q \in Runs : Quarantined(q) => Quarantined(q)'
    <2>1. /\ op.cur \in Record /\ op.cur.run \in Runs /\ op.cur.host \in Hosts
          /\ UNCHANGED <<marker, mem>>
        BY <1>5, FileStepFailsIs, RecordIs
    <2>2. op'.want \in {op.want, None} /\ op'.cur \in {op.cur, None}
        BY <1>5, FileStepFailsIs, FailsIs, Ends
    <2>3. \A k \in Hosts : k # op.cur.host => hostLock'[k] = hostLock[k]
        BY <2>1, <1>5, FileStepFailsIs DEF Wrote, TypeOK, files
    <2>4. \A q \in Runs : q # op.cur.run => journal'[q] = journal[q] /\ assignment'[q] = assignment[q]
        BY <2>1, <1>5, FileStepFailsIs DEF Wrote, TypeOK, files
    <2>5. \A q \in Runs : sJournal'[q] \in {sJournal[q], journal'[q]}
        BY <1>5, FileStepFailsIs DEF NotSynced, synced
    <2>6. ASSUME NEW q \in Runs, Quarantined(q) PROVE Quarantined(q)'
        <3>1. q # op.cur.run
            BY <2>1, <2>6 DEF Quarantined, Of
        <3>2. assignment[q] # None /\ assignment[q] \in Record
            BY <2>6 DEF Quarantined, In, Of, TypeOK
        <3>3. assignment[q].host \in Hosts
            BY <3>2, RecordIs
        <3>4. Named(q, assignment[q].host) /\ Named(op.cur.run, op.cur.host)
            BY <2>1, <2>6 DEF Quarantined, Named, At, Of
        <3>5. assignment[q].host # op.cur.host
            BY <2>1, <3>1, <3>3, <3>4 DEF Exclusive
        <3> QED
            BY <2>1, <2>2, <2>3, <2>4, <2>5, <2>6, <3>1, <3>3, <3>5 DEF Quarantined, In, Of
    <2> QED
        BY <2>6
<1>6. ASSUME Scan PROVE \A q \in Runs : Quarantined(q) => Quarantined(q)'
    BY <1>6, ScanIs DEF Quarantined, In, Of, TypeOK, Scan, files, synced, hist
<1>7. ASSUME PickJournal PROVE \A q \in Runs : Quarantined(q) => Quarantined(q)'
    <2>1. /\ op.phase = "replay" /\ op.kind # None /\ op.cur = None /\ mode # "down"
          /\ UNCHANGED <<journal, assignment, hostLock, ledger, marker, mem, quar, mode, unread, faults>>
          /\ UNCHANGED <<sJournal, sAssignment, sHostLock, sLedger, acked, doubt>>
        BY <1>7, PickIs DEF PickJournal, Running, files, synced, hist
    <2>2. PICK q \in op.todo :
            /\ q \in Runs /\ journal[q] \in Record /\ journal[q].run = q
            /\ op'.kind = op.kind /\ op'.phase = "replay" /\ op'.want = op.want
            /\ op'.cur = Prepare(journal[q]) /\ op'.at = 1 /\ op'.todo = op.todo \ {q}
            /\ op'.failed = op.failed
        BY <1>7, PickIs
    <2>3. op'.cur \in Record /\ op'.cur.run = q /\ op'.cur.host = journal[q].host
        BY <2>2, PrepareIs
    <2>4. /\ op'.cur \in Possible(q)
          /\ \/ op'.cur = journal[q]
             \/ /\ quar[journal[q].host] = q /\ marker[journal[q].host] = q
                /\ journal[q].state # "completed" /\ op'.cur.state = "quarantined"
        BY <2>2, PreparedIs
    <2> QED
        BY <2>1, <2>2, <2>3, <2>4 DEF Quarantined, In, Of
<1>8. ASSUME ReadFails PROVE \A q \in Runs : Quarantined(q) => Quarantined(q)'
    BY <1>8, FailsIs, Ends DEF Quarantined, In, Of, TypeOK, ReadFails, Running, Fault, files,
         synced, hist
<1>9. ASSUME ReplayDone PROVE \A q \in Runs : Quarantined(q) => Quarantined(q)'
    BY <1>9, ReplayedIs, Ends DEF Quarantined, In, Of, TypeOK, ReplayDone, files, synced, hist
<1>10. ASSUME CommitReturns PROVE \A q \in Runs : Quarantined(q) => Quarantined(q)'
    BY <1>10, VerifyIs, Ends DEF Quarantined, In, Of, TypeOK, CommitReturns, Ack, Adopt,
         files, synced, KindInv
<1>11. ASSUME FinishReturns PROVE \A q \in Runs : Quarantined(q) => Quarantined(q)'
    BY <1>11, FinishIs, VerifyIs DEF Quarantined, In, Of, TypeOK, Starts, files, synced,
         KindInv
<1>12. ASSUME CompleteReturns PROVE \A q \in Runs : Quarantined(q) => Quarantined(q)'
    BY <1>12, VerifyIs, Ends DEF Quarantined, In, Of, TypeOK, CompleteReturns, Ack, files,
         synced, KindInv
<1>13. ASSUME AssignReturns PROVE \A q \in Runs : Quarantined(q) => Quarantined(q)'
    BY <1>13, VerifyIs, Ends DEF Quarantined, In, Of, TypeOK, AssignReturns, Ack, Adopt,
         files, synced, KindInv
<1>14. ASSUME AssignFails PROVE \A q \in Runs : Quarantined(q) => Quarantined(q)'
    BY <1>14, AssignFailsIs, VerifyIs DEF Quarantined, In, Of, TypeOK, Starts, KindInv
<1>15. ASSUME RescueReturns PROVE \A q \in Runs : Quarantined(q) => Quarantined(q)'
    BY <1>15, VerifyIs, Ends DEF Quarantined, In, Of, TypeOK, RescueReturns, Ack, hist, files,
         synced, KindInv
<1>16. ASSUME CommitFails PROVE \A q \in Runs : Quarantined(q) => Quarantined(q)'
    BY <1>16, VerifyIs, Ends DEF Quarantined, In, Of, TypeOK, CommitFails, hist
<1>17. ASSUME MarkerReturns PROVE \A q \in Runs : Quarantined(q) => Quarantined(q)'
    BY <1>17, VerifyIs, Ends DEF Quarantined, In, Of, TypeOK, MarkerReturns, Ack, Adopt,
         files, synced, KindInv
<1>18. ASSUME Start PROVE \A q \in Runs : Quarantined(q) => Quarantined(q)'
    BY <1>18 DEF Quarantined, In, Of, TypeOK, Start, files, synced, hist
<1>19. ASSUME RecoverJournals PROVE \A q \in Runs : Quarantined(q) => Quarantined(q)'
    BY <1>19, RecoverIs, Ends DEF Quarantined, In, Of, TypeOK, RecoverJournals, files, synced,
         hist, Idle
<1>20. ASSUME Serve PROVE \A q \in Runs : Quarantined(q) => Quarantined(q)'
    BY <1>20, Ends DEF Quarantined, In, Of, TypeOK, Serve, files, synced, hist, Idle
<1>21. ASSUME NEW h \in Hosts, RecoverMarker(h) PROVE \A q \in Runs : Quarantined(q) => Kept(q)'
    <2>1. PICK rec \in Record :
            /\ rec.run = marker[h] /\ rec.host = h /\ ~rec.bound
            /\ rec.state = "quarantined" /\ rec.ledger = "terminal" /\ Starts("marker", rec)
            /\ doubt' = [doubt EXCEPT ![rec.run] = doubt[rec.run] \cup {rec}]
            /\ ledger' = [ledger EXCEPT ![rec.run] = "terminal"]
            /\ quar' = [quar EXCEPT ![h] = rec.run]
        BY <1>21, MarkerIs
    <2>2. /\ UNCHANGED <<journal, sJournal, assignment, hostLock, marker, mem>>
          /\ rec.run \in Runs /\ marker[h] = rec.run
        BY <1>21, <2>1, MarkerIs
    <2>3. \A k \in Hosts : quar[k] = rec.run => k = h
        BY <2>2, HomeOf
    <2>4. \A k \in Hosts : quar'[k] = rec.run => k = h
        BY <2>1, <2>3 DEF TypeOK
    <2>5. Marked(rec.run, h)'
        BY <2>1, <2>2 DEF Marked, Of, Starts, TypeOK
    <2>6. ASSUME NEW q \in Runs, q # rec.run, Quarantined(q) PROVE Quarantined(q)'
        BY <2>1, <2>2, <2>6 DEF Quarantined, In, Of, Starts
    <2> QED
        BY <2>2, <2>4, <2>5, <2>6 DEF Kept
<1>22. ASSUME NEW h \in Hosts, LoadLock(h) PROVE \A q \in Runs : Quarantined(q) => Quarantined(q)'
    BY <1>22, LoadCases, Ends, LoadIs DEF Quarantined, In, Of, TypeOK, Starts, files, synced,
         Idle
<1>23. ASSUME Crash PROVE \A q \in Runs : Quarantined(q) => Quarantined(q)'
    BY <1>23, CrashIs, Ends DEF Quarantined, In, Of, TypeOK, hist, TwinInv
<1> QED
    BY <1>1, <1>2, <1>3, <1>4, <1>5, <1>6, <1>7, <1>8, <1>9, <1>10, <1>11, <1>12, <1>13,
         <1>14, <1>15, <1>16, <1>17, <1>18, <1>19, <1>20, <1>21, <1>22, <1>23 DEF Next,
         Handlers, Transition, Startup, Handle, Kept

\* A quarantine that was written stays, whatever writes it again.
LEMMA SettledStep ==
    ASSUME TypeOK, NamesInv, OpInv, TodoInv, UnreadInv, JournalInv, TwinInv, HistoryInv,
           CoherentInv, HomeInv, Exclusive, KindInv, KnownInv, LevelInv, MarkerInv,
           AckedInv, QuarantineInv, ProgressInv, CustodyInv, ReleaseInv, RepairInv,
           ReplayInv, Reliable, Next
    PROVE  \A q \in Runs : Settled(q) => Settled(q)'
<1> USE NoneDiffers, Handed
<1>1. ASSUME NEW r \in Runs, NEW h \in Hosts, Assign(r, h) PROVE \A q \in Runs : Settled(q) => Settled(q)'
    <2>1. /\ acked[r] = None /\ doubt[r] = {} /\ op = NoOp /\ marker' = [marker EXCEPT ![h] = r]
          /\ UNCHANGED <<journal, sJournal, assignment, mem, hostLock>>
        BY <1>1 DEF Assign, Begin, files, synced, Serving, OpInv
    <2>2. assignment[r] = None
        BY <2>1 DEF HistoryInv, Possible
    <2>3. PICK rec \in Record : rec.run = r /\ op'.want = rec /\ op'.cur = rec
        BY <1>1, AssignIs DEF Starts
    <2> QED
        BY <2>1, <2>2, <2>3 DEF Settled, In, Of, TypeOK
<1>2. ASSUME NEW r \in Runs, Handle(r) PROVE \A q \in Runs : Settled(q) => Settled(q)'
    BY <1>2, HandleIs, Ends DEF Settled, In, Of, TypeOK, Starts, Handled, Serving, Idle
<1>3. ASSUME NEW r \in Runs, SaveAssignment(r) PROVE \A q \in Runs : Settled(q) => Settled(q)'
    BY <1>3 DEF Settled, In, Of, TypeOK, SaveAssignment, Fault, hist, Idle, NamesInv, Mine
<1>4. CASE FileStep
    <2>1. /\ op.cur \in Record /\ op.cur.run \in Runs /\ op.cur.host \in Hosts
          /\ UNCHANGED <<marker, mem>>
        BY <1>4, FileStepIs, RecordIs
    <2>2. op'.want \in {op.want, None} /\ op'.cur \in {op.cur, None}
        BY <1>4, FileStepIs
    <2>3. \A k \in Hosts : k # op.cur.host => hostLock'[k] = hostLock[k]
        BY <2>1, <1>4, FileStepIs DEF Wrote, TypeOK
    <2>4. \A q \in Runs : q # op.cur.run => journal'[q] = journal[q] /\ assignment'[q] = assignment[q]
        BY <2>1, <1>4, FileStepIs DEF Wrote, TypeOK
    <2>5. \A q \in Runs : sJournal'[q] \in {sJournal[q], journal'[q]}
        BY <1>4, FileStepIs DEF FileStep, Synced, NotSynced, synced
    <2>7. /\ journal'[op.cur.run] \in {journal[op.cur.run], op.cur, None}
          /\ assignment'[op.cur.run] \in {assignment[op.cur.run], op.cur}
          /\ op.cur.state = "quarantined" =>
               hostLock'[op.cur.host] \in {hostLock[op.cur.host], LockOf(op.cur)}
        BY <2>1, <1>4, FileStepIs DEF Wrote, TypeOK
    <2>6. ASSUME NEW q \in Runs, Settled(q) PROVE Settled(q)'
        <3>1. /\ assignment[q] # None /\ assignment[q] \in Record
              /\ assignment[q].host \in Hosts /\ Of(hostLock[assignment[q].host], q)
            BY <2>6, RecordIs DEF Settled, In, Of, TypeOK
        <3>2. CASE q # op.cur.run
            <4>1. hostLock'[assignment[q].host] = hostLock[assignment[q].host]
                <5>1. Named(q, assignment[q].host) /\ Named(op.cur.run, op.cur.host)
                    BY <2>1, <3>1 DEF Named, At, Of
                <5> QED
                    BY <2>1, <2>3, <3>1, <3>2, <5>1 DEF Exclusive
            <4> QED
                BY <2>1, <2>2, <2>4, <2>5, <2>6, <3>1, <3>2, <4>1 DEF Settled, In, Of
        <3>3. CASE q = op.cur.run
            <4>1. op.cur.host = assignment[q].host /\ op.cur.state = "quarantined"
                BY <2>1, <2>6, <3>1, <3>3, HomeOf DEF Settled, Of
            <4>2. /\ journal'[q] \in {journal[q], op.cur, None}
                  /\ assignment'[q] \in {assignment[q], op.cur}
                  /\ hostLock'[op.cur.host] \in {hostLock[op.cur.host], LockOf(op.cur)}
                BY <2>1, <2>7, <3>3, <4>1
            <4>3. LockOf(op.cur) # None /\ LockOf(op.cur).run = q
                BY <2>1, <3>3, LockIs
            <4>4. Of(hostLock'[assignment'[q].host], q)
                BY <2>1, <3>1, <4>1, <4>2, <4>3 DEF Of
            <4> QED
                BY <2>1, <2>2, <2>5, <2>6, <3>1, <3>3, <4>1, <4>2, <4>4 DEF Settled, In, Of
        <3> QED
            BY <3>2, <3>3
    <2> QED
        BY <2>6
<1>5. CASE FileStepFails
    <2>1. /\ op.cur \in Record /\ op.cur.run \in Runs /\ op.cur.host \in Hosts
          /\ UNCHANGED <<marker, mem>>
        BY <1>5, FileStepFailsIs, RecordIs
    <2>2. op'.want \in {op.want, None} /\ op'.cur \in {op.cur, None}
        BY <1>5, FileStepFailsIs, FailsIs, Ends
    <2>3. \A k \in Hosts : k # op.cur.host => hostLock'[k] = hostLock[k]
        BY <2>1, <1>5, FileStepFailsIs DEF Wrote, TypeOK, files
    <2>4. \A q \in Runs : q # op.cur.run => journal'[q] = journal[q] /\ assignment'[q] = assignment[q]
        BY <2>1, <1>5, FileStepFailsIs DEF Wrote, TypeOK, files
    <2>5. \A q \in Runs : sJournal'[q] \in {sJournal[q], journal'[q]}
        BY <1>5, FileStepFailsIs DEF NotSynced, synced
    <2>7. /\ journal'[op.cur.run] \in {journal[op.cur.run], op.cur, None}
          /\ assignment'[op.cur.run] \in {assignment[op.cur.run], op.cur}
          /\ op.cur.state = "quarantined" =>
               hostLock'[op.cur.host] \in {hostLock[op.cur.host], LockOf(op.cur)}
        BY <2>1, <1>5, FileStepFailsIs DEF Wrote, TypeOK, files
    <2>6. ASSUME NEW q \in Runs, Settled(q) PROVE Settled(q)'
        <3>1. /\ assignment[q] # None /\ assignment[q] \in Record
              /\ assignment[q].host \in Hosts /\ Of(hostLock[assignment[q].host], q)
            BY <2>6, RecordIs DEF Settled, In, Of, TypeOK
        <3>2. CASE q # op.cur.run
            <4>1. hostLock'[assignment[q].host] = hostLock[assignment[q].host]
                <5>1. Named(q, assignment[q].host) /\ Named(op.cur.run, op.cur.host)
                    BY <2>1, <3>1 DEF Named, At, Of
                <5> QED
                    BY <2>1, <2>3, <3>1, <3>2, <5>1 DEF Exclusive
            <4> QED
                BY <2>1, <2>2, <2>4, <2>5, <2>6, <3>1, <3>2, <4>1 DEF Settled, In, Of
        <3>3. CASE q = op.cur.run
            <4>1. op.cur.host = assignment[q].host /\ op.cur.state = "quarantined"
                BY <2>1, <2>6, <3>1, <3>3, HomeOf DEF Settled, Of
            <4>2. /\ journal'[q] \in {journal[q], op.cur, None}
                  /\ assignment'[q] \in {assignment[q], op.cur}
                  /\ hostLock'[op.cur.host] \in {hostLock[op.cur.host], LockOf(op.cur)}
                BY <2>1, <2>7, <3>3, <4>1
            <4>3. LockOf(op.cur) # None /\ LockOf(op.cur).run = q
                BY <2>1, <3>3, LockIs
            <4>4. Of(hostLock'[assignment'[q].host], q)
                BY <2>1, <3>1, <4>1, <4>2, <4>3 DEF Of
            <4> QED
                BY <2>1, <2>2, <2>5, <2>6, <3>1, <3>3, <4>1, <4>2, <4>4 DEF Settled, In, Of
        <3> QED
            BY <3>2, <3>3
    <2> QED
        BY <2>6
<1>6. CASE Scan
    BY <1>6, ScanIs DEF Settled, In, Of, TypeOK, Scan, files, synced, hist
<1>7. CASE PickJournal
    <2>1. /\ op.phase = "replay" /\ op.kind # None /\ op.cur = None /\ mode # "down"
          /\ UNCHANGED <<journal, assignment, hostLock, ledger, marker, mem, quar, mode, unread, faults>>
          /\ UNCHANGED <<sJournal, sAssignment, sHostLock, sLedger, acked, doubt>>
        BY <1>7, PickIs DEF PickJournal, Running, files, synced, hist
    <2>2. PICK q \in op.todo :
            /\ q \in Runs /\ journal[q] \in Record /\ journal[q].run = q
            /\ op'.kind = op.kind /\ op'.phase = "replay" /\ op'.want = op.want
            /\ op'.cur = Prepare(journal[q]) /\ op'.at = 1 /\ op'.todo = op.todo \ {q}
            /\ op'.failed = op.failed
        BY <1>7, PickIs
    <2>3. op'.cur \in Record /\ op'.cur.run = q /\ op'.cur.host = journal[q].host
        BY <2>2, PrepareIs
    <2>4. /\ op'.cur \in Possible(q)
          /\ \/ op'.cur = journal[q]
             \/ /\ quar[journal[q].host] = q /\ marker[journal[q].host] = q
                /\ journal[q].state # "completed" /\ op'.cur.state = "quarantined"
        BY <2>2, PreparedIs
    <2> QED
        BY <2>1, <2>2, <2>3, <2>4 DEF Settled, In, Of
<1>8. CASE ReadFails
    BY <1>8, FailsIs, Ends DEF Settled, In, Of, TypeOK, ReadFails, Running, Fault, files,
         synced, hist
<1>9. CASE ReplayDone
    BY <1>9, ReplayedIs, Ends DEF Settled, In, Of, TypeOK, ReplayDone, files, synced, hist
<1>10. CASE CommitReturns
    BY <1>10, VerifyIs, Ends DEF Settled, In, Of, TypeOK, CommitReturns, Ack, Adopt,
         files, synced, KindInv
<1>11. CASE FinishReturns
    BY <1>11, FinishIs, VerifyIs DEF Settled, In, Of, TypeOK, Starts, files, synced,
         KindInv
<1>12. CASE CompleteReturns
    BY <1>12, VerifyIs, Ends DEF Settled, In, Of, TypeOK, CompleteReturns, Ack, files,
         synced, KindInv
<1>13. CASE AssignReturns
    BY <1>13, VerifyIs, Ends DEF Settled, In, Of, TypeOK, AssignReturns, Ack, Adopt,
         files, synced, KindInv
<1>14. CASE AssignFails
    BY <1>14, AssignFailsIs, VerifyIs DEF Settled, In, Of, TypeOK, Starts, KindInv
<1>15. CASE RescueReturns
    BY <1>15, VerifyIs, Ends DEF Settled, In, Of, TypeOK, RescueReturns, Ack, hist, files,
         synced, KindInv
<1>16. CASE CommitFails
    BY <1>16, VerifyIs, Ends DEF Settled, In, Of, TypeOK, CommitFails, hist
<1>17. CASE MarkerReturns
    BY <1>17, VerifyIs, Ends DEF Settled, In, Of, TypeOK, MarkerReturns, Ack, Adopt,
         files, synced, KindInv
<1>18. CASE Start
    BY <1>18 DEF Settled, In, Of, TypeOK, Start, files, synced, hist
<1>19. CASE RecoverJournals
    BY <1>19, RecoverIs, Ends DEF Settled, In, Of, TypeOK, RecoverJournals, files, synced,
         hist, Idle
<1>20. CASE Serve
    BY <1>20, Ends DEF Settled, In, Of, TypeOK, Serve, files, synced, hist, Idle
<1>21. ASSUME NEW h \in Hosts, RecoverMarker(h) PROVE \A q \in Runs : Settled(q) => Settled(q)'
    BY <1>21, MarkerIs, Ends DEF Settled, In, Of, TypeOK, Starts, Idle
<1>22. ASSUME NEW h \in Hosts, LoadLock(h) PROVE \A q \in Runs : Settled(q) => Settled(q)'
    BY <1>22, LoadCases, Ends, LoadIs DEF Settled, In, Of, TypeOK, Starts, files, synced,
         Idle
<1>23. CASE Crash
    BY <1>23, CrashIs, Ends DEF Settled, In, Of, TypeOK, hist, TwinInv
<1> QED
    BY <1>1, <1>2, <1>3, <1>4, <1>5, <1>6, <1>7, <1>8, <1>9, <1>10, <1>11, <1>12, <1>13,
         <1>14, <1>15, <1>16, <1>17, <1>18, <1>19, <1>20, <1>21, <1>22, <1>23 DEF Next,
         Handlers, Transition, Startup, Handle

\* A Commit of a quarantine that succeeds is one.
LEMMA NewQuarantine ==
    ASSUME TypeOK, NamesInv, OpInv, JournalInv, TwinInv, HistoryInv, CoherentInv, ProgressInv,
           Running("verify"), Succeeds, NEW w \in Record, w = op.want, w.state = "quarantined",
           op' = NoOp, UNCHANGED <<journal, sJournal, assignment, hostLock>>,
           mem'[w.run] = w
    PROVE  Quarantined(w.run)' /\ Settled(w.run)'
<1>1. /\ assignment[w.run] = w /\ journal[w.run] = None /\ sJournal[w.run] = None
      /\ hostLock[w.host] = LockOf(w)
    BY DoneIs
<1>2. LockOf(w) # None /\ LockOf(w).run = w.run
    BY LockIs, NoneDiffers
<1> QED
    BY <1>1, <1>2, Ends, NoneDiffers DEF Quarantined, Settled, In, Of

\* A durable quarantine is on disk.
LEMMA AckedStep ==
    ASSUME TypeOK, NamesInv, OpInv, TodoInv, UnreadInv, JournalInv, TwinInv, HistoryInv,
           CoherentInv, HomeInv, Exclusive, KindInv, KnownInv, LevelInv, MarkerInv,
           AckedInv, QuarantineInv, ProgressInv, CustodyInv, ReleaseInv, RepairInv,
           ReplayInv, Reliable, Next
    PROVE  AckedInv'
<1> USE NoneDiffers, SettledStep
<1>1. ASSUME NEW r \in Runs, NEW h \in Hosts, Assign(r, h) PROVE AckedInv'
    BY <1>1, AssignIs, Ends DEF AckedInv, In, Of, TypeOK, Starts, files, synced, Serving, Idle
<1>2. ASSUME NEW r \in Runs, Handle(r) PROVE AckedInv'
    BY <1>2, HandleIs, Ends DEF AckedInv, In, Of, TypeOK, Starts, Handled, Serving, Idle
<1>3. ASSUME NEW r \in Runs, SaveAssignment(r) PROVE AckedInv'
    BY <1>3 DEF AckedInv, In, Of, TypeOK, SaveAssignment, Fault, hist, Idle
<1>4. CASE FileStep
    BY <1>4, FileStepIs DEF AckedInv, In, Of, TypeOK, Wrote
<1>5. CASE FileStepFails
    BY <1>5, FileStepFailsIs, FailsIs, Ends DEF AckedInv, In, Of, TypeOK, Wrote, files
<1>6. CASE Scan
    BY <1>6, ScanIs DEF AckedInv, In, Of, TypeOK, Scan, files, synced, hist
<1>7. CASE PickJournal
    BY <1>7, PickIs, PrepareIs DEF AckedInv, In, Of, TypeOK, PickJournal, files, synced, hist
<1>8. CASE ReadFails
    BY <1>8, FailsIs, Ends DEF AckedInv, In, Of, TypeOK, ReadFails, Running, Fault, files,
         synced, hist
<1>9. CASE ReplayDone
    BY <1>9, ReplayedIs, Ends DEF AckedInv, In, Of, TypeOK, ReplayDone, files, synced, hist
<1>10. CASE CommitReturns
    <2>1. PICK w \in Record : w = op.want /\ w.run \in Runs /\ w.host \in Hosts
        BY <1>10, VerifyIs DEF CommitReturns
    <2>2. /\ acked' = [acked EXCEPT ![w.run] = w] /\ UNCHANGED marker
          /\ op' = NoOp /\ UNCHANGED <<journal, sJournal, assignment, hostLock>>
          /\ mem' = [mem EXCEPT ![w.run] = w]
        BY <1>10, <2>1 DEF CommitReturns, Ack, Adopt, files, synced
    <2>3. mem'[w.run] = w
        BY <1>10, <2>1, <2>2 DEF TypeOK
    <2>4. w.state = "quarantined" => Settled(w.run)'
        BY <1>10, <2>1, <2>2, <2>3, NewQuarantine DEF CommitReturns
    <2> QED
        BY <2>1, <2>2, <2>4, SettledStep DEF AckedInv, In, Of, TypeOK
<1>11. CASE FinishReturns
    BY <1>11, FinishIs, VerifyIs DEF AckedInv, In, Of, TypeOK, Starts, files, synced, KindInv
<1>12. CASE CompleteReturns
    BY <1>12, VerifyIs, Ends DEF AckedInv, In, Of, TypeOK, CompleteReturns, Ack, files,
         synced, KindInv
<1>13. CASE AssignReturns
    BY <1>13, VerifyIs, Ends DEF AckedInv, In, Of, TypeOK, AssignReturns, Ack, Adopt, files,
         synced, KindInv
<1>14. CASE AssignFails
    BY <1>14, AssignFailsIs, VerifyIs DEF AckedInv, In, Of, TypeOK, Starts
<1>15. CASE RescueReturns
    <2>1. CASE ~Succeeds
        BY <2>1, <1>15, SettledStep DEF RescueReturns, AckedInv, In, Of, hist
    <2>2. CASE Succeeds
        <3>1. PICK w \in Record : w = op.want /\ w.run \in Runs /\ w.host \in Hosts
            BY <1>15, VerifyIs DEF RescueReturns
        <3>2. w.state = "quarantined" /\ mem[w.run] = w
            BY <1>15, <3>1 DEF RescueReturns, KindInv
        <3>3. /\ acked' = [acked EXCEPT ![w.run] = w]
              /\ op' = NoOp /\ UNCHANGED <<journal, sJournal, assignment, hostLock, mem>>
            BY <1>15, <2>2, <3>1 DEF RescueReturns, Ack, files, synced
        <3>6. Settled(w.run)'
            BY <1>15, <2>2, <3>1, <3>2, <3>3, NewQuarantine DEF RescueReturns
        <3> QED
            BY <3>1, <3>3, <3>6, SettledStep DEF AckedInv, In, Of, TypeOK
    <2> QED
        BY <2>1, <2>2
<1>16. CASE CommitFails
    BY <1>16, VerifyIs, Ends DEF AckedInv, In, Of, TypeOK, CommitFails, hist
<1>17. CASE MarkerReturns
    <2>1. PICK w \in Record : w = op.want /\ w.run \in Runs /\ w.host \in Hosts
        BY <1>17, VerifyIs DEF MarkerReturns
    <2>2. w.state = "quarantined"
        BY <1>17, <2>1 DEF MarkerReturns, KindInv
    <2>3. /\ acked' = [acked EXCEPT ![w.run] = w]
          /\ op' = NoOp /\ UNCHANGED <<journal, sJournal, assignment, hostLock>>
          /\ mem' = [mem EXCEPT ![w.run] = w]
        BY <1>17, <2>1 DEF MarkerReturns, Ack, Adopt, files, synced
    <2>5. mem'[w.run] = w
        BY <2>1, <2>3 DEF TypeOK
    <2>6. Settled(w.run)'
        BY <1>17, <2>1, <2>2, <2>3, <2>5, NewQuarantine DEF MarkerReturns
    <2> QED
        BY <2>1, <2>3, <2>6, SettledStep DEF AckedInv, In, Of, TypeOK
<1>18. CASE Start
    BY <1>18 DEF AckedInv, In, Of, TypeOK, Start, files, synced, hist
<1>19. CASE RecoverJournals
    BY <1>19, RecoverIs, Ends DEF AckedInv, In, Of, TypeOK, RecoverJournals, files, synced,
         hist, Idle
<1>20. CASE Serve
    BY <1>20, Ends DEF AckedInv, In, Of, TypeOK, Serve, files, synced, hist, Idle
<1>21. ASSUME NEW h \in Hosts, RecoverMarker(h) PROVE AckedInv'
    BY <1>21, MarkerIs, Ends DEF AckedInv, In, Of, TypeOK, Starts, Idle
<1>22. ASSUME NEW h \in Hosts, LoadLock(h) PROVE AckedInv'
    BY <1>22, LoadCases, Ends DEF AckedInv, In, Of, TypeOK, Starts, files, synced, Idle
<1>23. CASE Crash
    BY <1>23, CrashIs, Ends DEF AckedInv, In, Of, TypeOK, hist, TwinInv
<1> QED
    BY <1>1, <1>2, <1>3, <1>4, <1>5, <1>6, <1>7, <1>8, <1>9, <1>10, <1>11, <1>12, <1>13,
         <1>14, <1>15, <1>16, <1>17, <1>18, <1>19, <1>20, <1>21, <1>22, <1>23 DEF Next,
         Handlers, Transition, Startup, Handle

\* An Agent is quarantined for a Run with a quarantine on disk or a marker.
LEMMA QuarantineStep ==
    ASSUME TypeOK, NamesInv, OpInv, TodoInv, UnreadInv, JournalInv, TwinInv, HistoryInv,
           CoherentInv, HomeInv, Exclusive, KindInv, KnownInv, LevelInv, MarkerInv,
           AckedInv, QuarantineInv, ProgressInv, CustodyInv, ReleaseInv, RepairInv,
           ReplayInv, Reliable, Next
    PROVE  QuarantineInv'
<1> USE NoneDiffers, QuarantinedStep, Handed
<1>1. ASSUME NEW r \in Runs, NEW h \in Hosts, Assign(r, h) PROVE QuarantineInv'
    <2>1. PICK rec \in Record : rec.run = r /\ op'.want = rec /\ op'.cur = rec /\ doubt' = [doubt EXCEPT ![r] = doubt[r] \cup {rec}]
        BY <1>1, AssignIs DEF Starts
    <2>2. /\ quar[h] = None /\ UNCHANGED <<quar, ledger>> /\ marker' = [marker EXCEPT ![h] = r] /\ doubt[r] = {}
        BY <1>1 DEF Assign, Begin, files
    <2>3. ASSUME NEW k \in Hosts, NEW q \in Runs, Marked(q, k), quar[k] = q PROVE Marked(q, k)'
        <3>1. q # r
            BY <2>2, <2>3 DEF Marked
        <3>2. k # h
            BY <2>2, <2>3
        <3> QED
            BY <2>1, <2>2, <2>3, <3>1, <3>2 DEF Marked, Of, TypeOK
    <2> QED
        BY <2>2, <2>3, QuarantinedStep DEF QuarantineInv, Kept
<1>2. ASSUME NEW r \in Runs, Handle(r) PROVE QuarantineInv'
    <2>1. PICK kind \in Kinds, rec \in Record :
            /\ rec.run = r /\ op'.want = rec /\ op'.cur = rec /\ doubt' = [doubt EXCEPT ![r] = doubt[r] \cup {rec}]
            /\ mem[r].state # "quarantined"
            /\ \A q \in Runs : q # r => ledger'[q] = ledger[q]
        BY <1>2, HandleIs DEF Starts, Handled, TypeOK
    <2>2. mem[r] \in Record /\ mem[r].run = r /\ UNCHANGED <<quar, marker>>
        BY <1>2, HandleIs
    <2>3. ASSUME NEW k \in Hosts, NEW q \in Runs, Marked(q, k), quar[k] = q PROVE Marked(q, k)'
        <3>1. q # r
            BY <2>1, <2>2, <2>3 DEF Marked, MarkerInv, Of
        <3> QED
            BY <2>1, <2>2, <2>3, <3>1 DEF Marked, Of, TypeOK
    <2> QED
        BY <2>2, <2>3, QuarantinedStep DEF QuarantineInv, Kept
<1>3. ASSUME NEW r \in Runs, SaveAssignment(r) PROVE QuarantineInv'
    BY <1>3 DEF QuarantineInv, Kept, Marked, In, Of, TypeOK, SaveAssignment, Fault, hist, Idle
<1>4. CASE FileStep
    <2>1. /\ op.cur \in Record /\ op.cur.run \in Runs /\ UNCHANGED <<marker, quar, doubt>>
        BY <1>4, FileStepIs, RecordIs
    <2>2. op'.want \in {op.want, None} /\ op'.cur \in {op.cur, None}
        BY <1>4, FileStepIs
    <2>3. \A q \in Runs : ledger'[q] = ledger[q] \/ (q = op.cur.run /\ ledger'[q] = op.cur.ledger)
        BY <2>1, <1>4, FileStepIs DEF Wrote, TypeOK
    <2>4. op.cur.ledger = LedgerOf(op.cur.state)
        BY <2>1 DEF HistoryInv, Of, CoherentInv
    <2>5. ASSUME NEW k \in Hosts, NEW q \in Runs, Marked(q, k), quar[k] = q PROVE Marked(q, k)'
        BY <2>1, <2>2, <2>3, <2>4, <2>5 DEF Marked, Of, LedgerOf
    <2> QED
        BY <2>1, <2>5, QuarantinedStep DEF QuarantineInv, Kept
<1>5. CASE FileStepFails
    <2>1. /\ op.cur \in Record /\ op.cur.run \in Runs /\ UNCHANGED <<marker, quar, doubt>>
        BY <1>5, FileStepFailsIs, RecordIs
    <2>2. op'.want \in {op.want, None} /\ op'.cur \in {op.cur, None}
        BY <1>5, FileStepFailsIs, FailsIs, Ends
    <2>3. \A q \in Runs : ledger'[q] = ledger[q] \/ (q = op.cur.run /\ ledger'[q] = op.cur.ledger)
        BY <2>1, <1>5, FileStepFailsIs DEF Wrote, TypeOK, files
    <2>4. op.cur.ledger = LedgerOf(op.cur.state)
        BY <2>1 DEF HistoryInv, Of, CoherentInv
    <2>5. ASSUME NEW k \in Hosts, NEW q \in Runs, Marked(q, k), quar[k] = q PROVE Marked(q, k)'
        BY <2>1, <2>2, <2>3, <2>4, <2>5 DEF Marked, Of, LedgerOf
    <2> QED
        BY <2>1, <2>5, QuarantinedStep DEF QuarantineInv, Kept
<1>6. CASE Scan
    BY <1>6, ScanIs DEF QuarantineInv, Kept, Marked, In, Of, TypeOK, Scan, files, synced, hist
<1>7. CASE PickJournal
    <2>1. /\ op.phase = "replay" /\ op.kind # None /\ op.cur = None /\ mode # "down"
          /\ UNCHANGED <<journal, assignment, hostLock, ledger, marker, mem, quar, mode, unread, faults>>
          /\ UNCHANGED <<sJournal, sAssignment, sHostLock, sLedger, acked, doubt>>
        BY <1>7, PickIs DEF PickJournal, Running, files, synced, hist
    <2>2. PICK q \in op.todo :
            /\ q \in Runs /\ journal[q] \in Record /\ journal[q].run = q
            /\ op'.kind = op.kind /\ op'.phase = "replay" /\ op'.want = op.want
            /\ op'.cur = Prepare(journal[q]) /\ op'.at = 1 /\ op'.todo = op.todo \ {q}
            /\ op'.failed = op.failed
        BY <1>7, PickIs
    <2>3. op'.cur \in Record /\ op'.cur.run = q /\ op'.cur.host = journal[q].host
        BY <2>2, PrepareIs
    <2>4. /\ op'.cur \in Possible(q)
          /\ \/ op'.cur = journal[q]
             \/ /\ quar[journal[q].host] = q /\ marker[journal[q].host] = q
                /\ journal[q].state # "completed" /\ op'.cur.state = "quarantined"
        BY <2>2, PreparedIs
    <2>5. ASSUME NEW h \in Hosts, NEW r \in Runs, Marked(r, h), quar[h] = r PROVE Marked(r, h)'
        <3>1. CASE r = q
            <4>1. journal[q].host = h
                BY <2>2, <2>5, <3>1, HomeOf
            <4>2. op'.cur.state = "quarantined"
                BY <2>2, <2>5, <3>1, <4>1, PrepareIs DEF MarkerInv, Marked, Early, Of
            <4> QED
                BY <2>1, <2>2, <2>5, <4>2 DEF Marked, Of
        <3>2. CASE r # q
            BY <2>1, <2>2, <2>3, <2>5, <3>2 DEF Marked, Of
        <3> QED
            BY <3>1, <3>2
    <2> QED
        BY <2>1, <2>5, QuarantinedStep DEF QuarantineInv, Kept
<1>8. CASE ReadFails
    BY <1>8, FailsIs, Ends DEF QuarantineInv, Kept, Marked, In, Of, TypeOK, ReadFails, Running,
         Fault, files, synced, hist
<1>9. CASE ReplayDone
    BY <1>9, ReplayedIs, Ends DEF QuarantineInv, Kept, Marked, In, Of, TypeOK, ReplayDone, files,
         synced, hist
<1>10. CASE CommitReturns
    <2>1. PICK w \in Record : w = op.want /\ w.run \in Runs /\ w.host \in Hosts
        BY <1>10, VerifyIs DEF CommitReturns
    <2>2. /\ acked' = [acked EXCEPT ![w.run] = w] /\ doubt' = [doubt EXCEPT ![w.run] = {}]
          /\ op' = NoOp /\ UNCHANGED <<ledger, marker>>
          /\ quar' = IF w.state = "quarantined" THEN [quar EXCEPT ![w.host] = w.run] ELSE quar
        BY <1>10, <2>1 DEF CommitReturns, Ack, Adopt, files, synced
    <2>3. w.state = "quarantined" => Quarantined(w.run)'
        BY <1>10, <2>1, <2>2, NewQuarantine DEF CommitReturns, Adopt, files, synced, TypeOK
    <2>4. \A h \in Hosts : marker[h] # w.run
        BY <1>10, <2>1 DEF CommitReturns, KindInv, In, MarkerInv
    <2>5. ASSUME NEW k \in Hosts, NEW q \in Runs, Marked(q, k), quar[k] = q PROVE Marked(q, k)'
        BY <2>1, <2>2, <2>4, <2>5, Ends DEF Marked, Of, TypeOK
    <2> QED
        BY <2>1, <2>2, <2>3, <2>5, QuarantinedStep DEF QuarantineInv, Kept, TypeOK
<1>11. CASE FinishReturns
    BY <1>11, FinishIs, VerifyIs DEF QuarantineInv, Kept, Marked, In, Of, TypeOK, Starts, files,
         synced, KindInv
<1>12. CASE CompleteReturns
    BY <1>12, VerifyIs, Ends DEF QuarantineInv, Kept, Marked, In, Of, TypeOK, CompleteReturns, Ack,
         files, synced, KindInv
<1>13. CASE AssignReturns
    BY <1>13, VerifyIs, Ends DEF QuarantineInv, Kept, Marked, In, Of, TypeOK, AssignReturns, Ack,
         Adopt, files, synced, KindInv
<1>14. CASE AssignFails
    <2>1. PICK rec \in Record :
            /\ rec.run = op.want.run /\ rec.host = op.want.host /\ rec.bound = op.want.bound
            /\ rec.state = "quarantined" /\ Starts("rescue", rec)
            /\ quar' = [quar EXCEPT ![rec.host] = rec.run]
            /\ ledger' = [ledger EXCEPT ![rec.run] = "terminal"]
            /\ doubt' = [doubt EXCEPT ![rec.run] = doubt[rec.run] \cup {rec}]
        BY <1>14, AssignFailsIs
    <2>2. /\ op.want \in Record /\ rec.run \in Runs /\ rec.host \in Hosts /\ UNCHANGED marker
          /\ marker[rec.host] = rec.run /\ ~rec.bound
        BY <1>14, <2>1, AssignFailsIs, VerifyIs DEF KindInv
    <2>3. Marked(rec.run, rec.host)'
        BY <2>1, <2>2 DEF Marked, Of, Starts, TypeOK
    <2>4. ASSUME NEW k \in Hosts, NEW q \in Runs, Marked(q, k), quar[k] = q PROVE Marked(q, k)'
        BY <2>1, <2>2, <2>4 DEF Marked, Of, Starts, TypeOK
    <2> QED
        BY <2>1, <2>2, <2>3, <2>4, QuarantinedStep DEF QuarantineInv, Kept, TypeOK
<1>15. CASE RescueReturns
    <2>1. CASE ~Succeeds
        <3>1. UNCHANGED <<quar, marker, doubt, ledger>> /\ op' = NoOp
            BY <2>1, <1>15 DEF RescueReturns, hist, files
        <3> QED
            BY <3>1, QuarantinedStep, Ends DEF QuarantineInv, Kept, Marked, Of
    <2>2. CASE Succeeds
        <3>1. PICK w \in Record : w = op.want /\ w.run \in Runs /\ w.host \in Hosts
            BY <1>15, VerifyIs DEF RescueReturns
        <3>2. /\ acked' = [acked EXCEPT ![w.run] = w] /\ doubt' = [doubt EXCEPT ![w.run] = {}]
              /\ op' = NoOp /\ UNCHANGED <<ledger, quar>>
              /\ marker' \in {marker, [marker EXCEPT ![w.host] = None]}
            BY <1>15, <2>2, <3>1, EndedIs DEF RescueReturns, Ack, Adopt, files, synced
        <3>3. w.state = "quarantined" /\ marker[w.host] = w.run
            BY <1>15, <3>1 DEF RescueReturns, KindInv
        <3>4. Quarantined(w.run)'
            <4>1. mem'[w.run] = w
                BY <1>15, <3>1 DEF RescueReturns, KindInv
            <4> QED
                BY <1>15, <2>2, <3>1, <3>2, <3>3, <4>1, EndedIs, NewQuarantine DEF RescueReturns
        <3>5. ASSUME NEW k \in Hosts, NEW q \in Runs, q # w.run, Marked(q, k), quar[k] = q PROVE Marked(q, k)'
            BY <3>1, <3>2, <3>3, <3>5, Ends DEF Marked, Of, TypeOK
        <3> QED
            BY <3>2, <3>4, <3>5, QuarantinedStep DEF QuarantineInv, Kept
    <2> QED
        BY <2>1, <2>2
<1>16. CASE CommitFails
    <2>1. /\ op.want \in Record /\ op.want.run \in Runs /\ op' = NoOp /\ UNCHANGED <<quar, marker, doubt>>
        BY <1>16, VerifyIs DEF CommitFails, hist
    <2>2. \A q \in Runs : ledger'[q] = ledger[q] \/ (q = op.want.run /\ op.want.state = "finishing")
        BY <1>16, <2>1 DEF CommitFails, KindInv, TypeOK
    <2>3. ASSUME NEW k \in Hosts, NEW q \in Runs, Marked(q, k), quar[k] = q PROVE Marked(q, k)'
        BY <2>1, <2>2, <2>3, Ends DEF Marked, Of
    <2> QED
        BY <2>1, <2>3, QuarantinedStep DEF QuarantineInv, Kept
<1>17. CASE MarkerReturns
    <2>1. PICK w \in Record : w = op.want /\ w.run \in Runs /\ w.host \in Hosts
        BY <1>17, VerifyIs DEF MarkerReturns
    <2>2. /\ acked' = [acked EXCEPT ![w.run] = w] /\ doubt' = [doubt EXCEPT ![w.run] = {}]
          /\ op' = NoOp /\ UNCHANGED <<ledger, quar>>
          /\ marker' \in {marker, [marker EXCEPT ![w.host] = None]}
        BY <1>17, <2>1, EndedIs DEF MarkerReturns, Ack, Adopt, files, synced
    <2>3. w.state = "quarantined" /\ marker[w.host] = w.run
        BY <1>17, <2>1 DEF MarkerReturns, KindInv
    <2>4. Quarantined(w.run)'
        <3>1. mem'[w.run] = w
            BY <1>17, <2>1 DEF MarkerReturns, Adopt, TypeOK
        <3> QED
            BY <1>17, <2>1, <2>2, <2>3, <3>1, EndedIs, NewQuarantine DEF MarkerReturns
    <2>5. ASSUME NEW k \in Hosts, NEW q \in Runs, q # w.run, Marked(q, k), quar[k] = q PROVE Marked(q, k)'
        BY <2>1, <2>2, <2>3, <2>5, Ends DEF Marked, Of, TypeOK
    <2> QED
        BY <2>2, <2>4, <2>5, QuarantinedStep DEF QuarantineInv, Kept
<1>18. CASE Start
    BY <1>18 DEF QuarantineInv, Kept, Marked, In, Of, TypeOK, Start, files, synced, hist
<1>19. CASE RecoverJournals
    BY <1>19, RecoverIs, Ends DEF QuarantineInv, Kept, Marked, In, Of, TypeOK, RecoverJournals,
         files, synced, hist, Idle
<1>20. CASE Serve
    BY <1>20, Ends DEF QuarantineInv, Kept, Marked, In, Of, TypeOK, Serve, files, synced, hist, Idle
<1>21. ASSUME NEW h \in Hosts, RecoverMarker(h) PROVE QuarantineInv'
    BY <1>21, MarkerIs, Ends DEF QuarantineInv, Kept, Marked, In, Of, TypeOK, Starts, Idle
<1>22. ASSUME NEW h \in Hosts, LoadLock(h) PROVE QuarantineInv'
    <2>1. /\ mode = "load" /\ op = NoOp /\ h \in unread /\ hostLock[h] # None
          /\ UNCHANGED <<hostLock, marker, journal, sJournal, assignment, ledger>>
          /\ \A k \in Hosts : marker[k] = None
        BY <1>22, LoadCases DEF files, synced, OpInv, UnreadInv, KnownInv
    <2>2. PICK q \in Runs : q = hostLock[h].run
        BY <1>22, LoadIs
    <2>3. \A k \in Hosts, r \in Runs : quar[k] = r => Quarantined(r)
        BY <2>1 DEF QuarantineInv, Kept, Marked
    <2>4. CASE UNCHANGED quar
        BY <2>3, <2>4, QuarantinedStep DEF QuarantineInv, Kept
    <2>5. CASE quar' # quar
        <3>1. PICK rec \in Record :
                /\ LockMatches(h) /\ UNCHANGED op /\ assignment[q].state = "quarantined" /\ rec.run = q
                /\ IF quar[h] = q THEN rec.state = "quarantined" ELSE rec = assignment[q]
                /\ mem' = [mem EXCEPT ![q] = rec] /\ quar' = [quar EXCEPT ![h] = q]
            BY <2>2, <2>5, <1>22, LoadCases
        <3>2. assignment[q] \in Record /\ assignment[q].run = q /\ assignment[q].host = h
            BY <2>2, <3>1, <1>22, LoadIs
        <3>3. journal[q] = None /\ sJournal[q] = None
            BY <2>1, Ends DEF UnreadInv, TwinInv, Of
        <3>4. mem'[q].state = "quarantined"
            BY <3>1 DEF TypeOK
        <3>5. Quarantined(q)'
            BY <2>1, <2>2, <3>1, <3>2, <3>3, <3>4, Ends DEF Quarantined, In, Of
        <3> QED
            BY <2>3, <3>1, <3>5, QuarantinedStep DEF QuarantineInv, Kept, TypeOK
    <2> QED
        BY <2>4, <2>5
<1>23. CASE Crash
    BY <1>23, CrashIs, Ends DEF QuarantineInv, Kept, Marked, In, Of, TypeOK, hist, TwinInv
<1> QED
    BY <1>1, <1>2, <1>3, <1>4, <1>5, <1>6, <1>7, <1>8, <1>9, <1>10, <1>11, <1>12, <1>13,
         <1>14, <1>15, <1>16, <1>17, <1>18, <1>19, <1>20, <1>21, <1>22, <1>23 DEF Next,
         Handlers, Transition, Startup, Handle

\* What the operation in flight has written stays until it ends.
LEMMA ProgressStep ==
    ASSUME TypeOK, NamesInv, OpInv, TodoInv, UnreadInv, JournalInv, TwinInv, HistoryInv,
           CoherentInv, HomeInv, Exclusive, KindInv, KnownInv, LevelInv, MarkerInv,
           AckedInv, QuarantineInv, ProgressInv, CustodyInv, ReleaseInv, RepairInv,
           ReplayInv, Reliable, Next
    PROVE  ProgressInv'
<1> USE NoneDiffers
<1>1. ASSUME NEW r \in Runs, NEW h \in Hosts, Assign(r, h) PROVE ProgressInv'
    BY <1>1, AssignIs, Ends DEF ProgressInv, OpInv, TypeOK, Starts, files, synced, Serving,
         Idle
<1>2. ASSUME NEW r \in Runs, Handle(r) PROVE ProgressInv'
    BY <1>2, HandleIs, Ends DEF ProgressInv, OpInv, TypeOK, Starts, Handled, Serving, Idle
<1>3. ASSUME NEW r \in Runs, SaveAssignment(r) PROVE ProgressInv'
    <2>1. /\ UNCHANGED <<journal, hostLock, ledger, op>> /\ mem[r] # None /\ mem[r].state = "confirmed"
          /\ mode = "serving" /\ (op.kind # None => op.want.run # r)
          /\ assignment' \in {assignment, [assignment EXCEPT ![r] = mem[r]]}
          /\ faults' \in {faults, faults + 1}
        BY <1>3 DEF SaveAssignment, Fault, Idle
    <2>2. mem[r] \in Record /\ mem[r].run = r /\ In(mem[r], r, Live)
        BY <2>1 DEF TypeOK, NamesInv, Mine, In, Of, Live
    <2>3. faults' \in 0..1 => faults \in 0..1
        BY <2>1, FaultAssumption DEF TypeOK
    <2>4. CASE op.cur = None \/ op.cur.run # r
        BY <2>1, <2>3, <2>4, Handed DEF ProgressInv, TypeOK
    <2>5. CASE op.cur # None /\ op.cur.run = r
        <3>1. /\ op.cur \in Record /\ op.kind # None /\ op.phase = "replay" /\ op.at \in 1..5
            BY <2>1, <2>5, Handed, Ends DEF OpInv, Idle, Phases
        <3>2. op.cur.state # "completed"
            BY <2>2, <2>5 DEF LevelInv, Ending, Going, In, Of
        <3>3. CASE faults \notin 0..1
            BY <2>1, <2>3, <3>1, <3>2, <3>3 DEF ProgressInv
        <3>4. CASE faults \in 0..1 /\ op.at \in 4..5
            <4>1. journal[r] = None
                BY <2>1, <2>2, <3>1, <3>4, Handed DEF RepairInv, MemoryAgrees, NamesInv, Mine, Of
            <4>2. hostLock[mem[r].host] = LockOf(mem[r])
                BY <2>1, <2>2, <3>1, <3>4, <4>1 DEF RepairInv, MemoryAgrees, Of
            <4>3. hostLock[op.cur.host] = LockOf(op.cur)
                BY <3>1, <3>2, <3>4 DEF ProgressInv
            <4>4. op.cur \in Possible(r) /\ mem[r] \in Possible(r)
                BY <2>2, <2>5, <3>1 DEF HistoryInv, Of
            <4>5. op.cur.host = mem[r].host
                BY <2>2, <3>1, <4>4 DEF HomeInv
            <4>6. LockOf(op.cur) = LockOf(mem[r])
                BY <4>2, <4>3, <4>5
            <4>7. op.cur.state = mem[r].state /\ op.cur.bound = mem[r].bound
                BY <2>2, <3>1, <4>6, LockIs
            <4>8. op.cur.ledger = mem[r].ledger
                BY <2>2, <3>1, <4>4, <4>7 DEF CoherentInv
            <4>9. op.cur = mem[r]
                BY <2>2, <2>5, <3>1, <4>5, <4>7, <4>8, SameRecord
            <4> QED
                BY <2>1, <2>5, <3>1, <3>2, <3>4, <4>9 DEF ProgressInv, TypeOK
        <3>5. CASE op.at \in 1..3
            BY <2>1, <3>1, <3>2, <3>5 DEF ProgressInv
        <3> QED
            BY <3>1, <3>3, <3>4, <3>5
    <2> QED
        BY <2>4, <2>5
<1>4. CASE FileStep
    <2>1. /\ op.cur \in Record /\ op.cur.run \in Runs /\ op.cur.host \in Hosts /\ op.at \in 0..5
          /\ op.phase \in {"persist", "replay"} /\ UNCHANGED faults
        BY <1>4, FileStepIs, RecordIs
    <2>2. op.cur.ledger = LedgerOf(op.cur.state)
        BY <2>1 DEF HistoryInv, Of, CoherentInv
    <2>3. CASE op.at = 5
        BY <2>1, <2>3, <1>4, FileStepIs DEF Wrote, ProgressInv
    <2>4. CASE op.at < 5 /\ op.cur.state = "completed"
        BY <2>1, <2>2, <2>4, <1>4, FileStepIs DEF Wrote, ProgressInv, LedgerOf, TypeOK
    <2>5. CASE op.at < 5 /\ op.cur.state # "completed"
        BY <2>1, <2>5, <1>4, FileStepIs DEF Wrote, ProgressInv, TypeOK
    <2> QED
        BY <2>1, <2>3, <2>4, <2>5
<1>5. CASE FileStepFails
    BY <1>5, FileStepFailsIs, FailsIs, Ends DEF ProgressInv, OpInv, TypeOK, Wrote, files
<1>6. CASE Scan
    BY <1>6, ScanIs DEF ProgressInv, OpInv, TypeOK, Scan, files, synced, hist
<1>7. CASE PickJournal
    <2>1. op'.at = 1
        BY <1>7, PickIs
    <2> QED
        BY <2>1 DEF ProgressInv
<1>8. CASE ReadFails
    BY <1>8, FailsIs, Ends DEF ProgressInv, OpInv, TypeOK, ReadFails, Running, Fault, files,
         synced, hist
<1>9. CASE ReplayDone
    BY <1>9, ReplayedIs, Ends DEF ProgressInv, OpInv, TypeOK, ReplayDone, files, synced, hist
<1>10. CASE CommitReturns
    BY <1>10, VerifyIs, Ends DEF ProgressInv, OpInv, TypeOK, CommitReturns, Ack, Adopt, files,
         synced
<1>11. CASE FinishReturns
    BY <1>11, FinishIs, VerifyIs DEF ProgressInv, OpInv, TypeOK, Starts, files, synced
<1>12. CASE CompleteReturns
    BY <1>12, VerifyIs, Ends DEF ProgressInv, OpInv, TypeOK, CompleteReturns, Ack, files,
         synced
<1>13. CASE AssignReturns
    BY <1>13, VerifyIs, Ends DEF ProgressInv, OpInv, TypeOK, AssignReturns, Ack, Adopt, files,
         synced
<1>14. CASE AssignFails
    BY <1>14, AssignFailsIs, VerifyIs DEF ProgressInv, OpInv, TypeOK, Starts
<1>15. CASE RescueReturns
    BY <1>15, VerifyIs, Ends DEF ProgressInv, OpInv, TypeOK, RescueReturns, Ack, hist, files,
         synced
<1>16. CASE CommitFails
    BY <1>16, VerifyIs, Ends DEF ProgressInv, OpInv, TypeOK, CommitFails, hist
<1>17. CASE MarkerReturns
    BY <1>17, VerifyIs, Ends DEF ProgressInv, OpInv, TypeOK, MarkerReturns, Ack, Adopt, files,
         synced
<1>18. CASE Start
    BY <1>18 DEF ProgressInv, OpInv, TypeOK, Start, files, synced, hist
<1>19. CASE RecoverJournals
    BY <1>19, RecoverIs, Ends DEF ProgressInv, OpInv, TypeOK, RecoverJournals, files, synced,
         hist, Idle
<1>20. CASE Serve
    BY <1>20, Ends DEF ProgressInv, OpInv, TypeOK, Serve, files, synced, hist, Idle
<1>21. ASSUME NEW h \in Hosts, RecoverMarker(h) PROVE ProgressInv'
    BY <1>21, MarkerIs, Ends DEF ProgressInv, OpInv, TypeOK, Starts, Idle
<1>22. ASSUME NEW h \in Hosts, LoadLock(h) PROVE ProgressInv'
    BY <1>22, LoadCases, Ends DEF ProgressInv, OpInv, TypeOK, Starts, files, synced, Idle
<1>23. CASE Crash
    BY <1>23, CrashIs, Ends DEF ProgressInv, OpInv, TypeOK, hist
<1> QED
    BY <1>1, <1>2, <1>3, <1>4, <1>5, <1>6, <1>7, <1>8, <1>9, <1>10, <1>11, <1>12, <1>13,
         <1>14, <1>15, <1>16, <1>17, <1>18, <1>19, <1>20, <1>21, <1>22, <1>23 DEF Next,
         Handlers, Transition, Startup, Handle

\* A Run given to an Agent keeps the Host Lock.
LEMMA CustodyStep ==
    ASSUME TypeOK, NamesInv, OpInv, TodoInv, UnreadInv, JournalInv, TwinInv, HistoryInv,
           CoherentInv, HomeInv, Exclusive, KindInv, KnownInv, LevelInv, MarkerInv,
           AckedInv, QuarantineInv, ProgressInv, CustodyInv, ReleaseInv, RepairInv,
           ReplayInv, Reliable, Next
    PROVE  CustodyInv'
<1> USE NoneDiffers, Handed
<1>1. ASSUME NEW r \in Runs, NEW h \in Hosts, Assign(r, h) PROVE CustodyInv'
    BY <1>1, AssignIs, Ends DEF CustodyInv, Ending, In, Of, Live, TypeOK, Starts, files,
         synced, Serving, Idle
<1>2. ASSUME NEW r \in Runs, Handle(r) PROVE CustodyInv'
    BY <1>2, HandleIs, Ends DEF CustodyInv, Ending, In, Of, Live, TypeOK, Starts, Handled,
         Serving, Idle
<1>3. ASSUME NEW r \in Runs, SaveAssignment(r) PROVE CustodyInv'
    BY <1>3 DEF CustodyInv, Ending, In, Of, Live, TypeOK, SaveAssignment, Fault, hist, Idle,
         NamesInv, Mine
<1>4. CASE FileStep
    <2>1. /\ op.cur \in Record /\ op.cur.run \in Runs /\ op.cur.host \in Hosts
          /\ UNCHANGED mem
        BY <1>4, FileStepIs, RecordIs
    <2>2. op'.want \in {op.want, None} /\ op'.cur \in {op.cur, None}
        BY <1>4, FileStepIs
    <2>3. \A k \in Hosts : \/ hostLock'[k] = hostLock[k]
                           \/ k = op.cur.host /\ op.at = 2 /\ hostLock'[k] = LockOf(op.cur)
                           \/ k = op.cur.host /\ op.at = 3 /\ op.cur.state = "completed"
        BY <2>1, <1>4, FileStepIs DEF Wrote, TypeOK
    <2>4. \A q \in Runs : ledger'[q] = ledger[q] \/ (q = op.cur.run /\ ledger'[q] = op.cur.ledger)
        BY <2>1, <1>4, FileStepIs DEF Wrote, TypeOK
    <2>5. /\ \A q \in Runs : journal'[q] \in {journal[q], None} \/ (q = op.cur.run /\ journal'[q] = op.cur)
          /\ \A q \in Runs : assignment'[q] = assignment[q] \/ (q = op.cur.run /\ assignment'[q] = op.cur)
        BY <2>1, <1>4, FileStepIs DEF Wrote, TypeOK
    <2>6. \A q \in Runs : sJournal'[q] \in {sJournal[q], journal'[q]}
        BY <1>4, FileStepIs DEF FileStep, Synced, NotSynced, synced
    <2>7. op.cur.ledger = LedgerOf(op.cur.state)
        BY <2>1 DEF HistoryInv, Of, CoherentInv
    <2>8. \A q \in Runs : Ending(q)' => Ending(q)
        BY <2>1, <2>2, <2>5, <2>6 DEF Ending, In, Of
    <2>9. ASSUME NEW q \in Runs, NEW k \in Hosts, Of(hostLock[k], q)
          PROVE  Of(hostLock'[k], q) \/ (op.at = 3 /\ op.cur.state = "completed" /\ q = op.cur.run)
        <3>1. CASE k = op.cur.host
            <4>1. Named(q, k) /\ Named(op.cur.run, k)
                BY <2>1, <2>9, <3>1 DEF Named, At, Of
            <4>2. q = op.cur.run
                BY <2>1, <4>1 DEF Exclusive
            <4> QED
                BY <2>1, <2>3, <2>9, <4>2, LockIs DEF Of
        <3>2. CASE k # op.cur.host
            BY <2>3, <2>9, <3>2
        <3> QED
            BY <3>1, <3>2
    <2>10. ASSUME NEW q \in Runs, In(mem[q], q, Live) PROVE Of(hostLock'[mem[q].host], q)
        <3>1. mem[q].host \in Hosts /\ Of(hostLock[mem[q].host], q)
            BY <2>10, RecordIs DEF CustodyInv, In, Of, TypeOK
        <3>2. ~(op.cur.state = "completed" /\ q = op.cur.run)
            BY <2>1, <2>10 DEF LevelInv, Ending, Going, In, Of
        <3> QED
            BY <2>9, <3>1, <3>2
    <2>11. ASSUME NEW q \in Runs, Ending(q)
           PROVE  (\E k \in Hosts : Of(hostLock'[k], q)) \/ ledger'[q] = "terminal"
        <3>1. ledger[q] = "terminal" => ledger'[q] = "terminal"
            <4>1. q = op.cur.run => op.cur.state \notin Live
                BY <2>1, <2>11 DEF LevelInv, Going, In, Of
            <4> QED
                BY <2>4, <2>7, <4>1 DEF LedgerOf, Live
        <3>2. ASSUME NEW k \in Hosts, Of(hostLock[k], q), ~Of(hostLock'[k], q) PROVE ledger'[q] = "terminal"
            <4>1. op.at = 3 /\ op.cur.state = "completed" /\ q = op.cur.run
                BY <2>9, <3>2
            <4>2. ledger[q] = "terminal"
                BY <2>1, <4>1 DEF ProgressInv
            <4> QED
                BY <3>1, <4>2
        <3> QED
            BY <2>11, <3>1, <3>2 DEF CustodyInv
    <2> QED
        BY <2>1, <2>8, <2>10, <2>11 DEF CustodyInv
<1>5. CASE FileStepFails
    <2>1. /\ op.cur \in Record /\ op.cur.run \in Runs /\ op.cur.host \in Hosts
          /\ UNCHANGED mem
        BY <1>5, FileStepFailsIs, RecordIs
    <2>2. op'.want \in {op.want, None} /\ op'.cur \in {op.cur, None}
        BY <1>5, FileStepFailsIs, FailsIs, Ends
    <2>3. \A k \in Hosts : \/ hostLock'[k] = hostLock[k]
                           \/ k = op.cur.host /\ op.at = 2 /\ hostLock'[k] = LockOf(op.cur)
                           \/ k = op.cur.host /\ op.at = 3 /\ op.cur.state = "completed"
        BY <2>1, <1>5, FileStepFailsIs DEF Wrote, TypeOK, files
    <2>4. \A q \in Runs : ledger'[q] = ledger[q] \/ (q = op.cur.run /\ ledger'[q] = op.cur.ledger)
        BY <2>1, <1>5, FileStepFailsIs DEF Wrote, TypeOK, files
    <2>5. /\ \A q \in Runs : journal'[q] \in {journal[q], None} \/ (q = op.cur.run /\ journal'[q] = op.cur)
          /\ \A q \in Runs : assignment'[q] = assignment[q] \/ (q = op.cur.run /\ assignment'[q] = op.cur)
        BY <2>1, <1>5, FileStepFailsIs DEF Wrote, TypeOK, files
    <2>6. \A q \in Runs : sJournal'[q] \in {sJournal[q], journal'[q]}
        BY <1>5, FileStepFailsIs DEF NotSynced, synced
    <2>7. op.cur.ledger = LedgerOf(op.cur.state)
        BY <2>1 DEF HistoryInv, Of, CoherentInv
    <2>8. \A q \in Runs : Ending(q)' => Ending(q)
        BY <2>1, <2>2, <2>5, <2>6 DEF Ending, In, Of
    <2>9. ASSUME NEW q \in Runs, NEW k \in Hosts, Of(hostLock[k], q)
          PROVE  Of(hostLock'[k], q) \/ (op.at = 3 /\ op.cur.state = "completed" /\ q = op.cur.run)
        <3>1. CASE k = op.cur.host
            <4>1. Named(q, k) /\ Named(op.cur.run, k)
                BY <2>1, <2>9, <3>1 DEF Named, At, Of
            <4>2. q = op.cur.run
                BY <2>1, <4>1 DEF Exclusive
            <4> QED
                BY <2>1, <2>3, <2>9, <4>2, LockIs DEF Of
        <3>2. CASE k # op.cur.host
            BY <2>3, <2>9, <3>2
        <3> QED
            BY <3>1, <3>2
    <2>10. ASSUME NEW q \in Runs, In(mem[q], q, Live) PROVE Of(hostLock'[mem[q].host], q)
        <3>1. mem[q].host \in Hosts /\ Of(hostLock[mem[q].host], q)
            BY <2>10, RecordIs DEF CustodyInv, In, Of, TypeOK
        <3>2. ~(op.cur.state = "completed" /\ q = op.cur.run)
            BY <2>1, <2>10 DEF LevelInv, Ending, Going, In, Of
        <3> QED
            BY <2>9, <3>1, <3>2
    <2>11. ASSUME NEW q \in Runs, Ending(q)
           PROVE  (\E k \in Hosts : Of(hostLock'[k], q)) \/ ledger'[q] = "terminal"
        <3>1. ledger[q] = "terminal" => ledger'[q] = "terminal"
            <4>1. q = op.cur.run => op.cur.state \notin Live
                BY <2>1, <2>11 DEF LevelInv, Going, In, Of
            <4> QED
                BY <2>4, <2>7, <4>1 DEF LedgerOf, Live
        <3>2. ASSUME NEW k \in Hosts, Of(hostLock[k], q), ~Of(hostLock'[k], q) PROVE ledger'[q] = "terminal"
            <4>1. op.at = 3 /\ op.cur.state = "completed" /\ q = op.cur.run
                BY <2>9, <3>2
            <4>2. ledger[q] = "terminal"
                BY <2>1, <4>1 DEF ProgressInv
            <4> QED
                BY <3>1, <4>2
        <3> QED
            BY <2>11, <3>1, <3>2 DEF CustodyInv
    <2> QED
        BY <2>1, <2>8, <2>10, <2>11 DEF CustodyInv
<1>6. CASE Scan
    BY <1>6, ScanIs DEF CustodyInv, Ending, In, Of, Live, TypeOK, Scan, files, synced, hist
<1>7. CASE PickJournal
    <2>1. /\ op.phase = "replay" /\ op.kind # None /\ op.cur = None /\ mode # "down"
          /\ UNCHANGED <<journal, assignment, hostLock, ledger, marker, mem, quar, mode, unread, faults>>
          /\ UNCHANGED <<sJournal, sAssignment, sHostLock, sLedger, acked, doubt>>
        BY <1>7, PickIs DEF PickJournal, Running, files, synced, hist
    <2>2. PICK q \in op.todo :
            /\ q \in Runs /\ journal[q] \in Record /\ journal[q].run = q
            /\ op'.kind = op.kind /\ op'.phase = "replay" /\ op'.want = op.want
            /\ op'.cur = Prepare(journal[q]) /\ op'.at = 1 /\ op'.todo = op.todo \ {q}
            /\ op'.failed = op.failed
        BY <1>7, PickIs
    <2>3. op'.cur \in Record /\ op'.cur.run = q /\ op'.cur.host = journal[q].host
        BY <2>2, PrepareIs
    <2>4. /\ op'.cur \in Possible(q)
          /\ \/ op'.cur = journal[q]
             \/ /\ quar[journal[q].host] = q /\ marker[journal[q].host] = q
                /\ journal[q].state # "completed" /\ op'.cur.state = "quarantined"
        BY <2>2, PreparedIs
    <2> QED
        BY <2>1, <2>2, <2>3, <2>4 DEF CustodyInv, Ending, In, Of
<1>8. CASE ReadFails
    BY <1>8, FailsIs, Ends DEF CustodyInv, Ending, In, Of, Live, TypeOK, ReadFails, Running,
         Fault, files, synced, hist
<1>9. CASE ReplayDone
    BY <1>9, ReplayedIs, Ends DEF CustodyInv, Ending, In, Of, Live, TypeOK, ReplayDone, files,
         synced, hist
<1>10. CASE CommitReturns
    BY <1>10, VerifyIs, Ends, DoneIs, LockIs DEF CustodyInv, Ending, In, Of, Live, TypeOK,
         CommitReturns, Ack, Adopt, files, synced, KindInv
<1>11. CASE FinishReturns
    BY <1>11, FinishIs, VerifyIs, DoneIs, LockIs DEF CustodyInv, Ending, In, Of, Live, TypeOK,
         Starts, files, synced, KindInv
<1>12. CASE CompleteReturns
    BY <1>12, VerifyIs, Ends, DoneIs, LockIs DEF CustodyInv, Ending, In, Of, Live, TypeOK,
         CompleteReturns, Ack, files, synced, KindInv
<1>13. CASE AssignReturns
    BY <1>13, VerifyIs, Ends, DoneIs, LockIs DEF CustodyInv, Ending, In, Of, Live, TypeOK,
         AssignReturns, Ack, Adopt, files, synced, KindInv
<1>14. CASE AssignFails
    BY <1>14, AssignFailsIs, VerifyIs DEF CustodyInv, Ending, In, Of, Live, TypeOK, Starts
<1>15. CASE RescueReturns
    BY <1>15, VerifyIs, Ends, DoneIs, LockIs DEF CustodyInv, Ending, In, Of, Live, TypeOK,
         RescueReturns, Ack, hist, files, synced, KindInv
<1>16. CASE CommitFails
    BY <1>16, VerifyIs, Ends DEF CustodyInv, Ending, In, Of, Live, TypeOK, CommitFails, hist,
         KindInv, LevelInv, Going
<1>17. CASE MarkerReturns
    BY <1>17, VerifyIs, Ends, DoneIs, LockIs DEF CustodyInv, Ending, In, Of, Live, TypeOK,
         MarkerReturns, Ack, Adopt, files, synced, KindInv
<1>18. CASE Start
    BY <1>18 DEF CustodyInv, Ending, In, Of, Live, TypeOK, Start, files, synced, hist
<1>19. CASE RecoverJournals
    BY <1>19, RecoverIs, Ends DEF CustodyInv, Ending, In, Of, Live, TypeOK, RecoverJournals,
         files, synced, hist, Idle
<1>20. CASE Serve
    BY <1>20, Ends DEF CustodyInv, Ending, In, Of, Live, TypeOK, Serve, files, synced, hist,
         Idle
<1>21. ASSUME NEW h \in Hosts, RecoverMarker(h) PROVE CustodyInv'
    BY <1>21, MarkerIs, Ends DEF CustodyInv, Ending, In, Of, Live, TypeOK, Starts, Idle
<1>22. ASSUME NEW h \in Hosts, LoadLock(h) PROVE CustodyInv'
    <2>1. /\ op = NoOp /\ hostLock[h] # None
          /\ UNCHANGED <<journal, sJournal, assignment, hostLock, ledger>>
        BY <1>22, LoadCases DEF files, synced, OpInv, UnreadInv
    <2>2. PICK q \in Runs : q = hostLock[h].run
        BY <1>22, LoadIs
    <2>3. Of(hostLock[h], q)
        BY <2>1, <2>2 DEF Of
    <2>4. CASE UNCHANGED <<mem, op>>
        BY <2>1, <2>4 DEF CustodyInv, Ending, In, Of
    <2>5. ASSUME UNCHANGED mem, NEW rec \in Record, rec.run = q, Starts("complete", rec)
          PROVE  CustodyInv'
        <3>1. \A r \in Runs : Ending(r)' => Ending(r) \/ r = q
            BY <2>1, <2>5, Ends DEF Ending, In, Of, Starts
        <3> QED
            BY <2>1, <2>3, <2>5, <3>1 DEF CustodyInv
    <2>6. ASSUME UNCHANGED op, NEW rec \in Record, rec.run = q, rec.host = h, mem' = [mem EXCEPT ![q] = rec]
          PROVE  CustodyInv'
        <3>1. \A r \in Runs : r # q => mem'[r] = mem[r]
            BY <2>6 DEF TypeOK
        <3>2. mem'[q] = rec
            BY <2>6 DEF TypeOK
        <3>3. \A r \in Runs : Ending(r)' => Ending(r) \/ r = q
            BY <2>1, <2>6, <3>1 DEF Ending, In, Of
        <3> QED
            BY <2>1, <2>3, <2>6, <3>1, <3>2, <3>3 DEF CustodyInv
    <2> QED
        BY <2>2, <2>4, <2>5, <2>6, <1>22, LoadCases
<1>23. CASE Crash
    BY <1>23, CrashIs, Ends DEF CustodyInv, Ending, In, Of, Live, TypeOK, hist, TwinInv
<1> QED
    BY <1>1, <1>2, <1>3, <1>4, <1>5, <1>6, <1>7, <1>8, <1>9, <1>10, <1>11, <1>12, <1>13,
         <1>14, <1>15, <1>16, <1>17, <1>18, <1>19, <1>20, <1>21, <1>22, <1>23 DEF Next,
         Handlers, Transition, Startup, Handle

\* An acknowledged Run keeps the Host Lock until it may be completed.
LEMMA ReleaseStep ==
    ASSUME TypeOK, NamesInv, OpInv, TodoInv, UnreadInv, JournalInv, TwinInv, HistoryInv,
           CoherentInv, HomeInv, Exclusive, KindInv, KnownInv, LevelInv, MarkerInv,
           AckedInv, QuarantineInv, ProgressInv, CustodyInv, ReleaseInv, RepairInv,
           ReplayInv, Reliable, Next
    PROVE  ReleaseInv'
<1> USE NoneDiffers, Handed
<1>1. ASSUME NEW r \in Runs, NEW h \in Hosts, Assign(r, h) PROVE ReleaseInv'
    BY <1>1, AssignIs, Ends DEF ReleaseInv, Possible, Of, TypeOK, Starts, files, synced,
         Serving, Idle
<1>2. ASSUME NEW r \in Runs, Handle(r) PROVE ReleaseInv'
    BY <1>2, HandleIs, Ends DEF ReleaseInv, Possible, Of, TypeOK, Starts, Handled, Serving,
         Idle
<1>3. ASSUME NEW r \in Runs, SaveAssignment(r) PROVE ReleaseInv'
    BY <1>3 DEF ReleaseInv, Possible, Of, TypeOK, SaveAssignment, Fault, hist, Idle
<1>4. CASE FileStep
    <2>1. /\ op.cur \in Record /\ op.cur.run \in Runs /\ op.cur.host \in Hosts
          /\ UNCHANGED <<acked, doubt>>
        BY <1>4, FileStepIs, RecordIs
    <2>2. \A k \in Hosts : \/ hostLock'[k] = hostLock[k]
                           \/ k = op.cur.host /\ op.at = 2 /\ hostLock'[k] = LockOf(op.cur)
                           \/ k = op.cur.host /\ op.at = 3 /\ op.cur.state = "completed"
        BY <2>1, <1>4, FileStepIs DEF Wrote, TypeOK
    <2>3. ASSUME NEW q \in Runs, acked[q] # None, Of(hostLock[acked[q].host], q),
                 ~Of(hostLock'[acked[q].host], q)
          PROVE  \E x \in Possible(q) : x # None /\ x.state = "completed"
        <3>1. acked[q].host \in Hosts
            BY <2>3, RecordIs DEF TypeOK
        <3>2. acked[q].host = op.cur.host
            BY <2>2, <2>3, <3>1
        <3>3. Named(q, op.cur.host) /\ Named(op.cur.run, op.cur.host)
            BY <2>1, <2>3, <3>2 DEF Named, At, Of
        <3>4. q = op.cur.run
            BY <2>1, <3>3 DEF Exclusive
        <3>5. op.cur.state = "completed"
            BY <2>1, <2>2, <2>3, <3>1, <3>4, LockIs DEF Of
        <3> QED
            BY <2>1, <3>4, <3>5 DEF HistoryInv, Of
    <2> QED
        BY <2>1, <2>3 DEF ReleaseInv, Possible
<1>5. CASE FileStepFails
    <2>1. /\ op.cur \in Record /\ op.cur.run \in Runs /\ op.cur.host \in Hosts
          /\ UNCHANGED <<acked, doubt>>
        BY <1>5, FileStepFailsIs, RecordIs
    <2>2. \A k \in Hosts : \/ hostLock'[k] = hostLock[k]
                           \/ k = op.cur.host /\ op.at = 2 /\ hostLock'[k] = LockOf(op.cur)
                           \/ k = op.cur.host /\ op.at = 3 /\ op.cur.state = "completed"
        BY <2>1, <1>5, FileStepFailsIs DEF Wrote, TypeOK, files
    <2>3. ASSUME NEW q \in Runs, acked[q] # None, Of(hostLock[acked[q].host], q),
                 ~Of(hostLock'[acked[q].host], q)
          PROVE  \E x \in Possible(q) : x # None /\ x.state = "completed"
        <3>1. acked[q].host \in Hosts
            BY <2>3, RecordIs DEF TypeOK
        <3>2. acked[q].host = op.cur.host
            BY <2>2, <2>3, <3>1
        <3>3. Named(q, op.cur.host) /\ Named(op.cur.run, op.cur.host)
            BY <2>1, <2>3, <3>2 DEF Named, At, Of
        <3>4. q = op.cur.run
            BY <2>1, <3>3 DEF Exclusive
        <3>5. op.cur.state = "completed"
            BY <2>1, <2>2, <2>3, <3>1, <3>4, LockIs DEF Of
        <3> QED
            BY <2>1, <3>4, <3>5 DEF HistoryInv, Of
    <2> QED
        BY <2>1, <2>3 DEF ReleaseInv, Possible
<1>6. CASE Scan
    BY <1>6, ScanIs DEF ReleaseInv, Possible, Of, TypeOK, Scan, files, synced, hist
<1>7. CASE PickJournal
    <2>1. /\ op.phase = "replay" /\ op.kind # None /\ op.cur = None /\ mode # "down"
          /\ UNCHANGED <<journal, assignment, hostLock, ledger, marker, mem, quar, mode, unread, faults>>
          /\ UNCHANGED <<sJournal, sAssignment, sHostLock, sLedger, acked, doubt>>
        BY <1>7, PickIs DEF PickJournal, Running, files, synced, hist
    <2>2. PICK q \in op.todo :
            /\ q \in Runs /\ journal[q] \in Record /\ journal[q].run = q
            /\ op'.kind = op.kind /\ op'.phase = "replay" /\ op'.want = op.want
            /\ op'.cur = Prepare(journal[q]) /\ op'.at = 1 /\ op'.todo = op.todo \ {q}
            /\ op'.failed = op.failed
        BY <1>7, PickIs
    <2>3. op'.cur \in Record /\ op'.cur.run = q /\ op'.cur.host = journal[q].host
        BY <2>2, PrepareIs
    <2>4. /\ op'.cur \in Possible(q)
          /\ \/ op'.cur = journal[q]
             \/ /\ quar[journal[q].host] = q /\ marker[journal[q].host] = q
                /\ journal[q].state # "completed" /\ op'.cur.state = "quarantined"
        BY <2>2, PreparedIs
    <2> QED
        BY <2>1, <2>2, <2>3, <2>4 DEF ReleaseInv, Possible, Of
<1>8. CASE ReadFails
    BY <1>8, FailsIs, Ends DEF ReleaseInv, Possible, Of, TypeOK, ReadFails, Running, Fault,
         files, synced, hist
<1>9. CASE ReplayDone
    BY <1>9, ReplayedIs, Ends DEF ReleaseInv, Possible, Of, TypeOK, ReplayDone, files, synced,
         hist
<1>10. CASE CommitReturns
    BY <1>10, VerifyIs, Ends, DoneIs, LockIs DEF ReleaseInv, Possible, Of, TypeOK,
         CommitReturns, Ack, Adopt, files, synced, KindInv
<1>11. CASE FinishReturns
    BY <1>11, FinishIs, VerifyIs, DoneIs, LockIs DEF ReleaseInv, Possible, Of, TypeOK, Starts,
         files, synced, KindInv
<1>12. CASE CompleteReturns
    BY <1>12, VerifyIs, Ends, DoneIs, LockIs DEF ReleaseInv, Possible, Of, TypeOK,
         CompleteReturns, Ack, files, synced, KindInv
<1>13. CASE AssignReturns
    BY <1>13, VerifyIs, Ends, DoneIs, LockIs DEF ReleaseInv, Possible, Of, TypeOK,
         AssignReturns, Ack, Adopt, files, synced, KindInv
<1>14. CASE AssignFails
    BY <1>14, AssignFailsIs, VerifyIs DEF ReleaseInv, Possible, Of, TypeOK, Starts
<1>15. CASE RescueReturns
    BY <1>15, VerifyIs, Ends, DoneIs, LockIs DEF ReleaseInv, Possible, Of, TypeOK,
         RescueReturns, Ack, hist, files, synced, KindInv
<1>16. CASE CommitFails
    BY <1>16, VerifyIs, Ends DEF ReleaseInv, Possible, Of, TypeOK, CommitFails, hist
<1>17. CASE MarkerReturns
    BY <1>17, VerifyIs, Ends, DoneIs, LockIs DEF ReleaseInv, Possible, Of, TypeOK,
         MarkerReturns, Ack, Adopt, files, synced, KindInv
<1>18. CASE Start
    BY <1>18 DEF ReleaseInv, Possible, Of, TypeOK, Start, files, synced, hist
<1>19. CASE RecoverJournals
    BY <1>19, RecoverIs, Ends DEF ReleaseInv, Possible, Of, TypeOK, RecoverJournals, files,
         synced, hist, Idle
<1>20. CASE Serve
    BY <1>20, Ends DEF ReleaseInv, Possible, Of, TypeOK, Serve, files, synced, hist, Idle
<1>21. ASSUME NEW h \in Hosts, RecoverMarker(h) PROVE ReleaseInv'
    BY <1>21, MarkerIs, Ends DEF ReleaseInv, Possible, Of, TypeOK, Starts, Idle
<1>22. ASSUME NEW h \in Hosts, LoadLock(h) PROVE ReleaseInv'
    BY <1>22, LoadCases, Ends DEF ReleaseInv, Possible, Of, TypeOK, Starts, files, synced,
         Idle
<1>23. CASE Crash
    BY <1>23, CrashIs, Ends DEF ReleaseInv, Possible, Of, TypeOK, hist, TwinInv
<1> QED
    BY <1>1, <1>2, <1>3, <1>4, <1>5, <1>6, <1>7, <1>8, <1>9, <1>10, <1>11, <1>12, <1>13,
         <1>14, <1>15, <1>16, <1>17, <1>18, <1>19, <1>20, <1>21, <1>22, <1>23 DEF Next,
         Handlers, Transition, Startup, Handle

\* A Run without a transition in flight has no journal, and memory has its Host Lock.
LEMMA OtherAgrees ==
    ASSUME TypeOK, NamesInv, MemoryAgrees, faults \in 0..1, NEW q \in Runs,
           In(mem[q], q, Live), ~Of(op.want, q)
    PROVE  journal[q] = None /\ hostLock[mem[q].host] = LockOf(mem[q])
<1>1. journal[q] = None
    BY DEF MemoryAgrees, NamesInv, Mine, Of
<1> QED
    BY <1>1 DEF MemoryAgrees

\* A step that ends or begins a transition keeps memory and the Host Locks together.
LEMMA EndAgrees ==
    ASSUME TypeOK, NamesInv, MemoryAgrees, faults' \in 0..1 => faults \in 0..1,
           UNCHANGED <<journal, hostLock>>,
           \A q \in Runs : Of(op.want, q) \/ mem'[q] = mem[q],
           faults \in 0..1 => \A q \in Runs : Of(op.want, q) /\ In(mem'[q], q, Live) =>
               journal[q] = None /\ hostLock[mem'[q].host] = LockOf(mem'[q])
    PROVE  MemoryAgrees'
<1> SUFFICES ASSUME faults \in 0..1, NEW q \in Runs, In(mem'[q], q, Live)
             PROVE  journal[q] = None /\ hostLock[mem'[q].host] = LockOf(mem'[q])
    BY DEF MemoryAgrees, In, Of
<1>1. CASE Of(op.want, q)
    BY <1>1
<1>2. CASE ~Of(op.want, q)
    BY <1>2, OtherAgrees DEF Of
<1> QED
    BY <1>1, <1>2

\* An operation on the files writes to the Host of its record only.
LEMMA WritesHere ==
    ASSUME TypeOK, OpInv, op.cur \in Record, Wrote \/ UNCHANGED files
    PROVE  /\ \A q \in Runs : q # op.cur.run => journal'[q] = journal[q] /\ assignment'[q] = assignment[q]
           /\ \A k \in Hosts : k # op.cur.host => hostLock'[k] = hostLock[k]
           /\ op.at \in 1..3 => UNCHANGED journal
           /\ op.at \notin {2, 3} => UNCHANGED hostLock
           /\ hostLock'[op.cur.host] \in {hostLock[op.cur.host], LockOf(op.cur), None}
<1>1. op.cur.run \in Runs /\ op.cur.host \in Hosts
    BY RecordIs
<1>2. CASE UNCHANGED files
    BY <1>2 DEF files
<1>3. CASE Wrote
    BY <1>1, <1>3 DEF Wrote, TypeOK
<1> QED
    BY <1>2, <1>3

\* The journal of the record that is being applied is there.
LEMMA JournalThere ==
    ASSUME OpInv, JournalInv, op.cur # None, op.phase \in {"persist", "replay"}, op.at \in 1..4
    PROVE  journal[op.cur.run] # None
    BY DEF OpInv, JournalInv

\* A failure inside Recover is at least the second one.
LEMMA FaultsStep ==
    ASSUME TypeOK, NamesInv, OpInv, TodoInv, UnreadInv, JournalInv, TwinInv, HistoryInv,
           CoherentInv, HomeInv, Exclusive, KindInv, KnownInv, LevelInv, MarkerInv,
           AckedInv, QuarantineInv, ProgressInv, CustodyInv, ReleaseInv, RepairInv,
           ReplayInv, Reliable, Next
    PROVE  FaultsInv'
<1> USE NoneDiffers, FaultAssumption
<1>1. ASSUME NEW r \in Runs, NEW h \in Hosts, Assign(r, h) PROVE FaultsInv'
    BY <1>1, AssignIs, Ends DEF RepairInv, FaultsInv, OpInv, TypeOK, Starts, files, synced,
         Serving, Idle, Kinds, Phases
<1>2. ASSUME NEW r \in Runs, Handle(r) PROVE FaultsInv'
    BY <1>2, HandleIs, Ends DEF RepairInv, FaultsInv, OpInv, TypeOK, Starts, Handled, Serving,
         Idle, Kinds, Phases
<1>3. ASSUME NEW r \in Runs, SaveAssignment(r) PROVE FaultsInv'
    BY <1>3 DEF RepairInv, FaultsInv, OpInv, TypeOK, SaveAssignment, Fault, hist, Idle, Kinds,
         Phases
<1>4. CASE FileStep
    BY <1>4, FileStepIs DEF RepairInv, FaultsInv, OpInv, TypeOK, Wrote, Kinds, Phases
<1>5. CASE FileStepFails
    BY <1>5, FileStepFailsIs, FailsIs, Ends DEF RepairInv, FaultsInv, OpInv, TypeOK, Wrote,
         files, Kinds, Phases
<1>6. CASE Scan
    BY <1>6, ScanIs DEF RepairInv, FaultsInv, OpInv, TypeOK, Scan, files, synced, hist, Kinds,
         Phases
<1>7. CASE PickJournal
    <2>1. op.phase = "replay" /\ op.cur = None
        BY <1>7, PickIs
    <2>2. /\ op'.failed = op.failed /\ op'.kind = op.kind /\ op'.at = 1 /\ op'.phase = "replay"
        BY <1>7, PickIs
    <2>3. UNCHANGED faults
        BY <1>7 DEF PickJournal
    <2>4. op.at # 6
        BY <2>1 DEF OpInv
    <2>5. op.kind \notin {None, "boot"} => faults # 0
        BY <2>1, <2>4 DEF RepairInv, FaultsInv
    <2>6. op'.failed => faults' \notin 0..1
        BY <2>2, <2>3 DEF RepairInv, FaultsInv
    <2> QED
        BY <2>2, <2>3, <2>5, <2>6 DEF FaultsInv
<1>8. CASE ReadFails
    BY <1>8, FailsIs, Ends DEF RepairInv, FaultsInv, OpInv, TypeOK, ReadFails, Running, Fault,
         files, synced, hist, Kinds, Phases
<1>9. CASE ReplayDone
    BY <1>9, ReplayedIs, Ends DEF RepairInv, FaultsInv, OpInv, TypeOK, ReplayDone, files,
         synced, hist, Kinds, Phases
<1>10. CASE CommitReturns
    BY <1>10, VerifyIs, Ends DEF RepairInv, FaultsInv, OpInv, TypeOK, CommitReturns, Ack,
         Adopt, files, synced, Kinds, Phases
<1>11. CASE FinishReturns
    BY <1>11, FinishIs, VerifyIs DEF RepairInv, FaultsInv, OpInv, TypeOK, Starts, files,
         synced, Kinds, Phases
<1>12. CASE CompleteReturns
    BY <1>12, VerifyIs, Ends DEF RepairInv, FaultsInv, OpInv, TypeOK, CompleteReturns, Ack,
         files, synced, Kinds, Phases
<1>13. CASE AssignReturns
    BY <1>13, VerifyIs, Ends DEF RepairInv, FaultsInv, OpInv, TypeOK, AssignReturns, Ack,
         Adopt, files, synced, Kinds, Phases
<1>14. CASE AssignFails
    BY <1>14, AssignFailsIs, VerifyIs DEF RepairInv, FaultsInv, OpInv, TypeOK, Starts, Kinds,
         Phases
<1>15. CASE RescueReturns
    BY <1>15, VerifyIs, Ends DEF RepairInv, FaultsInv, OpInv, TypeOK, RescueReturns, Ack,
         hist, files, synced, Kinds, Phases
<1>16. CASE CommitFails
    BY <1>16, VerifyIs, Ends DEF RepairInv, FaultsInv, OpInv, TypeOK, CommitFails, hist,
         Kinds, Phases
<1>17. CASE MarkerReturns
    BY <1>17, VerifyIs, Ends DEF RepairInv, FaultsInv, OpInv, TypeOK, MarkerReturns, Ack,
         Adopt, files, synced, Kinds, Phases
<1>18. CASE Start
    BY <1>18 DEF RepairInv, FaultsInv, OpInv, TypeOK, Start, files, synced, hist, Kinds,
         Phases
<1>19. CASE RecoverJournals
    BY <1>19, RecoverIs, Ends DEF RepairInv, FaultsInv, OpInv, TypeOK, RecoverJournals, files,
         synced, hist, Idle, Kinds, Phases
<1>20. CASE Serve
    BY <1>20, Ends DEF RepairInv, FaultsInv, OpInv, TypeOK, Serve, files, synced, hist, Idle,
         Kinds, Phases
<1>21. ASSUME NEW h \in Hosts, RecoverMarker(h) PROVE FaultsInv'
    BY <1>21, MarkerIs, Ends DEF RepairInv, FaultsInv, OpInv, TypeOK, Starts, Idle, Kinds,
         Phases
<1>22. ASSUME NEW h \in Hosts, LoadLock(h) PROVE FaultsInv'
    BY <1>22, LoadCases, Ends DEF RepairInv, FaultsInv, OpInv, TypeOK, Starts, files, synced,
         Idle, Kinds, Phases
<1>23. CASE Crash
    BY <1>23, CrashIs, Ends DEF RepairInv, FaultsInv, OpInv, TypeOK, hist, Kinds, Phases
<1> QED
    BY <1>1, <1>2, <1>3, <1>4, <1>5, <1>6, <1>7, <1>8, <1>9, <1>10, <1>11, <1>12, <1>13,
         <1>14, <1>15, <1>16, <1>17, <1>18, <1>19, <1>20, <1>21, <1>22, <1>23 DEF Next,
         Handlers, Transition, Startup, Handle

\* After at most one failure the Host Locks agree with the assignments.
LEMMA LocksStep ==
    ASSUME TypeOK, NamesInv, OpInv, TodoInv, UnreadInv, JournalInv, TwinInv, HistoryInv,
           CoherentInv, HomeInv, Exclusive, KindInv, KnownInv, LevelInv, MarkerInv,
           AckedInv, QuarantineInv, ProgressInv, CustodyInv, ReleaseInv, RepairInv,
           ReplayInv, Reliable, Next
    PROVE  LocksAgree'
<1> USE NoneDiffers, FaultAssumption
<1>1. ASSUME NEW r \in Runs, NEW h \in Hosts, Assign(r, h) PROVE LocksAgree'
    BY <1>1, AssignIs, Ends DEF RepairInv, LocksAgree, At, Of, TypeOK, Starts, files, synced,
         Serving, Idle
<1>2. ASSUME NEW r \in Runs, Handle(r) PROVE LocksAgree'
    BY <1>2, HandleIs, Ends DEF RepairInv, LocksAgree, At, Of, TypeOK, Starts, Handled,
         Serving, Idle
<1>3. ASSUME NEW r \in Runs, SaveAssignment(r) PROVE LocksAgree'
    <2>1. /\ UNCHANGED <<journal, hostLock, op>> /\ mem[r] # None /\ mem[r].state = "confirmed"
          /\ (op.kind # None => op.want.run # r)
          /\ assignment' \in {assignment, [assignment EXCEPT ![r] = mem[r]]}
          /\ faults' \in {faults, faults + 1}
        BY <1>3 DEF SaveAssignment, Fault, Idle
    <2>2. mem[r] \in Record /\ mem[r].run = r /\ In(mem[r], r, Live)
        BY <2>1 DEF TypeOK, NamesInv, Mine, In, Of, Live
    <2>3. faults' \in 0..1 => faults \in 0..1
        BY <2>1, FaultAssumption DEF TypeOK
    <2>4. ~Of(op.want, r)
        BY <2>1, Ends DEF Of, OpInv, Idle
    <2>5. ASSUME faults \in 0..1, NEW k \in Hosts, Of(hostLock[k], r)
          PROVE  At(mem[r], r, k) /\ LockOf(mem[r]) = hostLock[k]
        <3>1. mem[r].host = k
            BY <2>2, <2>5, HomeOf
        <3> QED
            BY <2>2, <2>4, <2>5, <3>1, OtherAgrees DEF RepairInv, At, Of
    <2> QED
        BY <2>1, <2>2, <2>3, <2>5 DEF RepairInv, LocksAgree, At, Of, TypeOK
<1>4. CASE FileStep
    <2>1. /\ op.cur \in Record /\ op.cur.run \in Runs /\ op.cur.host \in Hosts /\ op.at \in 0..5
          /\ op.phase \in {"persist", "replay"} /\ (Wrote \/ UNCHANGED files)
          /\ faults' \in {faults, faults + 1}
        BY <1>4, FileStepIs, RecordIs
    <2>2. SUFFICES ASSUME faults' \in 0..1, NEW k \in Hosts, NEW q \in Runs, Of(hostLock'[k], q), journal'[q] = None
                   PROVE  At(assignment'[q], q, k) /\ LockOf(assignment'[q]) = hostLock'[k]
        BY DEF LocksAgree, At, Of
    <2>3. faults \in 0..1
        BY <2>1, <2>2, FaultAssumption DEF TypeOK
    <2>4. CASE q # op.cur.run
        <3>1. journal[q] = None /\ assignment'[q] = assignment[q]
            BY <2>1, <2>2, <2>4, WritesHere
        <3>2. hostLock'[k] = hostLock[k]
            <4>1. CASE k # op.cur.host
                BY <2>1, <4>1, WritesHere
            <4>2. CASE k = op.cur.host
                BY <2>1, <2>2, <2>4, <4>2, WritesHere, LockIs DEF Of
            <4> QED
                BY <4>1, <4>2
        <3> QED
            BY <2>2, <2>3, <3>1, <3>2 DEF RepairInv, LocksAgree
    <2>5. CASE q = op.cur.run
        <3>1. CASE op.at \in 0..3
            <4>1. op.at = 0
                <5>1. SUFFICES ASSUME op.at \in 1..3 PROVE FALSE
                    BY <3>1
                <5>2. UNCHANGED journal
                    BY <2>1, <5>1, WritesHere
                <5>3. journal[q] # None
                    BY <2>1, <2>5, <5>1, JournalThere
                <5> QED
                    BY <2>2, <5>2, <5>3
            <4>2. /\ UNCHANGED <<assignment, hostLock>>
                  /\ UNCHANGED journal \/ journal' = [journal EXCEPT ![op.cur.run] = op.cur]
                BY <2>1, <4>1 DEF Wrote, files
            <4>3. journal[q] = None
                BY <2>1, <2>2, <2>5, <4>2 DEF TypeOK
            <4> QED
                BY <2>2, <2>3, <4>2, <4>3 DEF RepairInv, LocksAgree
        <3>2. CASE op.at \in 4..5
            <4>1. UNCHANGED <<assignment, hostLock>>
                BY <2>1, <3>2 DEF Wrote, files
            <4>2. k = op.cur.host
                <5>1. Of(hostLock[k], q)
                    BY <2>2, <4>1
                <5>2. Of(op.cur, q)
                    BY <2>1, <2>5 DEF Of
                <5> QED
                    BY <5>1, <5>2, HomeOf
            <4>3. op.cur.state # "completed"
                BY <2>1, <2>2, <3>2, <4>1, <4>2 DEF ProgressInv, Of
            <4>4. hostLock[k] = LockOf(op.cur) /\ assignment[q] = op.cur
                BY <2>1, <2>3, <2>5, <3>2, <4>2, <4>3 DEF ProgressInv
            <4> QED
                BY <2>1, <2>5, <4>1, <4>2, <4>4 DEF At, Of
        <3> QED
            BY <2>1, <3>1, <3>2
    <2> QED
        BY <2>4, <2>5
<1>5. CASE FileStepFails
    <2>1. /\ op.cur \in Record /\ op.cur.run \in Runs /\ op.cur.host \in Hosts /\ op.at \in 0..5
          /\ op.phase \in {"persist", "replay"} /\ (Wrote \/ UNCHANGED files)
          /\ faults' \in {faults, faults + 1}
        BY <1>5, FileStepFailsIs, RecordIs
    <2>2. SUFFICES ASSUME faults' \in 0..1, NEW k \in Hosts, NEW q \in Runs, Of(hostLock'[k], q), journal'[q] = None
                   PROVE  At(assignment'[q], q, k) /\ LockOf(assignment'[q]) = hostLock'[k]
        BY DEF LocksAgree, At, Of
    <2>3. faults \in 0..1
        BY <2>1, <2>2, FaultAssumption DEF TypeOK
    <2>4. CASE q # op.cur.run
        <3>1. journal[q] = None /\ assignment'[q] = assignment[q]
            BY <2>1, <2>2, <2>4, WritesHere
        <3>2. hostLock'[k] = hostLock[k]
            <4>1. CASE k # op.cur.host
                BY <2>1, <4>1, WritesHere
            <4>2. CASE k = op.cur.host
                BY <2>1, <2>2, <2>4, <4>2, WritesHere, LockIs DEF Of
            <4> QED
                BY <4>1, <4>2
        <3> QED
            BY <2>2, <2>3, <3>1, <3>2 DEF RepairInv, LocksAgree
    <2>5. CASE q = op.cur.run
        <3>1. CASE op.at \in 0..3
            <4>1. op.at = 0
                <5>1. SUFFICES ASSUME op.at \in 1..3 PROVE FALSE
                    BY <3>1
                <5>2. UNCHANGED journal
                    BY <2>1, <5>1, WritesHere
                <5>3. journal[q] # None
                    BY <2>1, <2>5, <5>1, JournalThere
                <5> QED
                    BY <2>2, <5>2, <5>3
            <4>2. /\ UNCHANGED <<assignment, hostLock>>
                  /\ UNCHANGED journal \/ journal' = [journal EXCEPT ![op.cur.run] = op.cur]
                BY <2>1, <4>1 DEF Wrote, files
            <4>3. journal[q] = None
                BY <2>1, <2>2, <2>5, <4>2 DEF TypeOK
            <4> QED
                BY <2>2, <2>3, <4>2, <4>3 DEF RepairInv, LocksAgree
        <3>2. CASE op.at \in 4..5
            <4>1. UNCHANGED <<assignment, hostLock>>
                BY <2>1, <3>2 DEF Wrote, files
            <4>2. k = op.cur.host
                <5>1. Of(hostLock[k], q)
                    BY <2>2, <4>1
                <5>2. Of(op.cur, q)
                    BY <2>1, <2>5 DEF Of
                <5> QED
                    BY <5>1, <5>2, HomeOf
            <4>3. op.cur.state # "completed"
                BY <2>1, <2>2, <3>2, <4>1, <4>2 DEF ProgressInv, Of
            <4>4. hostLock[k] = LockOf(op.cur) /\ assignment[q] = op.cur
                BY <2>1, <2>3, <2>5, <3>2, <4>2, <4>3 DEF ProgressInv
            <4> QED
                BY <2>1, <2>5, <4>1, <4>2, <4>4 DEF At, Of
        <3> QED
            BY <2>1, <3>1, <3>2
    <2> QED
        BY <2>4, <2>5
<1>6. CASE Scan
    BY <1>6, ScanIs DEF RepairInv, LocksAgree, At, Of, TypeOK, Scan, files, synced, hist
<1>7. CASE PickJournal
    <2>1. /\ op.phase = "replay" /\ op.kind # None /\ op.cur = None /\ mode # "down"
          /\ UNCHANGED <<journal, assignment, hostLock, ledger, marker, mem, quar, mode, unread, faults>>
          /\ UNCHANGED <<sJournal, sAssignment, sHostLock, sLedger, acked, doubt>>
        BY <1>7, PickIs DEF PickJournal, Running, files, synced, hist
    <2>2. PICK q \in op.todo :
            /\ q \in Runs /\ journal[q] \in Record /\ journal[q].run = q
            /\ op'.kind = op.kind /\ op'.phase = "replay" /\ op'.want = op.want
            /\ op'.cur = Prepare(journal[q]) /\ op'.at = 1 /\ op'.todo = op.todo \ {q}
            /\ op'.failed = op.failed
        BY <1>7, PickIs
    <2>3. op'.cur \in Record /\ op'.cur.run = q /\ op'.cur.host = journal[q].host
        BY <2>2, PrepareIs
    <2>4. /\ op'.cur \in Possible(q)
          /\ \/ op'.cur = journal[q]
             \/ /\ quar[journal[q].host] = q /\ marker[journal[q].host] = q
                /\ journal[q].state # "completed" /\ op'.cur.state = "quarantined"
        BY <2>2, PreparedIs
    <2> QED
        BY <2>1, <2>2, <2>3, <2>4 DEF RepairInv, LocksAgree, At, Of
<1>8. CASE ReadFails
    BY <1>8, FailsIs, Ends DEF RepairInv, LocksAgree, At, Of, TypeOK, ReadFails, Running,
         Fault, files, synced, hist
<1>9. CASE ReplayDone
    BY <1>9, ReplayedIs, Ends DEF RepairInv, LocksAgree, At, Of, TypeOK, ReplayDone, files,
         synced, hist
<1>10. CASE CommitReturns
    BY <1>10, VerifyIs, Ends DEF RepairInv, LocksAgree, At, Of, TypeOK, CommitReturns, Ack,
         Adopt, files, synced
<1>11. CASE FinishReturns
    BY <1>11, FinishIs, VerifyIs DEF RepairInv, LocksAgree, At, Of, TypeOK, Starts, files,
         synced
<1>12. CASE CompleteReturns
    BY <1>12, VerifyIs, Ends DEF RepairInv, LocksAgree, At, Of, TypeOK, CompleteReturns, Ack,
         files, synced
<1>13. CASE AssignReturns
    BY <1>13, VerifyIs, Ends DEF RepairInv, LocksAgree, At, Of, TypeOK, AssignReturns, Ack,
         Adopt, files, synced
<1>14. CASE AssignFails
    BY <1>14, AssignFailsIs, VerifyIs DEF RepairInv, LocksAgree, At, Of, TypeOK, Starts
<1>15. CASE RescueReturns
    BY <1>15, EndedIs DEF RepairInv, LocksAgree
<1>16. CASE CommitFails
    BY <1>16, VerifyIs, Ends DEF RepairInv, LocksAgree, At, Of, TypeOK, CommitFails, hist
<1>17. CASE MarkerReturns
    BY <1>17, EndedIs DEF RepairInv, LocksAgree
<1>18. CASE Start
    BY <1>18 DEF RepairInv, LocksAgree, At, Of, TypeOK, Start, files, synced, hist
<1>19. CASE RecoverJournals
    BY <1>19, RecoverIs, Ends DEF RepairInv, LocksAgree, At, Of, TypeOK, RecoverJournals,
         files, synced, hist, Idle
<1>20. CASE Serve
    BY <1>20, Ends DEF RepairInv, LocksAgree, At, Of, TypeOK, Serve, files, synced, hist, Idle
<1>21. ASSUME NEW h \in Hosts, RecoverMarker(h) PROVE LocksAgree'
    BY <1>21, MarkerIs, Ends DEF RepairInv, LocksAgree, At, Of, TypeOK, Starts, Idle
<1>22. ASSUME NEW h \in Hosts, LoadLock(h) PROVE LocksAgree'
    BY <1>22, LoadCases, Ends DEF RepairInv, LocksAgree, At, Of, TypeOK, Starts, files,
         synced, Idle
<1>23. CASE Crash
    BY <1>23, CrashIs, Ends DEF RepairInv, LocksAgree, At, Of, TypeOK, hist, TwinInv
<1> QED
    BY <1>1, <1>2, <1>3, <1>4, <1>5, <1>6, <1>7, <1>8, <1>9, <1>10, <1>11, <1>12, <1>13,
         <1>14, <1>15, <1>16, <1>17, <1>18, <1>19, <1>20, <1>21, <1>22, <1>23 DEF Next,
         Handlers, Transition, Startup, Handle

\* After at most one failure memory agrees with the Host Locks.
LEMMA MemoryStep ==
    ASSUME TypeOK, NamesInv, OpInv, TodoInv, UnreadInv, JournalInv, TwinInv, HistoryInv,
           CoherentInv, HomeInv, Exclusive, KindInv, KnownInv, LevelInv, MarkerInv,
           AckedInv, QuarantineInv, ProgressInv, CustodyInv, ReleaseInv, RepairInv,
           ReplayInv, Reliable, Next
    PROVE  MemoryAgrees'
<1> USE NoneDiffers, FaultAssumption
<1>1. ASSUME NEW r \in Runs, NEW h \in Hosts, Assign(r, h) PROVE MemoryAgrees'
    <2>1. op.want = None
        BY <1>1, Ends DEF Assign, Begin, Serving, Idle, OpInv
    <2>2. UNCHANGED <<journal, hostLock, mem, faults>>
        BY <1>1 DEF Assign, Begin, Serving, files
    <2> QED
        BY <2>1, <2>2, EndAgrees DEF RepairInv, Of
<1>2. ASSUME NEW r \in Runs, Handle(r) PROVE MemoryAgrees'
    <2>1. op.want = None
        BY <1>2, HandleIs, Ends DEF Serving, Idle, OpInv
    <2>2. UNCHANGED <<journal, hostLock, mem, faults>>
        BY <1>2, HandleIs DEF Serving, files
    <2> QED
        BY <2>1, <2>2, EndAgrees DEF RepairInv, Of
<1>3. ASSUME NEW r \in Runs, SaveAssignment(r) PROVE MemoryAgrees'
    BY <1>3 DEF RepairInv, MemoryAgrees, In, Of, TypeOK, SaveAssignment, Fault, hist, Idle
<1>4. CASE FileStep
    <2>1. /\ op.cur \in Record /\ op.cur.run \in Runs /\ op.cur.host \in Hosts /\ op.at \in 0..5
          /\ op.phase \in {"persist", "replay"} /\ (Wrote \/ UNCHANGED files)
          /\ faults' \in {faults, faults + 1} /\ UNCHANGED mem
        BY <1>4, FileStepIs, RecordIs
    <2>2. op'.want = op.want
        BY <1>4, FileStepIs, Ends DEF OpInv
    <2>3. SUFFICES ASSUME faults' \in 0..1, NEW q \in Runs, In(mem[q], q, Live)
                   PROVE  /\ journal'[q] = None =>
                               \/ hostLock'[mem[q].host] = LockOf(mem[q])
                               \/ Of(op.want, q) /\ hostLock'[mem[q].host] = LockOf(op.want)
                          /\ journal'[q] # None => journal'[q] = op.want
        BY <2>1, <2>2 DEF MemoryAgrees, In, Of
    <2>4. faults \in 0..1 /\ mem[q] \in Record /\ mem[q].host \in Hosts /\ mem[q].run = q
        <3>1. faults \in 0..1
            BY <2>1, <2>3, FaultAssumption DEF TypeOK
        <3>2. mem[q] \in Record /\ mem[q].run = q
            BY <2>3 DEF TypeOK, In, Of
        <3> QED
            BY <3>1, <3>2, RecordIs
    <2>5. CASE q # op.cur.run
        <3>1. mem[q].host # op.cur.host
            <4>1. Named(q, mem[q].host) /\ Named(op.cur.run, op.cur.host)
                BY <2>1, <2>3, <2>4 DEF Named, At, Of, In
            <4> QED
                BY <2>1, <2>4, <2>5, <4>1 DEF Exclusive
        <3>2. journal'[q] = journal[q] /\ hostLock'[mem[q].host] = hostLock[mem[q].host]
            BY <2>1, <2>4, <2>5, <3>1, WritesHere
        <3> QED
            BY <2>3, <2>4, <3>2 DEF RepairInv, MemoryAgrees
    <2>6. CASE q = op.cur.run
        <3>1. CASE op.at = 0
            <4>1. op.cur = op.want
                BY <2>1, <3>1 DEF OpInv
            <4>2. UNCHANGED hostLock /\ journal'[q] \in {journal[q], op.want}
                BY <2>1, <2>6, <3>1, <4>1 DEF Wrote, files, TypeOK
            <4>3. op.want # None
                BY <2>1, <4>1
            <4>4. journal'[q] = None => journal[q] = None
                BY <4>2, <4>3
            <4> QED
                BY <2>3, <2>4, <4>2, <4>4 DEF RepairInv, MemoryAgrees
        <3>2. CASE op.at \in 1..3
            <4>1. UNCHANGED journal /\ journal[q] # None
                BY <2>1, <2>6, <3>2, WritesHere DEF JournalInv, OpInv
            <4> QED
                BY <2>3, <2>4, <4>1 DEF RepairInv, MemoryAgrees
        <3>3. CASE op.at = 4
            <4>1. journal[q] # None /\ UNCHANGED hostLock /\ journal'[q] \in {journal[q], None}
                BY <2>1, <2>6, <3>3 DEF JournalInv, OpInv, Wrote, files, TypeOK
            <4>2. journal[q] = op.want
                BY <2>3, <2>4, <4>1 DEF RepairInv, MemoryAgrees
            <4>3. op.cur = op.want
                <5>1. CASE op.phase = "persist"
                    BY <5>1 DEF OpInv
                <5>2. CASE op.phase = "replay"
                    <6>1. quar[op.cur.host] # op.cur.run
                        <7>1. ~Quarantined(op.cur.run)
                            BY <2>1 DEF Quarantined, Of
                        <7>2. ~Marked(op.cur.run, op.cur.host)
                            BY <2>1, <2>3, <2>6 DEF Marked, MarkerInv, In, Live
                        <7> QED
                            BY <2>1, <7>1, <7>2 DEF QuarantineInv, Kept
                    <6> QED
                        BY <2>6, <3>3, <4>2, <5>2, <6>1 DEF ReplayInv
                <5> QED
                    BY <2>1, <5>1, <5>2
            <4>4. op.cur.state # "completed"
                BY <2>1, <2>3, <2>6 DEF LevelInv, Ending, Going, In, Of
            <4>5. hostLock[op.cur.host] = LockOf(op.cur)
                BY <2>1, <3>3, <4>4 DEF ProgressInv
            <4>6. mem[q].host = op.cur.host
                <5>1. Homed(q, op.cur.host)
                    BY <2>1, <2>6 DEF HistoryInv, Homed, Of
                <5> QED
                    BY <2>1, <2>4, <5>1, HomeOf
            <4>7. Of(op.want, q) /\ hostLock'[mem[q].host] = LockOf(op.want)
                BY <2>1, <2>6, <4>1, <4>3, <4>5, <4>6 DEF Of
            <4> QED
                BY <4>1, <4>2, <4>7
        <3>4. CASE op.at = 5
            <4>1. UNCHANGED <<journal, hostLock>>
                BY <2>1, <3>4 DEF Wrote, files
            <4> QED
                BY <2>3, <2>4, <4>1 DEF RepairInv, MemoryAgrees
        <3> QED
            BY <2>1, <3>1, <3>2, <3>3, <3>4
    <2> QED
        BY <2>5, <2>6
<1>5. CASE FileStepFails
    <2>1. /\ op.cur \in Record /\ op.cur.run \in Runs /\ op.cur.host \in Hosts /\ op.at \in 0..5
          /\ op.phase \in {"persist", "replay"} /\ (Wrote \/ UNCHANGED files)
          /\ faults' \in {faults, faults + 1} /\ UNCHANGED mem
        BY <1>5, FileStepFailsIs, RecordIs
    <2>2. op'.want = op.want
        BY <1>5, FileStepFailsIs, FailsIs, Ends DEF OpInv
    <2>3. SUFFICES ASSUME faults' \in 0..1, NEW q \in Runs, In(mem[q], q, Live)
                   PROVE  /\ journal'[q] = None =>
                               \/ hostLock'[mem[q].host] = LockOf(mem[q])
                               \/ Of(op.want, q) /\ hostLock'[mem[q].host] = LockOf(op.want)
                          /\ journal'[q] # None => journal'[q] = op.want
        BY <2>1, <2>2 DEF MemoryAgrees, In, Of
    <2>4. faults \in 0..1 /\ mem[q] \in Record /\ mem[q].host \in Hosts /\ mem[q].run = q
        <3>1. faults \in 0..1
            BY <2>1, <2>3, FaultAssumption DEF TypeOK
        <3>2. mem[q] \in Record /\ mem[q].run = q
            BY <2>3 DEF TypeOK, In, Of
        <3> QED
            BY <3>1, <3>2, RecordIs
    <2>5. CASE q # op.cur.run
        <3>1. mem[q].host # op.cur.host
            <4>1. Named(q, mem[q].host) /\ Named(op.cur.run, op.cur.host)
                BY <2>1, <2>3, <2>4 DEF Named, At, Of, In
            <4> QED
                BY <2>1, <2>4, <2>5, <4>1 DEF Exclusive
        <3>2. journal'[q] = journal[q] /\ hostLock'[mem[q].host] = hostLock[mem[q].host]
            BY <2>1, <2>4, <2>5, <3>1, WritesHere
        <3> QED
            BY <2>3, <2>4, <3>2 DEF RepairInv, MemoryAgrees
    <2>6. CASE q = op.cur.run
        <3>1. CASE op.at = 0
            <4>1. op.cur = op.want
                BY <2>1, <3>1 DEF OpInv
            <4>2. UNCHANGED hostLock /\ journal'[q] \in {journal[q], op.want}
                BY <2>1, <2>6, <3>1, <4>1 DEF Wrote, files, TypeOK
            <4>3. op.want # None
                BY <2>1, <4>1
            <4>4. journal'[q] = None => journal[q] = None
                BY <4>2, <4>3
            <4> QED
                BY <2>3, <2>4, <4>2, <4>4 DEF RepairInv, MemoryAgrees
        <3>2. CASE op.at \in 1..3
            <4>1. UNCHANGED journal /\ journal[q] # None
                BY <2>1, <2>6, <3>2, WritesHere DEF JournalInv, OpInv
            <4> QED
                BY <2>3, <2>4, <4>1 DEF RepairInv, MemoryAgrees
        <3>3. CASE op.at = 4
            <4>1. journal[q] # None /\ UNCHANGED hostLock /\ journal'[q] \in {journal[q], None}
                BY <2>1, <2>6, <3>3 DEF JournalInv, OpInv, Wrote, files, TypeOK
            <4>2. journal[q] = op.want
                BY <2>3, <2>4, <4>1 DEF RepairInv, MemoryAgrees
            <4>3. op.cur = op.want
                <5>1. CASE op.phase = "persist"
                    BY <5>1 DEF OpInv
                <5>2. CASE op.phase = "replay"
                    <6>1. quar[op.cur.host] # op.cur.run
                        <7>1. ~Quarantined(op.cur.run)
                            BY <2>1 DEF Quarantined, Of
                        <7>2. ~Marked(op.cur.run, op.cur.host)
                            BY <2>1, <2>3, <2>6 DEF Marked, MarkerInv, In, Live
                        <7> QED
                            BY <2>1, <7>1, <7>2 DEF QuarantineInv, Kept
                    <6> QED
                        BY <2>6, <3>3, <4>2, <5>2, <6>1 DEF ReplayInv
                <5> QED
                    BY <2>1, <5>1, <5>2
            <4>4. op.cur.state # "completed"
                BY <2>1, <2>3, <2>6 DEF LevelInv, Ending, Going, In, Of
            <4>5. hostLock[op.cur.host] = LockOf(op.cur)
                BY <2>1, <3>3, <4>4 DEF ProgressInv
            <4>6. mem[q].host = op.cur.host
                <5>1. Homed(q, op.cur.host)
                    BY <2>1, <2>6 DEF HistoryInv, Homed, Of
                <5> QED
                    BY <2>1, <2>4, <5>1, HomeOf
            <4>7. Of(op.want, q) /\ hostLock'[mem[q].host] = LockOf(op.want)
                BY <2>1, <2>6, <4>1, <4>3, <4>5, <4>6 DEF Of
            <4> QED
                BY <4>1, <4>2, <4>7
        <3>4. CASE op.at = 5
            <4>1. UNCHANGED <<journal, hostLock>>
                BY <2>1, <3>4 DEF Wrote, files
            <4> QED
                BY <2>3, <2>4, <4>1 DEF RepairInv, MemoryAgrees
        <3> QED
            BY <2>1, <3>1, <3>2, <3>3, <3>4
    <2> QED
        BY <2>5, <2>6
<1>6. CASE Scan
    BY <1>6, ScanIs DEF RepairInv, MemoryAgrees, In, Of, TypeOK, Scan, files, synced, hist
<1>7. CASE PickJournal
    <2>1. /\ op.phase = "replay" /\ op.kind # None /\ op.cur = None /\ mode # "down"
          /\ UNCHANGED <<journal, assignment, hostLock, ledger, marker, mem, quar, mode, unread, faults>>
          /\ UNCHANGED <<sJournal, sAssignment, sHostLock, sLedger, acked, doubt>>
        BY <1>7, PickIs DEF PickJournal, Running, files, synced, hist
    <2>2. PICK q \in op.todo :
            /\ q \in Runs /\ journal[q] \in Record /\ journal[q].run = q
            /\ op'.kind = op.kind /\ op'.phase = "replay" /\ op'.want = op.want
            /\ op'.cur = Prepare(journal[q]) /\ op'.at = 1 /\ op'.todo = op.todo \ {q}
            /\ op'.failed = op.failed
        BY <1>7, PickIs
    <2>3. op'.cur \in Record /\ op'.cur.run = q /\ op'.cur.host = journal[q].host
        BY <2>2, PrepareIs
    <2>4. /\ op'.cur \in Possible(q)
          /\ \/ op'.cur = journal[q]
             \/ /\ quar[journal[q].host] = q /\ marker[journal[q].host] = q
                /\ journal[q].state # "completed" /\ op'.cur.state = "quarantined"
        BY <2>2, PreparedIs
    <2> QED
        BY <2>1, <2>2, <2>3, <2>4 DEF RepairInv, MemoryAgrees, In, Of
<1>8. CASE ReadFails
    <2>1. UNCHANGED <<journal, hostLock, mem>> /\ (faults' \in 0..1 => faults \in 0..1)
        BY <1>8, FaultAssumption DEF ReadFails, files, Fault, TypeOK
    <2>2. op'.want = op.want
        BY <1>8, FailsIs, Ends DEF OpInv, ReadFails, Running
    <2> QED
        BY <2>1, <2>2 DEF RepairInv, MemoryAgrees, In, Of
<1>9. CASE ReplayDone
    <2>1. UNCHANGED <<journal, hostLock, mem>> /\ (faults' \in 0..1 => faults \in 0..1)
        BY <1>9, FaultAssumption DEF ReplayDone, files, Fault, TypeOK
    <2>2. op'.want = op.want
        BY <1>9, ReplayedIs, Ends DEF OpInv
    <2> QED
        BY <2>1, <2>2 DEF RepairInv, MemoryAgrees, In, Of
<1>10. CASE CommitReturns
    <2>1. op.want \in Record /\ op.want.run \in Runs /\ Running("verify") /\ Succeeds
        BY <1>10, VerifyIs DEF CommitReturns
    <2>2. /\ journal[op.want.run] = None
          /\ op.want.state # "completed" => hostLock[op.want.host] = LockOf(op.want)
        BY <2>1, DoneIs
    <2>3. UNCHANGED <<journal, hostLock, faults>> /\ mem' = [mem EXCEPT ![op.want.run] = op.want]
        BY <1>10 DEF CommitReturns, Adopt, files
    <2>4. \A q \in Runs : IF q = op.want.run THEN mem'[q] = op.want ELSE mem'[q] = mem[q]
        BY <2>1, <2>3 DEF TypeOK
    <2>5. \A q \in Runs : Of(op.want, q) <=> q = op.want.run
        BY <2>1 DEF Of
    <2>6. \A q \in Runs : Of(op.want, q) \/ mem'[q] = mem[q]
        BY <2>4, <2>5
    <2>7. \A q \in Runs : Of(op.want, q) /\ In(mem'[q], q, Live) =>
             journal[q] = None /\ hostLock[mem'[q].host] = LockOf(mem'[q])
        BY <2>2, <2>4, <2>5 DEF In, Of, Live
    <2> QED
        BY <2>3, <2>6, <2>7, EndAgrees DEF RepairInv
<1>11. CASE FinishReturns
    <2>1. op.want \in Record /\ op.want.run \in Runs /\ op.want.state = "finishing"
        BY <1>11, FinishIs, VerifyIs DEF KindInv
    <2>2. /\ UNCHANGED <<journal, hostLock>> /\ mem' = [mem EXCEPT ![op.want.run] = op.want]
          /\ faults' \in 0..1 => faults \in 0..1
        BY <1>11, FinishIs, FaultAssumption DEF files, TypeOK
    <2>3. \A q \in Runs : IF q = op.want.run THEN mem'[q] = op.want ELSE mem'[q] = mem[q]
        BY <2>1, <2>2 DEF TypeOK
    <2>4. \A q \in Runs : Of(op.want, q) \/ mem'[q] = mem[q]
        BY <2>1, <2>3 DEF Of
    <2>5. \A q \in Runs : Of(op.want, q) => ~In(mem'[q], q, Live)
        BY <2>1, <2>3 DEF Of, In, Live
    <2> QED
        BY <2>2, <2>4, <2>5, EndAgrees DEF RepairInv
<1>12. CASE CompleteReturns
    <2>1. op.want \in Record /\ op.want.run \in Runs /\ Running("verify") /\ Succeeds
        BY <1>12, VerifyIs DEF CompleteReturns
    <2>2. /\ journal[op.want.run] = None
          /\ op.want.state # "completed" => hostLock[op.want.host] = LockOf(op.want)
        BY <2>1, DoneIs
    <2>3. UNCHANGED <<journal, hostLock, faults>> /\ mem' = [mem EXCEPT ![op.want.run] = None]
        BY <1>12 DEF CompleteReturns, Adopt, files
    <2>4. \A q \in Runs : IF q = op.want.run THEN mem'[q] = None ELSE mem'[q] = mem[q]
        BY <2>1, <2>3 DEF TypeOK
    <2>5. \A q \in Runs : Of(op.want, q) <=> q = op.want.run
        BY <2>1 DEF Of
    <2>6. \A q \in Runs : Of(op.want, q) \/ mem'[q] = mem[q]
        BY <2>4, <2>5
    <2>7. \A q \in Runs : Of(op.want, q) /\ In(mem'[q], q, Live) =>
             journal[q] = None /\ hostLock[mem'[q].host] = LockOf(mem'[q])
        BY <2>2, <2>4, <2>5 DEF In, Of, Live
    <2> QED
        BY <2>3, <2>6, <2>7, EndAgrees DEF RepairInv
<1>13. CASE AssignReturns
    <2>1. op.want \in Record /\ op.want.run \in Runs /\ Running("verify") /\ Succeeds
        BY <1>13, VerifyIs DEF AssignReturns
    <2>2. /\ journal[op.want.run] = None
          /\ op.want.state # "completed" => hostLock[op.want.host] = LockOf(op.want)
        BY <2>1, DoneIs
    <2>3. UNCHANGED <<journal, hostLock, faults>> /\ mem' = [mem EXCEPT ![op.want.run] = op.want]
        BY <1>13 DEF AssignReturns, Adopt, files
    <2>4. \A q \in Runs : IF q = op.want.run THEN mem'[q] = op.want ELSE mem'[q] = mem[q]
        BY <2>1, <2>3 DEF TypeOK
    <2>5. \A q \in Runs : Of(op.want, q) <=> q = op.want.run
        BY <2>1 DEF Of
    <2>6. \A q \in Runs : Of(op.want, q) \/ mem'[q] = mem[q]
        BY <2>4, <2>5
    <2>7. \A q \in Runs : Of(op.want, q) /\ In(mem'[q], q, Live) =>
             journal[q] = None /\ hostLock[mem'[q].host] = LockOf(mem'[q])
        BY <2>2, <2>4, <2>5 DEF In, Of, Live
    <2> QED
        BY <2>3, <2>6, <2>7, EndAgrees DEF RepairInv
<1>14. CASE AssignFails
    <2>1. PICK rec \in Record : /\ rec.run = op.want.run /\ rec.state = "quarantined"
                                /\ mem' = [mem EXCEPT ![rec.run] = rec]
        BY <1>14, AssignFailsIs
    <2>2. /\ op.want \in Record /\ op.want.run \in Runs /\ UNCHANGED <<journal, hostLock>>
          /\ faults' \in 0..1 => faults \in 0..1
        BY <1>14, AssignFailsIs, VerifyIs, FaultAssumption DEF TypeOK
    <2>3. \A q \in Runs : IF q = op.want.run THEN mem'[q] = rec ELSE mem'[q] = mem[q]
        BY <2>1, <2>2 DEF TypeOK
    <2>4. \A q \in Runs : Of(op.want, q) \/ mem'[q] = mem[q]
        BY <2>2, <2>3 DEF Of
    <2>5. \A q \in Runs : Of(op.want, q) => ~In(mem'[q], q, Live)
        BY <2>1, <2>3 DEF Of, In, Live
    <2> QED
        BY <2>2, <2>4, <2>5, EndAgrees DEF RepairInv
<1>15. CASE RescueReturns
    <2>1. op.want \in Record /\ op.want.state = "quarantined" /\ mem[op.want.run] = op.want
        BY <1>15, VerifyIs DEF RescueReturns, KindInv
    <2>2. UNCHANGED <<journal, hostLock, mem>> /\ (faults' \in 0..1 => faults \in 0..1)
        BY <1>15, EndedIs DEF RescueReturns
    <2>3. \A q \in Runs : Of(op.want, q) => ~In(mem'[q], q, Live)
        BY <2>1, <2>2 DEF Of, In, Live
    <2> QED
        BY <2>2, <2>3, EndAgrees DEF RepairInv
<1>16. CASE CommitFails
    <2>1. /\ op.want \in Record /\ op.want.run \in Runs /\ op.want.host \in Hosts
          /\ op.phase = "verify" /\ op.at # 6 /\ (op.failed \/ ~Verified(op.want))
        BY <1>16, VerifyIs DEF CommitFails, Succeeds
    <2>2. UNCHANGED <<journal, hostLock, mem, faults>>
        BY <1>16 DEF CommitFails
    <2>3. ASSUME faults \in 0..1, NEW q \in Runs, Of(op.want, q), In(mem[q], q, Live)
          PROVE  journal[q] = None /\ hostLock[mem[q].host] = LockOf(mem[q])
        <3>1. ~op.failed
            BY <2>3 DEF RepairInv, FaultsInv
        <3>2. journal[q] = None
            BY <2>1, <3>1 DEF JournalInv
        <3>3. mem[q] \in Record /\ mem[q].host \in Hosts
            BY <2>3, RecordIs DEF TypeOK, In, Of
        <3>4. mem[q].host = op.want.host
            <4>1. Homed(q, op.want.host)
                BY <2>1, <2>3 DEF HistoryInv, Homed, Of, Possible
            <4> QED
                BY <2>1, <3>3, <4>1, HomeOf
        <3>5. hostLock[mem[q].host] # LockOf(op.want)
            <4>1. SUFFICES ASSUME hostLock[op.want.host] = LockOf(op.want) PROVE Verified(op.want)
                BY <2>1, <3>1, <3>4
            <4>2. q = op.want.run /\ Of(hostLock[op.want.host], q)
                BY <2>1, <2>3, <4>1, LockIs DEF Of
            <4>3. At(assignment[q], q, op.want.host) /\ LockOf(assignment[q]) = LockOf(op.want)
                BY <2>1, <2>3, <3>2, <4>1, <4>2 DEF RepairInv, LocksAgree
            <4>4. assignment[q] \in Record /\ assignment[q].host = op.want.host
                BY <4>3 DEF At, Of, TypeOK
            <4>5. assignment[q].state = op.want.state /\ assignment[q].bound = op.want.bound
                BY <2>1, <4>3, <4>4, LockIs
            <4>6. op.want.state # "completed"
                BY <2>1, <2>3 DEF LevelInv, Ending, Going, In, Of
            <4> QED
                BY <4>1, <4>2, <4>4, <4>5, <4>6 DEF Verified
        <3> QED
            BY <2>3, <3>2, <3>5 DEF RepairInv, MemoryAgrees
    <2> QED
        BY <2>2, <2>3, EndAgrees DEF RepairInv
<1>17. CASE MarkerReturns
    <2>1. op.want \in Record /\ op.want.run \in Runs /\ Running("verify") /\ Succeeds
        BY <1>17, VerifyIs DEF MarkerReturns
    <2>2. /\ journal[op.want.run] = None
          /\ op.want.state # "completed" => hostLock[op.want.host] = LockOf(op.want)
        BY <2>1, DoneIs
    <2>3. /\ UNCHANGED <<journal, hostLock>> /\ mem' = [mem EXCEPT ![op.want.run] = op.want]
          /\ faults' \in 0..1 => faults \in 0..1
        BY <1>17, EndedIs DEF MarkerReturns, Adopt
    <2>4. \A q \in Runs : IF q = op.want.run THEN mem'[q] = op.want ELSE mem'[q] = mem[q]
        BY <2>1, <2>3 DEF TypeOK
    <2>5. \A q \in Runs : Of(op.want, q) <=> q = op.want.run
        BY <2>1 DEF Of
    <2>6. \A q \in Runs : Of(op.want, q) \/ mem'[q] = mem[q]
        BY <2>4, <2>5
    <2>7. \A q \in Runs : Of(op.want, q) /\ In(mem'[q], q, Live) =>
             journal[q] = None /\ hostLock[mem'[q].host] = LockOf(mem'[q])
        BY <2>2, <2>4, <2>5 DEF In, Of, Live
    <2> QED
        BY <2>3, <2>6, <2>7, EndAgrees DEF RepairInv
<1>18. CASE Start
    BY <1>18 DEF RepairInv, MemoryAgrees, In, Of, TypeOK, Start, files, synced, hist
<1>19. CASE RecoverJournals
    <2>1. op.want = None
        BY <1>19, Ends DEF RecoverJournals, Idle, OpInv
    <2>2. UNCHANGED <<journal, hostLock, mem, faults>>
        BY <1>19 DEF RecoverJournals, files
    <2> QED
        BY <2>1, <2>2, EndAgrees DEF RepairInv, Of
<1>20. CASE Serve
    BY <1>20, Ends DEF RepairInv, MemoryAgrees, In, Of, TypeOK, Serve, files, synced, hist,
         Idle
<1>21. ASSUME NEW h \in Hosts, RecoverMarker(h) PROVE MemoryAgrees'
    <2>1. op.want = None
        BY <1>21, MarkerIs, Ends DEF Idle, OpInv
    <2>2. UNCHANGED <<journal, hostLock, mem, faults>>
        BY <1>21, MarkerIs DEF files
    <2> QED
        BY <2>1, <2>2, EndAgrees DEF RepairInv, Of
<1>22. ASSUME NEW h \in Hosts, LoadLock(h) PROVE MemoryAgrees'
    <2>1. /\ mode = "load" /\ op = NoOp /\ UNCHANGED <<journal, hostLock, faults>>
          /\ op.want = None
        BY <1>22, LoadCases, Ends DEF files, OpInv
    <2>2. CASE UNCHANGED mem
        BY <2>1, <2>2, EndAgrees DEF RepairInv, Of
    <2>3. CASE ~UNCHANGED mem
        <3>1. PICK rec \in Record :
                /\ LockMatches(h) /\ rec.run = hostLock[h].run /\ rec.host = h
                /\ IF quar[h] = rec.run THEN rec.state = "quarantined" ELSE rec = assignment[rec.run]
                /\ mem' = [mem EXCEPT ![rec.run] = rec]
            BY <2>3, <1>22, LoadCases
        <3>2. rec.run \in Runs /\ journal[rec.run] = None
            BY <2>1, <3>1, RecordIs DEF UnreadInv
        <3>3. rec.state \in Live => hostLock[h] = LockOf(rec)
            BY <3>1 DEF LockMatches, Live
        <3>4. ASSUME NEW q \in Runs, q # rec.run, In(mem'[q], q, Live), faults \in 0..1
              PROVE  journal[q] = None /\ hostLock[mem'[q].host] = LockOf(mem'[q])
            <4>1. mem'[q] = mem[q]
                BY <3>1, <3>4 DEF TypeOK
            <4> QED
                BY <2>1, <3>4, <4>1, OtherAgrees DEF RepairInv, Of
        <3>5. mem'[rec.run] = rec
            BY <3>1, <3>2 DEF TypeOK
        <3>6. \A q \in Runs : faults \in 0..1 /\ In(mem'[q], q, Live) =>
                journal[q] = None /\ hostLock[mem'[q].host] = LockOf(mem'[q])
            BY <3>1, <3>2, <3>3, <3>4, <3>5 DEF In, Of
        <3> QED
            BY <2>1, <3>6 DEF MemoryAgrees, In, Of
    <2> QED
        BY <2>2, <2>3
<1>23. CASE Crash
    BY <1>23, CrashIs, Ends DEF RepairInv, MemoryAgrees, In, Of, TypeOK, hist, TwinInv
<1> QED
    BY <1>1, <1>2, <1>3, <1>4, <1>5, <1>6, <1>7, <1>8, <1>9, <1>10, <1>11, <1>12, <1>13,
         <1>14, <1>15, <1>16, <1>17, <1>18, <1>19, <1>20, <1>21, <1>22, <1>23 DEF Next,
         Handlers, Transition, Startup, Handle

\* Startup refuses its files only after a second failure.
LEMMA RefusedStep ==
    ASSUME TypeOK, NamesInv, OpInv, TodoInv, UnreadInv, JournalInv, TwinInv, HistoryInv,
           CoherentInv, HomeInv, Exclusive, KindInv, KnownInv, LevelInv, MarkerInv,
           AckedInv, QuarantineInv, ProgressInv, CustodyInv, ReleaseInv, RepairInv,
           ReplayInv, Reliable, OneFaultIsRepaired, Next
    PROVE  OneFaultIsRepaired'
<1> USE NoneDiffers, FaultAssumption
<1>1. ASSUME NEW r \in Runs, NEW h \in Hosts, Assign(r, h) PROVE OneFaultIsRepaired'
    BY <1>1, AssignIs, Ends DEF OneFaultIsRepaired, OpInv, TypeOK, Starts, files, synced,
         Serving, Idle
<1>2. ASSUME NEW r \in Runs, Handle(r) PROVE OneFaultIsRepaired'
    BY <1>2, HandleIs, Ends DEF OneFaultIsRepaired, OpInv, TypeOK, Starts, Handled, Serving,
         Idle
<1>3. ASSUME NEW r \in Runs, SaveAssignment(r) PROVE OneFaultIsRepaired'
    BY <1>3 DEF SaveAssignment, OneFaultIsRepaired
<1>4. CASE FileStep
    BY <1>4 DEF FileStep, OneFaultIsRepaired
<1>5. CASE FileStepFails
    <2>1. mode' \in {mode, "exit"} /\ op.kind # None
        BY <1>5 DEF FileStepFails, Running
    <2> QED
        BY <2>1 DEF OneFaultIsRepaired, OpInv, Idle
<1>6. CASE Scan
    BY <1>6, ScanIs DEF OneFaultIsRepaired, OpInv, TypeOK, Scan, files, synced, hist
<1>7. CASE PickJournal
    BY <1>7 DEF PickJournal, OneFaultIsRepaired
<1>8. CASE ReadFails
    <2>1. mode' \in {mode, "exit"} /\ op.kind # None
        BY <1>8 DEF ReadFails, Running
    <2> QED
        BY <2>1 DEF OneFaultIsRepaired, OpInv, Idle
<1>9. CASE ReplayDone
    BY <1>9, ReplayedIs, Ends DEF OneFaultIsRepaired, OpInv, TypeOK, ReplayDone, files,
         synced, hist
<1>10. CASE CommitReturns
    BY <1>10, VerifyIs, Ends DEF OneFaultIsRepaired, OpInv, TypeOK, CommitReturns, Ack, Adopt,
         files, synced
<1>11. CASE FinishReturns
    BY <1>11, FinishIs, VerifyIs DEF OneFaultIsRepaired, OpInv, TypeOK, Starts, files, synced
<1>12. CASE CompleteReturns
    BY <1>12, VerifyIs, Ends DEF OneFaultIsRepaired, OpInv, TypeOK, CompleteReturns, Ack,
         files, synced
<1>13. CASE AssignReturns
    BY <1>13, VerifyIs, Ends DEF OneFaultIsRepaired, OpInv, TypeOK, AssignReturns, Ack, Adopt,
         files, synced
<1>14. CASE AssignFails
    BY <1>14, AssignFailsIs, VerifyIs DEF OneFaultIsRepaired, OpInv, TypeOK, Starts
<1>15. CASE RescueReturns
    BY <1>15, VerifyIs, Ends DEF OneFaultIsRepaired, OpInv, TypeOK, RescueReturns, Ack, hist,
         files, synced
<1>16. CASE CommitFails
    BY <1>16 DEF CommitFails, OneFaultIsRepaired, Running, OpInv, Idle
<1>17. CASE MarkerReturns
    BY <1>17, VerifyIs, Ends DEF OneFaultIsRepaired, OpInv, TypeOK, MarkerReturns, Ack, Adopt,
         files, synced
<1>18. CASE Start
    BY <1>18 DEF OneFaultIsRepaired, OpInv, TypeOK, Start, files, synced, hist
<1>19. CASE RecoverJournals
    BY <1>19, RecoverIs, Ends DEF OneFaultIsRepaired, OpInv, TypeOK, RecoverJournals, files,
         synced, hist, Idle
<1>20. CASE Serve
    BY <1>20, Ends DEF OneFaultIsRepaired, OpInv, TypeOK, Serve, files, synced, hist, Idle
<1>21. ASSUME NEW h \in Hosts, RecoverMarker(h) PROVE OneFaultIsRepaired'
    BY <1>21, MarkerIs, Ends DEF OneFaultIsRepaired, OpInv, TypeOK, Starts, Idle
<1>22. ASSUME NEW h \in Hosts, LoadLock(h) PROVE OneFaultIsRepaired'
    <2>1. /\ mode = "load" /\ op = NoOp /\ h \in unread /\ UNCHANGED <<journal, hostLock, faults>>
          /\ mode' = mode \/ ~LockMatches(h)
        BY <1>22, LoadCases DEF files, OpInv
    <2>2. SUFFICES ASSUME faults \in 0..1 PROVE LockMatches(h)
        BY <2>1, FaultAssumption DEF OneFaultIsRepaired, TypeOK
    <2>3. PICK q : hostLock[h].run = q
        OBVIOUS
    <2>4. hostLock[h] # None /\ q \in Runs /\ Of(hostLock[h], q)
        BY <2>1, <2>3 DEF UnreadInv, TypeOK, LockRecord, Of
    <2>5. journal[q] = None
        BY <2>1, <2>4, Ends DEF UnreadInv
    <2>6. At(assignment[q], q, h) /\ LockOf(assignment[q]) = hostLock[h]
        BY <2>2, <2>4, <2>5 DEF RepairInv, LocksAgree
    <2>7. hostLock[h].state # "completed"
        BY <2>4 DEF CoherentInv
    <2>8. quar[h] \in {None, q}
        <3>1. SUFFICES ASSUME quar[h] \in Runs PROVE quar[h] = q
            BY DEF TypeOK
        <3>2. Named(quar[h], h) /\ Named(q, h)
            BY <2>4 DEF Named
        <3> QED
            BY <2>4, <3>1, <3>2 DEF Exclusive
    <2> QED
        BY <2>3, <2>6, <2>7, <2>8 DEF LockMatches, At, Of
<1>23. CASE Crash
    BY <1>23 DEF Crash, OneFaultIsRepaired
<1> QED
    BY <1>1, <1>2, <1>3, <1>4, <1>5, <1>6, <1>7, <1>8, <1>9, <1>10, <1>11, <1>12, <1>13,
         <1>14, <1>15, <1>16, <1>17, <1>18, <1>19, <1>20, <1>21, <1>22, <1>23 DEF Next,
         Handlers, Transition, Startup, Handle

-----------------------------------------------------------------------------
(* The invariant, and what follows from it.                                *)

Safe ==
    /\ TwinInv /\ HistoryInv /\ CoherentInv /\ HomeInv /\ Exclusive /\ KindInv /\ KnownInv
    /\ LevelInv /\ MarkerInv /\ AckedInv /\ QuarantineInv /\ ProgressInv /\ CustodyInv
    /\ ReleaseInv /\ RepairInv /\ ReplayInv /\ OneFaultIsRepaired

LEMMA InitSafe == Init => Safe
<1> SUFFICES ASSUME Init PROVE Safe
    OBVIOUS
<1> USE NoneDiffers, Ends
<1>1. /\ op = NoOp /\ mode = "serving" /\ faults = 0
      /\ \A r \in Runs : /\ journal[r] = None /\ sJournal[r] = None /\ assignment[r] = None
                         /\ mem[r] = None /\ acked[r] = None /\ doubt[r] = {}
      /\ \A h \in Hosts : hostLock[h] = None /\ marker[h] = None /\ quar[h] = None
      /\ sAssignment = assignment /\ sHostLock = hostLock /\ sLedger = ledger
    BY DEF Init
<1>2. TwinInv /\ HistoryInv /\ CoherentInv
    BY <1>1 DEF TwinInv, HistoryInv, Possible, CoherentInv, Of
<1>3. HomeInv /\ Exclusive
    BY <1>1 DEF HomeInv, Possible, Exclusive, Named, At, Of
<1>4. KindInv /\ ReplayInv /\ ProgressInv /\ OneFaultIsRepaired
    BY <1>1 DEF KindInv, ReplayInv, ProgressInv, OneFaultIsRepaired, Kinds, Phases
<1>5. KnownInv /\ LevelInv /\ MarkerInv
    BY <1>1 DEF KnownInv, LevelInv, Ending, Going, MarkerInv, In, At, Of
<1>6. AckedInv /\ QuarantineInv /\ CustodyInv /\ ReleaseInv
    BY <1>1 DEF AckedInv, QuarantineInv, Kept, CustodyInv, Ending, ReleaseInv, In, Of
<1>7. RepairInv
    BY <1>1 DEF RepairInv, LocksAgree, MemoryAgrees, FaultsInv, In, Of
<1> QED
    BY <1>2, <1>3, <1>4, <1>5, <1>6, <1>7 DEF Safe

LEMMA SafeStep ==
    ASSUME Reliable, Base, Safe, [Next]_vars
    PROVE  Safe'
<1>1. CASE Next
    <2> USE <1>1 DEF Base, Safe
    <2>1. TwinInv' /\ HistoryInv' /\ CoherentInv'
        BY TwinStep, HistoryStep, CoherentStep
    <2>2. HomeInv' /\ Exclusive'
        BY HomeStep, ExclusiveStep
    <2>3. KindInv' /\ ReplayInv' /\ KnownInv'
        BY KindStep, ReplayStep, KnownStep
    <2>4. LevelInv' /\ MarkerInv'
        BY LevelStep, MarkerStep
    <2>5. AckedInv' /\ QuarantineInv'
        BY AckedStep, QuarantineStep
    <2>6. ProgressInv' /\ CustodyInv' /\ ReleaseInv'
        BY ProgressStep, CustodyStep, ReleaseStep
    <2>7. LocksAgree' /\ MemoryAgrees' /\ FaultsInv'
        BY LocksStep, MemoryStep, FaultsStep
    <2>8. OneFaultIsRepaired'
        BY RefusedStep
    <2> QED
        BY <2>1, <2>2, <2>3, <2>4, <2>5, <2>6, <2>7, <2>8 DEF RepairInv
<1>2. CASE UNCHANGED vars
    <2> USE <1>2 DEF Safe, vars, files, synced, hist
    <2>1. TwinInv' /\ HistoryInv' /\ CoherentInv'
        BY DEF TwinInv, HistoryInv, Possible, CoherentInv, Of
    <2>2. HomeInv' /\ Exclusive'
        BY DEF HomeInv, Possible, Exclusive, Named, At, Of
    <2>3. KindInv' /\ ReplayInv' /\ KnownInv'
        BY DEF KindInv, ReplayInv, KnownInv, In, At, Of
    <2>4. LevelInv' /\ MarkerInv'
        BY DEF LevelInv, Ending, Going, MarkerInv, Early, In, Of
    <2>5. AckedInv' /\ QuarantineInv'
        BY DEF AckedInv, QuarantineInv, Kept, Quarantined, Settled, Marked, In, Of
    <2>6. ProgressInv' /\ CustodyInv' /\ ReleaseInv'
        BY DEF ProgressInv, CustodyInv, Ending, ReleaseInv, Possible, In, Of
    <2>7. RepairInv' /\ OneFaultIsRepaired'
        BY DEF RepairInv, LocksAgree, MemoryAgrees, FaultsInv, OneFaultIsRepaired, In, At, Of
    <2> QED
        BY <2>1, <2>2, <2>3, <2>4, <2>5, <2>6, <2>7
<1> QED
    BY <1>1, <1>2

\* What the files, memory and the transition in flight say of each other, in every
\* reachable state, whatever crashes and restarts come between the file operations of
\* Commit and Recover.
THEOREM SafeInvariance ==
    ASSUME Reliable
    PROVE  Spec => [](Base /\ Safe)
<1>1. Init => Base /\ Safe
    BY InitBase, InitSafe
<1>2. Base /\ Safe /\ [Next]_vars => (Base /\ Safe)'
    BY BaseStep, SafeStep
<1> QED
    BY <1>1, <1>2, PTL DEF Spec

\* A Run that was handed to an Agent owns its Host on disk at every instant: Commit
\* writes the Host Lock before it adopts the record, and no replay, retry or crash
\* takes the lock from a Run that memory holds as assigned or confirmed.
THEOREM AssignedOwns ==
    ASSUME Reliable
    PROVE  Spec => []AssignedOwnsHost
<1>1. Base /\ Safe => AssignedOwnsHost
    BY DEF Base, Safe, AssignedOwnsHost, Owns, CustodyInv, TwinInv, NamesInv, Mine, In, Of, Live
<1> QED
    BY <1>1, SafeInvariance, PTL

\* A quarantine that was reported durable keeps the Host ever after: no stale journal
\* replayed by Recover, no retried handler and no startup gives its Host Lock up.
THEOREM QuarantineKeeps ==
    ASSUME Reliable
    PROVE  Spec => []QuarantineKeepsHost
<1>1. Base /\ Safe => QuarantineKeepsHost
    <2> SUFFICES ASSUME Base, Safe, NEW r \in Runs, acked[r] # None, acked[r].state = "quarantined"
                 PROVE  /\ Owns(r, acked[r].host, hostLock, journal)
                        /\ Owns(r, acked[r].host, sHostLock, sJournal)
        BY DEF QuarantineKeepsHost
    <2>1. acked[r] \in Record /\ acked[r].host \in Hosts /\ acked[r].run = r
        BY RecordIs DEF Base, TypeOK, NamesInv, Mine
    <2>2. assignment[r] # None /\ Of(hostLock[assignment[r].host], r)
        BY <2>1 DEF Safe, AckedInv, Settled, In, Of
    <2>3. Homed(r, acked[r].host)
        BY DEF Homed, Possible
    <2>4. assignment[r].host = acked[r].host
        BY <2>1, <2>2, <2>3, HomeOf DEF Base, Safe
    <2> QED
        BY <2>2, <2>4 DEF Owns, Of, Safe, TwinInv
<1> QED
    BY <1>1, SafeInvariance, PTL

\* Nobody sees a free Host beside an unfinished Run: a completed Run gives its Host Lock
\* up only after its terminal Run Ledger is published, also when persist is cut off and
\* its journal is replayed.
THEOREM TerminalFirst ==
    ASSUME Reliable
    PROVE  Spec => []TerminalBeforeRelease
<1>1. Base /\ Safe => TerminalBeforeRelease
    <2> SUFFICES ASSUME Base, Safe, NEW r \in Runs,
                        assignment[r] # None, assignment[r].state = "completed",
                        ~Of(hostLock[assignment[r].host], r)
                 PROVE  ledger[r] = "terminal" /\ sLedger[r] = "terminal"
        BY DEF TerminalBeforeRelease, Of
    <2>1. assignment[r] \in Record /\ assignment[r].host \in Hosts /\ assignment[r].run = r
        BY RecordIs DEF Base, TypeOK, NamesInv, Mine
    <2>2. Ending(r)
        BY <2>1 DEF Ending, In, Of
    <2>3. ASSUME NEW h \in Hosts, Of(hostLock[h], r) PROVE FALSE
        <3>1. assignment[r].host = h
            BY <2>3, HomeOf DEF Base, Safe
        <3> QED
            BY <2>3, <3>1
    <2> QED
        BY <2>2, <2>3 DEF Safe, CustodyInv, TwinInv
<1> QED
    BY <1>1, SafeInvariance, PTL

\* The serving Control Plane holds for a Run the record of its last Commit that reported
\* success, or one whose Commit failed or was cut off after it; it forgets a Run only
\* when completed is one of these.
THEOREM CommitSurvives ==
    ASSUME Reliable
    PROVE  Spec => []LastCommitSurvives
<1>1. Base /\ Safe => LastCommitSurvives
    <2> SUFFICES ASSUME Base, Safe, mode = "serving", NEW r \in Runs, acked[r] # None
                 PROVE  \/ mem[r] \in Possible(r)
                        \/ mem[r] = None /\ \E rec \in Possible(r) : rec.state = "completed"
        BY DEF LastCommitSurvives, Possible
    <2> USE NoneDiffers
    <2>1. mem[r] \in Possible(r) \/ mem[r] = None
        BY DEF Safe, HistoryInv
    <2>2. ASSUME mem[r] = None, Of(hostLock[acked[r].host], r) PROVE FALSE
        <3>1. acked[r].host \in Hosts
            BY RecordIs DEF Base, TypeOK
        <3>2. op.kind = "assign" /\ Of(op.want, r)
            BY <2>2, <3>1 DEF Safe, KnownInv, At, Of
        <3> QED
            BY <3>2 DEF Safe, KindInv, Of
    <2> QED
        BY <2>1, <2>2 DEF Safe, ReleaseInv
<1> QED
    BY <1>1, SafeInvariance, PTL

\* One failing file operation is repaired by Recover: loadHostAgentState refuses its
\* files only when two or more operations failed.
THEOREM OneFaultRepaired ==
    ASSUME Reliable
    PROVE  Spec => []OneFaultIsRepaired
<1>1. Base /\ Safe => OneFaultIsRepaired
    BY DEF Safe
<1> QED
    BY <1>1, SafeInvariance, PTL

\* Crashes alone, of the process or of the machine and at any file operation, never
\* leave files that loadHostAgentState refuses.
THEOREM StartupNeverRefuses ==
    ASSUME MaxFaults = 0
    PROVE  Spec => []StartupAccepts
<1>1. Reliable
    BY DEF Reliable
<1>2. Base /\ Safe => StartupAccepts
    BY DEF Base, TypeOK, Safe, OneFaultIsRepaired, StartupAccepts
<1> QED
    BY <1>1, <1>2, SafeInvariance, PTL

=============================================================================
