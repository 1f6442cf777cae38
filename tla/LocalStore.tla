------------------------------ MODULE LocalStore ------------------------------
(***************************************************************************)
(* The SQLite file of the poller process and the four threads that use it  *)
(* (offline_buffer.py, local_historian.py, save_telemetry and the loops of *)
(* dynamic_modbus_poller.py). The file holds two tables, each with a       *)
(* module, a connection and a _database_lock of its own: the send queue    *)
(* and the local history. A write takes the lock of its module, without a  *)
(* limit, and then the write lock of the file, for which SQLite waits 30 s *)
(* and gives up with "database is locked". In WAL mode a SELECT takes the  *)
(* first lock only.                                                        *)
(*                                                                         *)
(* Readings are numbered as save_telemetry is called for them. What the    *)
(* queue does with its rows is the subject of TelemetryQueue; here a row   *)
(* of the queue is one that was ever inserted.                             *)
(***************************************************************************)
EXTENDS Naturals

CONSTANTS
    Nobody,         \* holder of a lock that is free
    MaxReadings,    \* bound on the readings taken
    MaxDiskErrors,  \* bound on the writes that the disk refuses
    MaxCrashes      \* bound on the deaths of the process

Threads == {"poll", "flush", "queueCleanup", "historyCleanup"}
Stores == {"queue", "history"}

ASSUME StoreAssumption ==
    /\ Nobody \notin Threads
    /\ MaxReadings \in Nat /\ MaxDiskErrors \in Nat /\ MaxCrashes \in Nat

VARIABLES
    lock,       \* _database_lock of each module
    writer,     \* the thread whose transaction has the file, or Nobody
    pc,         \* where each thread is
    task,       \* the call the poll loop is in: "enqueue" or "record"
    taken,      \* readings taken so far
    queued,     \* readings that telemetry_queue received
    history,    \* rows of telemetry_history
    old,        \* readings taken more than HISTORY_RETENTION_DAYS ago
    cutoff,     \* those that were old when prune_old_history was called
    latest,     \* the reading the alarm evaluator was given last; 0: none
    gaps,       \* history: readings whose way to telemetry_history broke off
    faults      \* how often each bounded fault has happened

tables == <<queued, history>>
vars == <<lock, writer, pc, task, taken, queued, history, old, cutoff, latest,
          gaps, faults>>

Readings == 1..taken

\* The module whose lock and connection a thread works with.
StoreOf(t) ==
    IF t = "historyCleanup" \/ (t = "poll" /\ task = "record")
    THEN "history" ELSE "queue"

Init ==
    /\ lock = [s \in Stores |-> Nobody]
    /\ writer = Nobody
    /\ pc = [t \in Threads |-> "idle"]
    /\ task = "enqueue"
    /\ taken = 0
    /\ queued = {} /\ history = {} /\ old = {} /\ cutoff = {}
    /\ latest = 0
    /\ gaps = {}
    /\ faults = [disk |-> 0, crash |-> 0]

Goto(t, l) == pc' = [pc EXCEPT ![t] = l]
-----------------------------------------------------------------------------
(* The calls. Each thread goes "idle" -> "lock" -> "file" -> "write"; the   *)
(* poll loop goes round twice for a reading, and ends with "latest".        *)

\* process_tag has a finite value and calls save_telemetry.
TakeReading ==
    /\ pc["poll"] = "idle" /\ taken < MaxReadings
    /\ taken' = taken + 1
    /\ task' = "enqueue"
    /\ Goto("poll", "lock")
    /\ UNCHANGED <<lock, writer, tables, old, cutoff, latest, gaps, faults>>

\* flush_pending_batch, or the hourly delete_sent_messages.
CallQueue(t) ==
    /\ t \in {"flush", "queueCleanup"} /\ pc[t] = "idle"
    /\ Goto(t, "lock")
    /\ UNCHANGED <<lock, writer, task, taken, tables, old, cutoff, latest, gaps,
                   faults>>

\* The hourly prune_old_history: it fixes the cutoff before it has the lock.
CallPrune ==
    /\ pc["historyCleanup"] = "idle"
    /\ cutoff' = old
    /\ Goto("historyCleanup", "lock")
    /\ UNCHANGED <<lock, writer, task, taken, tables, old, latest, gaps, faults>>

\* Mutant of TakeLock: the flush thread works without the lock.
TakeLockButFlush(t) ==
    /\ pc[t] = "lock" /\ (lock[StoreOf(t)] = Nobody \/ t = "flush")
    /\ lock' = IF t = "flush" THEN lock ELSE [lock EXCEPT ![StoreOf(t)] = t]
    /\ Goto(t, "file")
    /\ UNCHANGED <<writer, task, taken, tables, old, cutoff, latest, gaps, faults>>
\* `with _database_lock`
TakeLock(t) ==
    /\ pc[t] = "lock" /\ lock[StoreOf(t)] = Nobody
    /\ lock' = [lock EXCEPT ![StoreOf(t)] = t]
    /\ Goto(t, "file")
    /\ UNCHANGED <<writer, task, taken, tables, old, cutoff, latest, gaps, faults>>

ReleaseLock(t) ==
    lock' = [s \in Stores |-> IF lock[s] = t THEN Nobody ELSE lock[s]]

\* get_pending_messages reads and is done.
FlushSelects ==
    /\ pc["flush"] = "file"
    /\ ReleaseLock("flush")
    /\ Goto("flush", "idle")
    /\ UNCHANGED <<writer, task, taken, tables, old, cutoff, latest, gaps, faults>>

\* The INSERT, UPDATE or DELETE begins: the connection gets the file.
OpenTransaction(t) ==
    /\ pc[t] = "file" /\ writer = Nobody
    /\ writer' = t
    /\ Goto(t, "write")
    /\ UNCHANGED <<lock, task, taken, tables, old, cutoff, latest, gaps, faults>>

\* The end of a write, committed or rolled back, and of `with _database_lock`.
CloseTransaction(t) ==
    /\ writer' = IF writer = t THEN Nobody ELSE writer
    /\ ReleaseLock(t)

\* The end of a write of the flush thread or of the queue cleanup.
QueueCommits(t) ==
    /\ t \in {"flush", "queueCleanup"} /\ pc[t] = "write"
    /\ CloseTransaction(t)
    /\ Goto(t, "idle")
    /\ UNCHANGED <<task, taken, tables, old, cutoff, latest, gaps, faults>>

\* enqueue_telemetry commits; record_reading is next.
EnqueueCommits ==
    /\ pc["poll"] = "write" /\ task = "enqueue"
    /\ queued' = queued \cup {taken}
    /\ task' = "record"
    /\ CloseTransaction("poll")
    /\ Goto("poll", "lock")
    /\ UNCHANGED <<taken, history, old, cutoff, latest, gaps, faults>>

RecordCommits ==
    /\ pc["poll"] = "write" /\ task = "record"
    /\ history' = history \cup {taken}
    /\ CloseTransaction("poll")
    /\ Goto("poll", "latest")
    /\ UNCHANGED <<task, taken, queued, old, cutoff, latest, gaps, faults>>

\* record_latest_reading, in memory: save_telemetry is done.
SetLatest ==
    /\ pc["poll"] = "latest"
    /\ latest' = taken
    /\ Goto("poll", "idle")
    /\ UNCHANGED <<lock, writer, task, taken, tables, old, cutoff, gaps, faults>>

\* Mutant of PruneCommits: the comparison is the wrong way round.
PruneCommitsInverted ==
    /\ pc["historyCleanup"] = "write"
    /\ history' = history \cap cutoff
    /\ CloseTransaction("historyCleanup")
    /\ Goto("historyCleanup", "idle")
    /\ UNCHANGED <<task, taken, queued, old, cutoff, latest, gaps, faults>>
PruneCommits ==
    /\ pc["historyCleanup"] = "write"
    /\ history' = history \ cutoff
    /\ CloseTransaction("historyCleanup")
    /\ Goto("historyCleanup", "idle")
    /\ UNCHANGED <<task, taken, queued, old, cutoff, latest, gaps, faults>>
-----------------------------------------------------------------------------
(* What can go wrong.                                                      *)

\* Mutant of Raises: record_reading is called without a try of its own.
RaisesThrough(t) ==
    /\ CloseTransaction(t)
    /\ Goto(t, "idle")
    /\ gaps' = IF t = "poll" /\ task = "record" THEN gaps \cup {taken} ELSE gaps
    /\ UNCHANGED <<task, taken, tables, old, cutoff, latest>>
\* Mutant of Raises: the queue's marking gives back its lock on success only.
RaisesWithLock(t) ==
    LET swallowed == t = "poll" /\ task = "record" IN
    /\ writer' = IF writer = t THEN Nobody ELSE writer
    /\ t # "flush" => ReleaseLock(t)
    /\ t = "flush" => UNCHANGED lock
    /\ Goto(t, IF swallowed THEN "latest" ELSE "idle")
    /\ gaps' = IF swallowed THEN gaps \cup {taken} ELSE gaps
    /\ UNCHANGED <<task, taken, tables, old, cutoff, latest>>
\* An exception in a write. Every thread logs it and goes on; that of
\* record_reading stops inside save_telemetry, that of enqueue_telemetry in
\* the loop over the tags, which will not read this tag again before its time.
Raises(t) ==
    LET swallowed == t = "poll" /\ task = "record" IN
    /\ CloseTransaction(t)
    /\ Goto(t, IF swallowed THEN "latest" ELSE "idle")
    /\ gaps' = IF swallowed THEN gaps \cup {taken} ELSE gaps
    /\ UNCHANGED <<task, taken, tables, old, cutoff, latest>>

\* "database is locked": another transaction has had the file for 30 s.
FileTimeout(t) ==
    /\ pc[t] = "file" /\ writer # Nobody
    /\ Raises(t)
    /\ UNCHANGED faults

\* The disk is full, or fails.
DiskError(t) ==
    /\ pc[t] = "write"
    /\ faults.disk < MaxDiskErrors
    /\ faults' = [faults EXCEPT !.disk = @ + 1]
    /\ Raises(t)

\* The process dies and is started again: SQLite rolls back what was open.
Crash ==
    /\ faults.crash < MaxCrashes
    /\ faults' = [faults EXCEPT !.crash = @ + 1]
    /\ lock' = [s \in Stores |-> Nobody]
    /\ writer' = Nobody
    /\ pc' = [t \in Threads |-> "idle"]
    /\ task' = "enqueue"
    /\ cutoff' = {}
    /\ latest' = 0
    /\ gaps' = IF pc["poll"] = "idle" THEN gaps
               ELSE gaps \cup (({taken} \cap queued) \ history)
    /\ UNCHANGED <<taken, tables, old>>

\* Thirty days have passed since the oldest of the younger readings.
GrowOld ==
    \E r \in Readings \ old :
        /\ r < taken \/ pc["poll"] = "idle"
        /\ \A q \in Readings \ old : r <= q
        /\ old' = old \cup {r}
        /\ UNCHANGED <<lock, writer, pc, task, taken, tables, cutoff, latest,
                       gaps, faults>>
-----------------------------------------------------------------------------
Commits ==
    \/ \E t \in Threads : QueueCommits(t)
    \/ EnqueueCommits \/ RecordCommits \/ PruneCommits

Next ==
    \/ TakeReading
    \/ \E t \in Threads : CallQueue(t)
    \/ CallPrune
    \/ \E t \in Threads : TakeLock(t)
    \/ FlushSelects
    \/ \E t \in Threads : OpenTransaction(t)
    \/ Commits
    \/ SetLatest
    \/ \E t \in Threads : FileTimeout(t)
    \/ \E t \in Threads : DiskError(t)
    \/ Crash
    \/ GrowOld

Spec == Init /\ [][Next]_vars

(* Every statement ends at last, a bulk DELETE included, and a thread that  *)
(* waits for the file either gets it or is told after 30 s. The lock of a   *)
(* module is let go for the sleep of a loop again and again (the marking    *)
(* loop of a flush ends with its batch), and a waiting poll loop gets it.   *)
FileServed(t) == WF_vars(OpenTransaction(t) \/ FileTimeout(t))
AllFilesServed == \A t \in Threads : FileServed(t)

Fairness ==
    /\ AllFilesServed
    /\ WF_vars(\E t \in Threads : QueueCommits(t))
    /\ WF_vars(EnqueueCommits) /\ WF_vars(RecordCommits) /\ WF_vars(PruneCommits)
    /\ WF_vars(SetLatest)
    /\ SF_vars(TakeLock("poll"))

FairSpec == Spec /\ Fairness
-----------------------------------------------------------------------------
(* Properties.                                                             *)

\* Types; one transaction at a time has the file.
TypeOK ==
    /\ lock \in [Stores -> Threads \cup {Nobody}]
    /\ writer \in Threads \cup {Nobody}
    /\ pc \in [Threads -> {"idle", "lock", "file", "write", "latest"}]
    /\ task \in {"enqueue", "record"}
    /\ taken \in 0..MaxReadings
    /\ queued \subseteq Readings /\ history \subseteq Readings
    /\ old \subseteq Readings /\ cutoff \subseteq Readings
    /\ latest \in 0..taken /\ gaps \subseteq Readings
    /\ faults \in [disk : 0..MaxDiskErrors, crash : 0..MaxCrashes]
    /\ \A t \in Threads : pc[t] = "write" <=> writer = t

InSave(r) == r = taken /\ pc["poll"] # "idle"

\* The history says what happened: a reading that was queued for the cloud is
\* in it, unless it is older than the retention, on its way, or was broken off
\* by an exception or a death between the two inserts; and it holds nothing
\* that was not queued.
HistoryFollowsQueue ==
    /\ history \subseteq queued
    /\ \A r \in queued : r \in history \cup old \cup gaps \/ InSave(r)

\* "a historian write failing must never block or fail the actual telemetry
\* upload path": whatever the historian does, the alarm evaluator works on the
\* last reading that was queued, or on the one before while that is on its way.
LatestKeepsUp ==
    latest # 0 =>
        /\ latest \in queued
        /\ \A r \in queued : r > latest => InSave(r)

LosesReading ==
    /\ pc["poll"] = "file" /\ task = "enqueue"
    /\ pc'["poll"] = "idle" /\ faults' = faults

\* A reading that found the file locked was lost to prune_old_history and to
\* nothing else: the lock of the queue keeps the others from its 30 s.
LostOnlyToPrune ==
    [][LosesReading => writer = "historyCleanup"]_vars

\* A thread waits for the lock of a module only while its holder is at work on
\* the file, and for the file only while a transaction is open there: the waits
\* are never circular, and nobody waits for a thread that has gone to sleep.
NobodyWaitsInACircle ==
    /\ \A t \in Threads : pc[t] = "lock" /\ lock[StoreOf(t)] # Nobody =>
          pc[lock[StoreOf(t)]] \in {"file", "write"}
    /\ writer # Nobody => pc[writer] = "write"

\* What Fairness is about can be done where its thread is: one that has its lock
\* can go on, and one that waits for a free lock can take it.
StepsCanBeTaken ==
    /\ \A t \in Threads : pc[t] = "file" =>
          ENABLED <<OpenTransaction(t) \/ FileTimeout(t)>>_vars
    /\ pc["flush"] = "write" \/ pc["queueCleanup"] = "write" =>
          ENABLED <<\E t \in Threads : QueueCommits(t)>>_vars
    /\ pc["poll"] = "write" /\ task = "enqueue" => ENABLED <<EnqueueCommits>>_vars
    /\ pc["poll"] = "write" /\ task = "record" => ENABLED <<RecordCommits>>_vars
    /\ pc["historyCleanup"] = "write" => ENABLED <<PruneCommits>>_vars
    /\ pc["poll"] = "latest" => ENABLED <<SetLatest>>_vars
    /\ pc["poll"] = "lock" /\ lock[StoreOf("poll")] = Nobody =>
          ENABLED <<TakeLock("poll")>>_vars

NobodyStuck == NobodyWaitsInACircle /\ StepsCanBeTaken

\* No lock is left behind and nobody waits in a circle: save_telemetry always
\* returns, and the poll loop goes on to the next tag.
PollLoopGoesOn == []<>(pc["poll"] = "idle")
=============================================================================
