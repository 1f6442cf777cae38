-------------------------- MODULE LocalStoreProofs --------------------------
(***************************************************************************)
(* LocalStore for any number of readings, disk errors and deaths: types,   *)
(* what the history holds, what the alarm evaluator works on, and which    *)
(* thread alone can make the queue refuse a reading.                       *)
(***************************************************************************)
EXTENDS LocalStore, TLAPS

\* A thread has the lock of its module from "file" on, and nobody else has it.
LockHeld ==
    /\ \A t \in Threads : pc[t] \in {"file", "write"} => lock[StoreOf(t)] = t
    /\ \A s \in Stores : lock[s] # Nobody =>
          pc[lock[s]] \in {"file", "write"} /\ StoreOf(lock[s]) = s

\* Where the poll loop is in save_telemetry, and which readings it has queued.
SaveOrder ==
    /\ \A t \in Threads : pc[t] = "latest" => t = "poll" /\ task = "record"
    /\ pc["poll"] # "idle" => taken \in Nat \ {0}
    /\ pc["poll"] # "idle" /\ task = "enqueue" => taken \notin queued
    /\ pc["poll"] # "idle" /\ task = "record" => taken \in queued

\* What is missing in the history is explained before save_telemetry returns.
RecordOrder ==
    /\ pc["poll"] = "latest" => taken \in history \cup old \cup gaps
    /\ cutoff \subseteq old

IInv == TypeOK /\ LockHeld /\ SaveOrder /\ RecordOrder /\ HistoryFollowsQueue
        /\ LatestKeepsUp
-----------------------------------------------------------------------------
LEMMA InitIInv == Init => IInv
BY StoreAssumption DEF Init, IInv, TypeOK, LockHeld, SaveOrder, RecordOrder,
   HistoryFollowsQueue, LatestKeepsUp, Threads, Stores, Readings, StoreOf, InSave

\* Calls, locks and transactions that touch no table.
LEMMA LockIInv ==
    ASSUME IInv, NEW t \in Threads,
           \/ CallQueue(t) \/ CallPrune \/ TakeLock(t) \/ FlushSelects
           \/ OpenTransaction(t) \/ QueueCommits(t)
    PROVE  IInv'
<1> USE StoreAssumption DEF IInv, CallQueue, CallPrune, TakeLock, FlushSelects,
        OpenTransaction, QueueCommits, CloseTransaction, ReleaseLock, Goto,
        tables, Threads, Stores, StoreOf
<1>1. TypeOK'
  <2>1. \A u \in Threads : pc'[u] = "write" <=> writer' = u
    BY DEF TypeOK
  <2>2. /\ pc' \in [Threads -> {"idle", "lock", "file", "write", "latest"}]
        /\ lock' \in [Stores -> Threads \cup {Nobody}]
        /\ writer' \in Threads \cup {Nobody}
    BY DEF TypeOK
  <2>3. cutoff' \subseteq Readings
    BY DEF TypeOK
  <2> QED
    BY <2>1, <2>2, <2>3 DEF TypeOK, Readings
<1>2. LockHeld'
  BY DEF TypeOK, LockHeld
<1>3. SaveOrder' /\ RecordOrder'
  BY DEF TypeOK, SaveOrder, RecordOrder
<1>4. HistoryFollowsQueue' /\ LatestKeepsUp'
  BY DEF TypeOK, HistoryFollowsQueue, LatestKeepsUp, InSave
<1> QED
  BY <1>1, <1>2, <1>3, <1>4

\* The steps of save_telemetry.
LEMMA SaveIInv ==
    ASSUME IInv, TakeReading \/ EnqueueCommits \/ RecordCommits \/ SetLatest
    PROVE  IInv'
<1> USE StoreAssumption DEF IInv, TakeReading, EnqueueCommits, RecordCommits,
        SetLatest, CloseTransaction, ReleaseLock, Goto, tables, Threads, Stores,
        StoreOf
<1>1. TypeOK'
  <2>1. \A u \in Threads : pc'[u] = "write" <=> writer' = u
    BY DEF TypeOK
  <2>2. /\ pc' \in [Threads -> {"idle", "lock", "file", "write", "latest"}]
        /\ lock' \in [Stores -> Threads \cup {Nobody}]
        /\ writer' \in Threads \cup {Nobody}
    BY DEF TypeOK
  <2>3. /\ taken' \in 0..MaxReadings /\ taken <= taken'
        /\ latest' \in 0..taken'
        /\ task' \in {"enqueue", "record"}
    BY DEF TypeOK
  <2>4. Readings \subseteq Readings'
    BY <2>3 DEF TypeOK, Readings
  <2>5. pc["poll"] # "idle" => taken \in Readings
    BY DEF SaveOrder, Readings
  <2>6. queued' \subseteq Readings' /\ history' \subseteq Readings'
    BY <2>4, <2>5 DEF TypeOK
  <2>7. old' \subseteq Readings' /\ cutoff' \subseteq Readings'
        /\ gaps' \subseteq Readings'
    BY <2>4 DEF TypeOK
  <2> QED
    BY <2>1, <2>2, <2>3, <2>6, <2>7 DEF TypeOK
<1>2. LockHeld'
  BY DEF TypeOK, LockHeld
<1>3. SaveOrder'
  BY DEF TypeOK, SaveOrder, Readings
<1>6. RecordOrder'
  BY DEF TypeOK, SaveOrder, RecordOrder
<1>4. HistoryFollowsQueue'
  BY DEF TypeOK, SaveOrder, RecordOrder, HistoryFollowsQueue, InSave, Readings
<1>5. LatestKeepsUp'
  <2>1. CASE TakeReading
    BY <2>1 DEF TypeOK, LatestKeepsUp, InSave, Readings
  <2>2. CASE EnqueueCommits \/ RecordCommits
    BY <2>2 DEF TypeOK, SaveOrder, LatestKeepsUp, InSave
  <2>3. CASE SetLatest
    BY <2>3 DEF TypeOK, SaveOrder, LatestKeepsUp, Readings
  <2> QED
    BY <2>1, <2>2, <2>3
<1> QED
  BY <1>1, <1>2, <1>3, <1>4, <1>5, <1>6

\* Readings grow old and are pruned.
LEMMA PruneIInv ==
    ASSUME IInv, PruneCommits \/ GrowOld
    PROVE  IInv'
<1> USE StoreAssumption DEF IInv, PruneCommits, GrowOld, CloseTransaction,
        ReleaseLock, Goto, tables, Threads, Stores, StoreOf
<1>1. TypeOK'
  <2>1. \A u \in Threads : pc'[u] = "write" <=> writer' = u
    BY DEF TypeOK
  <2>2. old' \subseteq Readings /\ history' \subseteq Readings
    BY DEF TypeOK
  <2>3. /\ pc' \in [Threads -> {"idle", "lock", "file", "write", "latest"}]
        /\ lock' \in [Stores -> Threads \cup {Nobody}]
        /\ writer' \in Threads \cup {Nobody}
    BY DEF TypeOK
  <2> QED
    BY <2>1, <2>2, <2>3 DEF TypeOK, Readings
<1>2. LockHeld'
  BY DEF TypeOK, LockHeld
<1>3. SaveOrder' /\ RecordOrder'
  BY DEF TypeOK, SaveOrder, RecordOrder
<1>4. HistoryFollowsQueue' /\ LatestKeepsUp'
  BY DEF TypeOK, RecordOrder, HistoryFollowsQueue, LatestKeepsUp, InSave
<1> QED
  BY <1>1, <1>2, <1>3, <1>4

\* An exception ends the write of one thread.
LEMMA FailureIInv ==
    ASSUME IInv, NEW t \in Threads, FileTimeout(t) \/ DiskError(t)
    PROVE  IInv'
<1> USE StoreAssumption DEF IInv, FileTimeout, DiskError, Raises,
        CloseTransaction, ReleaseLock, Goto, tables, Threads, Stores, StoreOf
<1>1. TypeOK'
  <2>1. faults' \in [disk : 0..MaxDiskErrors, crash : 0..MaxCrashes]
    BY DEF TypeOK
  <2>2. \A u \in Threads : pc'[u] = "write" <=> writer' = u
    BY DEF TypeOK
  <2>3. gaps' \subseteq Readings'
    BY DEF TypeOK, SaveOrder, Readings
  <2> QED
    BY <2>1, <2>2, <2>3 DEF TypeOK, Readings
<1>2. LockHeld'
  BY DEF TypeOK, LockHeld
<1>3. SaveOrder' /\ RecordOrder'
  BY DEF TypeOK, SaveOrder, RecordOrder
<1>4. HistoryFollowsQueue' /\ LatestKeepsUp'
  BY DEF TypeOK, SaveOrder, HistoryFollowsQueue, LatestKeepsUp, InSave
<1> QED
  BY <1>1, <1>2, <1>3, <1>4

\* The process dies: no lock, no transaction, no reading under way is left.
LEMMA CrashIInv ==
    ASSUME IInv, Crash
    PROVE  IInv'
<1> USE StoreAssumption DEF IInv, Crash, tables, Threads, Stores, StoreOf
<1>1. TypeOK'
  BY DEF TypeOK, Readings
<1>2. LockHeld' /\ SaveOrder' /\ RecordOrder' /\ LatestKeepsUp'
  BY DEF TypeOK, LockHeld, SaveOrder, RecordOrder, LatestKeepsUp
<1>3. HistoryFollowsQueue'
  BY DEF TypeOK, HistoryFollowsQueue, InSave
<1> QED
  BY <1>1, <1>2, <1>3

LEMMA NextIInv == IInv /\ [Next]_vars => IInv'
<1> SUFFICES ASSUME IInv, [Next]_vars PROVE IInv'
  OBVIOUS
<1>1. ASSUME NEW t \in Threads,
             \/ CallQueue(t) \/ TakeLock(t) \/ OpenTransaction(t)
             \/ QueueCommits(t)
      PROVE  IInv'
  BY <1>1, LockIInv
<1>2. CASE CallPrune \/ FlushSelects
  BY <1>2, LockIInv DEF Threads
<1>3. CASE TakeReading \/ EnqueueCommits \/ RecordCommits \/ SetLatest
  BY <1>3, SaveIInv
<1>4. CASE PruneCommits \/ GrowOld
  BY <1>4, PruneIInv
<1>5. ASSUME NEW t \in Threads, FileTimeout(t) \/ DiskError(t) PROVE IInv'
  BY <1>5, FailureIInv
<1>6. CASE Crash
  BY <1>6, CrashIInv
<1>7. CASE UNCHANGED vars
  BY <1>7 DEF vars, tables, IInv, TypeOK, LockHeld, SaveOrder, RecordOrder,
     HistoryFollowsQueue, LatestKeepsUp, Readings, StoreOf, InSave
<1> QED
  BY <1>1, <1>2, <1>3, <1>4, <1>5, <1>6, <1>7 DEF Next, Commits

THEOREM InvariantHolds == Spec => []IInv
BY InitIInv, NextIInv, PTL DEF Spec
-----------------------------------------------------------------------------
\* The types of the locks and tables; one transaction has the file.
THEOREM TypeCorrect == Spec => []TypeOK
<1>1. IInv => TypeOK
  BY DEF IInv
<1> QED
  BY InvariantHolds, <1>1, PTL

\* local_historian holds what was queued, but for what faults or age took.
THEOREM HistoryComplete == Spec => []HistoryFollowsQueue
<1>1. IInv => HistoryFollowsQueue
  BY DEF IInv
<1> QED
  BY InvariantHolds, <1>1, PTL

\* save_telemetry hands the alarm evaluator every reading that it queues.
THEOREM AlarmsKeepUp == Spec => []LatestKeepsUp
<1>1. IInv => LatestKeepsUp
  BY DEF IInv
<1> QED
  BY InvariantHolds, <1>1, PTL

\* When enqueue_telemetry finds the file locked for 30 s, it is pruning: the
\* poll loop has the lock of the queue, so no other thread writes there.
THEOREM OnlyPruneRefuses == Spec => LostOnlyToPrune
<1>1. ASSUME IInv, Next, LosesReading PROVE writer = "historyCleanup"
  <2>1. FileTimeout("poll")
    BY <1>1 DEF IInv, TypeOK, Threads, Next, Commits, LosesReading, TakeReading,
       CallQueue, CallPrune, TakeLock, FlushSelects, OpenTransaction,
       QueueCommits, EnqueueCommits, RecordCommits, PruneCommits, SetLatest,
       FileTimeout, DiskError, Raises, Crash, GrowOld, Goto
  <2>2. writer \in Threads /\ pc[writer] = "write" /\ writer # "poll"
    BY <1>1, <2>1 DEF IInv, TypeOK, FileTimeout, LosesReading
  <2>3. lock[StoreOf(writer)] = writer /\ lock["queue"] = "poll"
    BY <1>1, <2>1, <2>2 DEF IInv, LockHeld, LosesReading, Threads, StoreOf
  <2> QED
    BY <2>2, <2>3 DEF Threads, StoreOf
<1>2. IInv /\ [Next]_vars => [LosesReading => writer = "historyCleanup"]_vars
  BY <1>1
<1> QED
  BY InvariantHolds, <1>2, PTL DEF Spec, LostOnlyToPrune
-----------------------------------------------------------------------------
(* Progress. The poll loop is at one of these points of save_telemetry;     *)
(* what each step of the system makes of a point is a fact about one step,  *)
(* and the rest is temporal.                                                *)

\* Nobody waits for a lock whose holder is not at work, nor for a dead writer.
THEOREM WaitsEnd == Spec => []NobodyWaitsInACircle
<1>1. IInv => NobodyWaitsInACircle
  BY DEF IInv, TypeOK, LockHeld, NobodyWaitsInACircle, Threads, Stores, StoreOf
<1> QED
  BY InvariantHolds, <1>1, PTL

At(t, l) == pc[t] = l
PollIdle == pc["poll"] = "idle"
PollAt(k, l) == pc["poll"] = l /\ task = k
Tasks == {"enqueue", "record"}

StoreOfTask(k) == IF k = "enqueue" THEN "queue" ELSE "history"

\* Those that may have the lock that the poll loop waits for.
Rivals(k) == IF k = "enqueue" THEN {"flush", "queueCleanup"} ELSE {"historyCleanup"}

\* The poll loop waits while rival h is at l.
WaitsFor(k, h, l) == PollAt(k, "lock") /\ lock[StoreOfTask(k)] = h /\ At(h, l)
LockFree(k) == lock[StoreOfTask(k)] = Nobody

\* The points of the poll loop, and what may follow each.
LEMMA PollPoints ==
    ASSUME IInv
    PROVE  \/ PollIdle
           \/ \E k \in Tasks :
                 PollAt(k, "lock") \/ PollAt(k, "file") \/ PollAt(k, "write")
           \/ PollAt("record", "latest")
BY DEF IInv, TypeOK, SaveOrder, Threads, PollIdle, PollAt, Tasks

LEMMA PollSteps ==
    ASSUME IInv, [Next]_vars, NEW k \in Tasks
    PROVE  /\ PollAt(k, "lock") =>
                 PollAt(k, "lock")' \/ PollAt(k, "file")' \/ PollIdle'
           /\ PollAt(k, "file") =>
                 \/ PollAt(k, "file")' \/ PollAt(k, "write")' \/ PollIdle'
                 \/ (k = "record" /\ PollAt("record", "latest")')
           /\ PollAt(k, "write") =>
                 \/ PollAt(k, "write")' \/ PollIdle'
                 \/ (k = "enqueue" /\ PollAt("record", "lock")')
                 \/ (k = "record" /\ PollAt("record", "latest")')
           /\ PollAt("record", "latest") => PollAt("record", "latest")' \/ PollIdle'
BY DEF IInv, TypeOK, Threads, PollAt, PollIdle, Tasks, Next, Commits, vars,
   TakeReading, CallQueue, CallPrune, TakeLock, FlushSelects, OpenTransaction,
   QueueCommits, EnqueueCommits, RecordCommits, PruneCommits, SetLatest,
   FileTimeout, DiskError, Raises, Crash, GrowOld, Goto

\* A rival goes from the file to its write and from there to the end; the poll
\* loop meanwhile waits, unless the process dies.
LEMMA RivalSteps ==
    ASSUME IInv, [Next]_vars, NEW k \in Tasks, NEW h \in Rivals(k)
    PROVE  /\ WaitsFor(k, h, "file") =>
                 \/ WaitsFor(k, h, "file")' \/ WaitsFor(k, h, "write")'
                 \/ LockFree(k)' \/ ~PollAt(k, "lock")'
           /\ WaitsFor(k, h, "write") =>
                 WaitsFor(k, h, "write")' \/ LockFree(k)' \/ ~PollAt(k, "lock")'
BY StoreAssumption
   DEF IInv, TypeOK, LockHeld, Threads, Stores, StoreOf, PollAt, At, Tasks, Rivals,
   StoreOfTask, WaitsFor, LockFree, Next, Commits, vars, TakeReading, CallQueue,
   CallPrune, TakeLock, FlushSelects, OpenTransaction, QueueCommits, EnqueueCommits,
   RecordCommits, PruneCommits, SetLatest, FileTimeout, DiskError, Raises,
   CloseTransaction, ReleaseLock, Crash, GrowOld, Goto

LEMMA WaitsForRival ==
    ASSUME IInv, NEW k \in Tasks, PollAt(k, "lock")
    PROVE  LockFree(k) \/ \E h \in Rivals(k) :
               WaitsFor(k, h, "file") \/ WaitsFor(k, h, "write")
BY DEF IInv, TypeOK, LockHeld, Threads, Stores, StoreOf, PollAt, At, Tasks, Rivals,
   StoreOfTask, WaitsFor, LockFree
-----------------------------------------------------------------------------
(* What fairness makes of the points where a thread cannot stay.           *)

Progress == FairSpec /\ []StepsCanBeTaken

Leaves(t, l) == At(t, l) ~> ~At(t, l)
PollLeaves(k, l) == PollAt(k, l) ~> ~PollAt(k, l)
FindsFree(k) == PollAt(k, "lock") ~> LockFree(k) \/ ~PollAt(k, "lock")
GivesWay(k, h) ==
    WaitsFor(k, h, "file") \/ WaitsFor(k, h, "write") ~> LockFree(k) \/ ~PollAt(k, "lock")

LEMMA FileLeft ==
    ASSUME NEW t \in Threads
    PROVE  Progress => Leaves(t, "file")
<1>1. <<OpenTransaction(t) \/ FileTimeout(t)>>_vars /\ IInv => (~At(t, "file"))'
  BY DEF At, OpenTransaction, FileTimeout, Raises, Goto, IInv, TypeOK
<1>2. StepsCanBeTaken /\ At(t, "file")
          => ENABLED <<OpenTransaction(t) \/ FileTimeout(t)>>_vars
  BY DEF StepsCanBeTaken, At
<1>3. AllFilesServed => FileServed(t)
  BY DEF AllFilesServed
<1> QED
  BY <1>1, <1>2, <1>3, InvariantHolds, PTL
     DEF Progress, FairSpec, Fairness, FileServed, Leaves

LEMMA QueueWriteLeft ==
    ASSUME NEW h \in {"flush", "queueCleanup"}
    PROVE  Progress => Leaves(h, "write")
<1>1. <<\E t \in Threads : QueueCommits(t)>>_vars /\ IInv /\ At(h, "write")
          => (~At(h, "write"))'
  BY DEF At, QueueCommits, Goto, IInv, TypeOK, Threads
<1>2. StepsCanBeTaken /\ At(h, "write")
          => ENABLED <<\E t \in Threads : QueueCommits(t)>>_vars
  BY DEF StepsCanBeTaken, At
<1> QED
  BY <1>1, <1>2, InvariantHolds, PTL
     DEF Progress, FairSpec, Fairness, Leaves, PollLeaves, FindsFree

LEMMA PruneWriteLeft ==
    Progress => Leaves("historyCleanup", "write")
<1>1. <<PruneCommits>>_vars /\ IInv => (~At("historyCleanup", "write"))'
  BY DEF At, PruneCommits, Goto, IInv, TypeOK, Threads
<1>2. StepsCanBeTaken /\ At("historyCleanup", "write")
          => ENABLED <<PruneCommits>>_vars
  BY DEF StepsCanBeTaken, At
<1> QED
  BY <1>1, <1>2, InvariantHolds, PTL
     DEF Progress, FairSpec, Fairness, Leaves, PollLeaves, FindsFree

LEMMA PollWriteLeft ==
    Progress => PollLeaves("enqueue", "write") /\ PollLeaves("record", "write")
<1>1. /\ <<EnqueueCommits>>_vars /\ IInv => (~PollAt("enqueue", "write"))'
      /\ <<RecordCommits>>_vars /\ IInv => (~PollAt("record", "write"))'
  BY DEF PollAt, EnqueueCommits, RecordCommits, Goto, IInv, TypeOK, Threads
<1>2. StepsCanBeTaken
          => /\ PollAt("enqueue", "write") => ENABLED <<EnqueueCommits>>_vars
             /\ PollAt("record", "write") => ENABLED <<RecordCommits>>_vars
  BY DEF StepsCanBeTaken, PollAt
<1> QED
  BY <1>1, <1>2, InvariantHolds, PTL
     DEF Progress, FairSpec, Fairness, Leaves, PollLeaves, FindsFree

LEMMA LatestLeft ==
    Progress => PollLeaves("record", "latest")
<1>1. <<SetLatest>>_vars /\ IInv => (~PollAt("record", "latest"))'
  BY DEF PollAt, SetLatest, Goto, IInv, TypeOK, Threads
<1>2. StepsCanBeTaken /\ PollAt("record", "latest") => ENABLED <<SetLatest>>_vars
  BY DEF StepsCanBeTaken, PollAt
<1> QED
  BY <1>1, <1>2, InvariantHolds, PTL
     DEF Progress, FairSpec, Fairness, Leaves, PollLeaves, FindsFree

\* A poll loop that waits finds its lock free again and again.
LEMMA RivalGivesWay ==
    ASSUME NEW k \in Tasks, NEW h \in Rivals(k)
    PROVE  Progress => GivesWay(k, h)
<1>1. WaitsFor(k, h, "file") => At(h, "file")
  BY DEF WaitsFor
<1>2. WaitsFor(k, h, "write") => At(h, "write") /\ ~At(h, "file")
  BY DEF WaitsFor, At
<1>3. Progress => Leaves(h, "file")
  <2> h \in Threads
    BY DEF Rivals, Tasks, Threads
  <2> QED
    BY FileLeft
<1>4. Progress => Leaves(h, "write")
  <2>1. CASE h \in {"flush", "queueCleanup"}
    BY <2>1, QueueWriteLeft
  <2>2. CASE h = "historyCleanup"
    BY <2>2, PruneWriteLeft
  <2> QED
    BY <2>1, <2>2 DEF Rivals, Tasks
<1>5. IInv /\ [Next]_vars =>
          /\ WaitsFor(k, h, "file") =>
                 \/ WaitsFor(k, h, "file")' \/ WaitsFor(k, h, "write")'
                 \/ LockFree(k)' \/ ~PollAt(k, "lock")'
          /\ WaitsFor(k, h, "write") =>
                 WaitsFor(k, h, "write")' \/ LockFree(k)' \/ ~PollAt(k, "lock")'
  BY RivalSteps
<1> QED
  BY <1>1, <1>2, <1>3, <1>4, <1>5, InvariantHolds, PTL
     DEF Progress, FairSpec, Spec, Leaves, GivesWay

LEMMA LockLeft ==
    ASSUME NEW k \in Tasks
    PROVE  Progress => PollLeaves(k, "lock")
<1>1. <<TakeLock("poll")>>_vars /\ IInv => (~PollAt(k, "lock"))'
  BY DEF PollAt, TakeLock, Goto, IInv, TypeOK, Threads
<1>2. StepsCanBeTaken /\ PollAt(k, "lock") /\ LockFree(k)
          => ENABLED <<TakeLock("poll")>>_vars
  BY DEF StepsCanBeTaken, PollAt, LockFree, StoreOfTask, StoreOf, Tasks
<1>3. Progress => FindsFree(k)
  <2>1. CASE k = "enqueue"
    <3>1. IInv /\ PollAt(k, "lock") =>
              \/ LockFree(k)
              \/ WaitsFor(k, "flush", "file") \/ WaitsFor(k, "flush", "write")
              \/ WaitsFor(k, "queueCleanup", "file")
              \/ WaitsFor(k, "queueCleanup", "write")
      BY <2>1, WaitsForRival DEF Rivals
    <3>2. Progress => GivesWay(k, "flush")
      BY <2>1, RivalGivesWay DEF Rivals
    <3>3. Progress => GivesWay(k, "queueCleanup")
      BY <2>1, RivalGivesWay DEF Rivals
    <3> QED
      BY <3>1, <3>2, <3>3, InvariantHolds, PTL
         DEF Progress, FairSpec, GivesWay, FindsFree
  <2>2. CASE k = "record"
    <3>1. IInv /\ PollAt(k, "lock") =>
              \/ LockFree(k)
              \/ WaitsFor(k, "historyCleanup", "file")
              \/ WaitsFor(k, "historyCleanup", "write")
      BY <2>2, WaitsForRival DEF Rivals
    <3>2. Progress => GivesWay(k, "historyCleanup")
      BY <2>2, RivalGivesWay DEF Rivals
    <3> QED
      BY <3>1, <3>2, InvariantHolds, PTL
         DEF Progress, FairSpec, GivesWay, FindsFree
  <2> QED
    BY <2>1, <2>2 DEF Tasks
<1> QED
  BY <1>1, <1>2, <1>3, InvariantHolds, PTL
     DEF Progress, FairSpec, Fairness, Leaves, PollLeaves, FindsFree

\* save_telemetry always returns: provided that the steps fairness speaks of can
\* be taken where their thread is, the poll loop is idle again and again.
THEOREM PollGoesOn == FairSpec /\ []StepsCanBeTaken => PollLoopGoesOn
<1>1. IInv =>
          \/ PollIdle \/ PollAt("record", "latest")
          \/ PollAt("enqueue", "lock") \/ PollAt("enqueue", "file")
          \/ PollAt("enqueue", "write")
          \/ PollAt("record", "lock") \/ PollAt("record", "file")
          \/ PollAt("record", "write")
  BY PollPoints DEF Tasks
<1>2. IInv /\ [Next]_vars =>
          /\ PollAt("enqueue", "lock") =>
                 PollAt("enqueue", "lock")' \/ PollAt("enqueue", "file")' \/ PollIdle'
          /\ PollAt("enqueue", "file") =>
                 PollAt("enqueue", "file")' \/ PollAt("enqueue", "write")' \/ PollIdle'
          /\ PollAt("enqueue", "write") =>
                 PollAt("enqueue", "write")' \/ PollAt("record", "lock")' \/ PollIdle'
          /\ PollAt("record", "lock") =>
                 PollAt("record", "lock")' \/ PollAt("record", "file")' \/ PollIdle'
          /\ PollAt("record", "file") =>
                 \/ PollAt("record", "file")' \/ PollAt("record", "write")'
                 \/ PollAt("record", "latest")' \/ PollIdle'
          /\ PollAt("record", "write") =>
                 PollAt("record", "write")' \/ PollAt("record", "latest")' \/ PollIdle'
          /\ PollAt("record", "latest") => PollAt("record", "latest")' \/ PollIdle'
  BY PollSteps DEF Tasks
<1>3. Progress => PollLeaves("enqueue", "lock") /\ PollLeaves("record", "lock")
  BY LockLeft DEF Tasks
<1>4. Progress => Leaves("poll", "file")
  BY FileLeft DEF Threads
<1>5. /\ PollAt("enqueue", "file") => At("poll", "file")
      /\ PollAt("record", "file") => At("poll", "file")
      /\ PollAt("enqueue", "lock") \/ PollAt("record", "lock")
            \/ PollAt("enqueue", "write") \/ PollAt("record", "write")
            \/ PollAt("record", "latest") \/ PollIdle => ~At("poll", "file")
      /\ PollIdle <=> pc["poll"] = "idle"
  BY DEF PollAt, At, PollIdle
<1> QED
  BY <1>1, <1>2, <1>3, <1>4, <1>5, PollWriteLeft, LatestLeft, InvariantHolds, PTL
     DEF Progress, FairSpec, Spec, Leaves, PollLeaves, PollLoopGoesOn
=============================================================================
