--------------------------- MODULE TelemetryQueue ---------------------------
(***************************************************************************)
(* The store-and-forward path of the poller: the SQLite queue of           *)
(* offline_buffer.py, the batch-flush thread and the buffer-cleanup thread *)
(* of dynamic_modbus_poller.py, a crash of the process at any point, and   *)
(* the cloud endpoint as the flush thread sees it.                         *)
(*                                                                         *)
(* A row is named by its AUTOINCREMENT id, which is also its position in   *)
(* `readings`, the (device_id, tag_id) pairs in the order they were        *)
(* enqueued: a pair is all the upload path ever looks at in a reading.     *)
(* Every access to the table is one critical section of _database_lock     *)
(* and one transaction, hence one action.                                  *)
(***************************************************************************)
EXTENDS Integers, Sequences, FiniteSets

CONSTANTS
    Pairs,          \* the (device_id, tag_id) pairs the poller reads
    Stable,         \* the pairs the cloud knows at all times
    BatchSize,      \* BATCH_FLUSH_SIZE
    KeepLatest,     \* BUFFER_CLEANUP_KEEP_LATEST
    MaxReadings,    \* bound on the readings enqueued (the code has none)
    MaxDamaged,     \* bound on the payloads damaged on disk
    MaxAborts,      \* bound on failed transactions and deaths of the process
    AttemptsCap     \* `attempts` saturates here (0: not counted); no code
                    \* reads its value

ASSUME QueueAssumption ==
    /\ Stable \subseteq Pairs
    /\ BatchSize \in 1..1000       \* what get_pending_messages clamps it to
    /\ KeepLatest \in Nat
    /\ MaxReadings \in Nat
    /\ MaxDamaged \in Nat
    /\ MaxAborts \in Nat
    /\ AttemptsCap \in Nat

VARIABLES
    readings,   \* the pair of every row ever inserted, by row id
    pending,    \* the rows with status 'pending'
    sent,       \* the rows with status 'sent'; the other ids are deleted
    attempts,   \* column `attempts`, by row id
    damaged,    \* the rows whose payload_json no longer reads as a reading
    pc,         \* where the flush thread is
    items,      \* rows of the current request: `valid_messages`
    todo,       \* rows the running marking loop has still to visit
    refused,    \* pairs the marking loop marks failed
    aborts,     \* flushes aborted so far, up to MaxAborts
    known,      \* external: the pairs the cloud has registered
    accepted,   \* external: the rows whose reading the cloud has stored
    doubt       \* history: rows whose acceptance may not have been recorded

tableVars == <<readings, pending, sent, attempts, damaged>>
flushVars == <<pc, items, todo, refused, aborts>>
cloudVars == <<known, accepted, doubt>>
vars == <<readings, pending, sent, attempts, damaged, pc, items, todo,
          refused, known, accepted, doubt, aborts>>

RowIds == 1..Len(readings)
Rows == pending \cup sent
Deleted == RowIds \ Rows

\* Mutant of Oldest: ORDER BY id DESC in get_pending_messages.
OldestDescending(S, n) == {i \in S : Cardinality({j \in S : j > i}) < n}
\* Mutant of Newest: ORDER BY id ASC in delete_sent_messages.
NewestAscending(S, n) == {i \in S : Cardinality({j \in S : j < i}) < n}
\* The n least elements of a set of ids, and the first one.
Oldest(S, n) == {i \in S : Cardinality({j \in S : j < i}) < n}
IsFirst(i, S) == i \in S /\ \A j \in S : i <= j
\* The n greatest.
Newest(S, n) == {i \in S : Cardinality({j \in S : j > i}) < n}

\* Mutant of Bump: the UPDATE leaves the column `attempts` alone.
BumpForgotten(n) == n
Bump(n) == IF n < AttemptsCap THEN n + 1 ELSE n

PairsOf(S) == {readings[i] : i \in S}
-----------------------------------------------------------------------------
Init ==
    /\ readings = <<>> /\ attempts = <<>>
    /\ pending = {} /\ sent = {} /\ damaged = {}
    /\ pc = "sleep" /\ items = {} /\ todo = {} /\ refused = {}
    /\ known \in {k \in SUBSET Pairs : Stable \subseteq k}
    /\ accepted = {} /\ doubt = {} /\ aborts = 0

\* Main loop: save_telemetry stores one finite reading of pair p.
EnqueueTelemetry(p) ==
    /\ Len(readings) < MaxReadings
    /\ readings' = Append(readings, p)
    /\ attempts' = Append(attempts, 0)
    /\ pending' = pending \cup {Len(readings) + 1}
    /\ UNCHANGED <<sent, damaged, flushVars, cloudVars>>

\* External: the stored payload of a queued row becomes unreadable.
DamagePayload(i) ==
    /\ i \in pending \ damaged
    /\ Cardinality(damaged) < MaxDamaged
    /\ damaged' = damaged \cup {i}
    /\ UNCHANGED <<readings, pending, sent, attempts, flushVars, cloudVars>>

\* Mutant of DeleteSentMessages: the DELETE lacks "status = 'sent'".
DeleteOldMessages ==
    /\ sent' = Newest(sent, KeepLatest)
    /\ pending' = pending \cap (sent' \cup Newest(Rows, KeepLatest))
    /\ UNCHANGED <<readings, attempts, damaged, flushVars, cloudVars>>
\* Cleanup thread: the DELETE of delete_sent_messages.
DeleteSentMessages ==
    /\ sent' = Newest(sent, KeepLatest)
    /\ UNCHANGED <<readings, pending, attempts, damaged, flushVars, cloudVars>>

\* External: a device or tag is registered with, or dropped by, the cloud.
CloudRegistry ==
    /\ known' \in {k \in SUBSET Pairs : Stable \subseteq k}
    /\ UNCHANGED <<tableVars, flushVars, accepted, doubt>>
-----------------------------------------------------------------------------
(* The flush thread.                                                       *)
(*   "sleep"    between two flushes                                        *)
(*   "invalid"  marking the rows of the batch that hold no reading         *)
(*   "post"     the batch request is with the cloud                        *)
(*   "mark"     marking the rows of the request, one transaction each      *)

FlushDone ==
    /\ pc' = "sleep" /\ items' = {} /\ todo' = {} /\ refused' = {}

\* Mutant of GetPendingMessages: one unreadable payload spoils the batch.
GetPendingMessagesStrict ==
    LET batch == Oldest(pending, BatchSize)
        bad   == batch \cap damaged
    IN
    /\ pc = "sleep"
    /\ batch # {}
    /\ items' = IF bad = {} THEN batch ELSE {}
    /\ todo' = bad
    /\ refused' = {}
    /\ pc' = IF bad # {} THEN "invalid" ELSE "post"
    /\ UNCHANGED <<tableVars, cloudVars, aborts>>
\* get_pending_messages; payloads are judged on the copies just read.
GetPendingMessages ==
    LET batch == Oldest(pending, BatchSize)
        bad   == batch \cap damaged
        good  == batch \ damaged
    IN
    /\ pc = "sleep"
    /\ batch # {}
    /\ items' = good
    /\ todo' = bad
    /\ refused' = {}
    /\ pc' = IF bad # {} THEN "invalid" ELSE "post"
    /\ UNCHANGED <<tableVars, cloudVars, aborts>>

\* mark_message_failed: the row stays pending.
RecordFailure(i) ==
    /\ attempts' = IF i \in Rows THEN [attempts EXCEPT ![i] = Bump(@)]
                                 ELSE attempts
    /\ UNCHANGED <<readings, pending, sent, damaged>>

\* mark_message_sent.
RecordSent(i) ==
    /\ pending' = pending \ {i}
    /\ sent' = sent \cup ({i} \cap Rows)
    /\ UNCHANGED <<readings, attempts, damaged>>

\* Mutant of MarkInvalid: `return` where the loop says `continue`.
MarkInvalidReturns(i) ==
    /\ pc = "invalid"
    /\ IsFirst(i, todo)
    /\ RecordFailure(i)
    /\ FlushDone
    /\ UNCHANGED <<cloudVars, aborts>>
MarkInvalid(i) ==
    /\ pc = "invalid"
    /\ IsFirst(i, todo)
    /\ RecordFailure(i)
    /\ IF todo # {i}
         THEN /\ todo' = todo \ {i}
              /\ UNCHANGED <<pc, items, refused>>
         ELSE IF items # {}
           THEN /\ pc' = "post" /\ todo' = {}
                /\ UNCHANGED <<items, refused>>
           ELSE FlushDone
    /\ UNCHANGED <<cloudVars, aborts>>

\* What the cloud stores of the rows S of the request: it drops unknown pairs.
Registered(S) == {i \in S : readings[i] \in known}

\* Mutant of PostAnswered: `rejected` is ignored.
PostAnsweredAllSent ==
    /\ pc = "post"
    /\ accepted' = accepted \cup Registered(items)
    /\ refused' = {}
    /\ todo' = items
    /\ pc' = "mark"
    /\ UNCHANGED <<tableVars, items, known, doubt, aborts>>
\* Mutant of PostAnswered: one rejected item fails the whole batch.
PostAnsweredAllOrNothing ==
    /\ pc = "post"
    /\ accepted' = accepted \cup Registered(items)
    /\ refused' = IF PairsOf(items) \subseteq known THEN {} ELSE PairsOf(items)
    /\ todo' = items
    /\ pc' = "mark"
    /\ UNCHANGED <<tableVars, items, known, doubt, aborts>>
\* The reply arrives: `rejected` names the pairs the cloud does not know.
PostAnswered ==
    /\ pc = "post"
    /\ accepted' = accepted \cup Registered(items)
    /\ refused' = PairsOf(items) \ known
    /\ todo' = items
    /\ pc' = "mark"
    /\ UNCHANGED <<tableVars, items, known, doubt, aborts>>

\* RequestException: connection refused, timeout, error status or a body
\* that is no JSON. The cloud may have stored the request up to some row.
PostFailed(last) ==
    LET taken == Registered({i \in items : i <= last}) IN
    /\ pc = "post"
    /\ accepted' = accepted \cup taken
    /\ doubt' = doubt \cup taken
    /\ refused' = PairsOf(items)
    /\ todo' = items
    /\ pc' = "mark"
    /\ UNCHANGED <<tableVars, items, known, aborts>>

\* A JSON body that is no batch result: any other exception leaves
\* flush_pending_batch before a row is marked.
PostGarbled ==
    /\ pc = "post"
    /\ accepted' = accepted \cup Registered(items)
    /\ doubt' = doubt \cup Registered(items)
    /\ FlushDone
    /\ UNCHANGED <<tableVars, known, aborts>>

MarkAdvance(i) ==
    IF todo = {i} THEN FlushDone
                  ELSE /\ todo' = todo \ {i}
                       /\ UNCHANGED <<pc, items, refused>>

MarkFailed(i) ==
    /\ pc = "mark"
    /\ IsFirst(i, todo)
    /\ readings[i] \in refused
    /\ RecordFailure(i)
    /\ MarkAdvance(i)
    /\ UNCHANGED <<cloudVars, aborts>>

MarkSent(i) ==
    /\ pc = "mark"
    /\ IsFirst(i, todo)
    /\ readings[i] \notin refused
    /\ RecordSent(i)
    /\ MarkAdvance(i)
    /\ UNCHANGED <<cloudVars, aborts>>

\* A marking transaction raises (disk full, database locked), or the process
\* dies and start_gateway.py starts it again: the table survives, the flush
\* starts over.
FlushAborted ==
    /\ pc # "sleep"
    /\ aborts < MaxAborts /\ aborts' = aborts + 1
    /\ doubt' = IF pc = "mark" THEN doubt \cup (todo \cap accepted) ELSE doubt
    /\ FlushDone
    /\ UNCHANGED <<tableVars, known, accepted>>
-----------------------------------------------------------------------------
Next ==
    \/ \E p \in Pairs : EnqueueTelemetry(p)
    \/ \E i \in RowIds : DamagePayload(i)
    \/ DeleteSentMessages
    \/ CloudRegistry
    \/ GetPendingMessages
    \/ \E i \in RowIds : MarkInvalid(i)
    \/ PostAnswered
    \/ \E last \in 0..Len(readings) : PostFailed(last)
    \/ PostGarbled
    \/ \E i \in RowIds : MarkFailed(i)
    \/ \E i \in RowIds : MarkSent(i)
    \/ FlushAborted

Spec == Init /\ [][Next]_vars

(* The flush thread runs for ever at 0.25 s steps, so it never stops short *)
(* of its next step for good. Requests may fail without end, but one tried *)
(* again and again is answered at last. (Failing transactions and dying    *)
(* processes are incidents, MaxAborts of them.)                            *)
MarkStep == \E i \in RowIds : MarkInvalid(i) \/ MarkFailed(i) \/ MarkSent(i)

Fairness ==
    /\ WF_vars(GetPendingMessages)
    /\ WF_vars(MarkStep)
    /\ SF_vars(PostAnswered)

FairSpec == Spec /\ Fairness
-----------------------------------------------------------------------------
(* Properties.                                                             *)

\* Types, and the shape of the flush thread's locals at each point of it.
TypeOK ==
    /\ readings \in Seq(Pairs)
    /\ attempts \in Seq(0..AttemptsCap) /\ Len(attempts) = Len(readings)
    /\ pending \subseteq RowIds /\ sent \subseteq RowIds
    /\ pending \cap sent = {}
    /\ damaged \subseteq RowIds /\ accepted \subseteq RowIds
    /\ doubt \subseteq RowIds
    /\ pc \in {"sleep", "invalid", "post", "mark"}
    /\ items \subseteq RowIds /\ todo \subseteq RowIds
    /\ refused \subseteq Pairs /\ known \subseteq Pairs
    /\ aborts \in 0..MaxAborts

\* No reading is lost: whatever faults occur, a reading that was enqueued is
\* still pending in the gateway or has been stored by the cloud; neither the
\* flush nor the cleanup gives up one the cloud never took.
NoReadingLost == RowIds \subseteq pending \cup accepted

\* The cloud first sees the readings of one tag in the order they were
\* taken (get_pending_messages is oldest first, and a refusal refuses every
\* row of the pair), except past a row whose payload was damaged.
FirstDeliveryInOrder ==
    \A i, j \in RowIds :
        i < j /\ readings[i] = readings[j] /\ j \in accepted
            => i \in accepted \/ i \in damaged

\* A row the cloud has already stored is put in a request again only after a
\* fault between the POST and its marking: a batch item carries no message
\* id or timestamp, so the cloud could not tell the copy from a new reading.
ResendOnlyAfterFault == pc = "post" => items \cap accepted \subseteq doubt

\* The rows delete_sent_messages removes are older than KeepLatest rows that
\* are still there: "The newest sent records are retained for diagnostics."
NewestSentRetained ==
    \A g \in Deleted : Cardinality({s \in sent : s > g}) >= KeepLatest

\* A younger row is marked sent past a pending one only when the older one
\* has a failed attempt on record: rows that block the head of the queue
\* can be found in the table.
OvertakenRowsShowAttempts ==
    \A i \in RowIds \ pending, j \in pending :
        j < i => attempts[j] > 0 \/ AttemptsCap = 0

\* Rows the cloud may go on refusing, or that hold no reading any more.
Blocked == {i \in pending : i \in damaged \/ readings[i] \notin Stable}

Uploadable == pending \ Blocked

\* A row that cannot be uploaded costs a request one place, wherever it stands in
\* the queue: of the others, as many as the batch has places left are in every
\* request, the oldest first. BatchSize of them leave no place: see queue_starvation.
BlockedCostOnePlace ==
    [][pc = "sleep" /\ pc' # "sleep" =>
         \A i \in Uploadable :
             Cardinality({j \in Uploadable : j < i}) + Cardinality(Blocked) < BatchSize
                 => i \in items']_vars

\* Every reading of a registered pair that is pending leaves the queue as
\* sent (or its payload is damaged first).
ReadingsUploaded ==
    \A i \in 1..MaxReadings :
        (i \in pending \ damaged /\ readings[i] \in Stable)
            ~> (i \notin pending \/ i \in damaged)

\* As long as the rows that cannot be uploaded never fill a batch, every
\* other reading is uploaded, however often requests, transactions or the
\* process fail on the way.
UploadedWithRoomInBatch ==
    [](Cardinality(Blocked) < BatchSize) => ReadingsUploaded
-----------------------------------------------------------------------------
\* What the queue promises whoever produces and stores the readings.
Contract == INSTANCE ReliableUpload WITH
    produced <- Len(readings), owed <- pending, held <- accepted

\* The queue implements the contract: see ReliableUpload.
ImplementsContract == Contract!Spec
=============================================================================
