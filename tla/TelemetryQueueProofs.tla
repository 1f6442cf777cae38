------------------------ MODULE TelemetryQueueProofs ------------------------
(***************************************************************************)
(* Proofs about TelemetryQueue, for every value of its constants.          *)
(*                                                                         *)
(* The safety properties are not inductive by themselves: that a row may   *)
(* leave the queue rests on what the flush thread knows half-way through a *)
(* flush. IInv adds that knowledge, point by point of the thread.          *)
(***************************************************************************)
EXTENDS TelemetryQueue, TLAPS, FiniteSetTheorems, SequenceTheorems, WellFoundedInduction

\* The rows of the flush thread are rows of the queue still to be sent.
Shape ==
    /\ pc = "sleep" => items = {} /\ todo = {}
    /\ todo \subseteq pending
    /\ pc \in {"invalid", "post"} => items \subseteq pending
    /\ pc = "mark" => todo \subseteq items

\* While marking, a row that is to be marked sent has been accepted.
SentIsAccepted ==
    pc = "mark" =>
        \A i \in todo : readings[i] \notin refused => i \in accepted

\* A queued row the cloud holds already is in doubt, or about to be marked
\* sent.
AcceptedIsInDoubt ==
    \A i \in pending \cap accepted :
        i \in doubt \/ (pc = "mark" /\ i \in todo /\ readings[i] \notin refused)

\* A batch leaves no older row behind, but for damaged ones.
BatchIsOldest ==
    pc \in {"invalid", "post"} =>
        \A j \in items, i \in pending : i < j => i \in items \/ i \in damaged

IInv ==
    /\ TypeOK /\ Shape
    /\ NoReadingLost /\ SentIsAccepted /\ AcceptedIsInDoubt
    /\ BatchIsOldest /\ FirstDeliveryInOrder
-----------------------------------------------------------------------------
(* The oldest rows of a set.                                               *)

\* ORDER BY id ASC LIMIT n returns rows of the set, and with a row every
\* older one.
LEMMA OldestIsInitial ==
    ASSUME NEW S \in SUBSET Nat, IsFiniteSet(S), NEW n \in Nat
    PROVE  /\ Oldest(S, n) \subseteq S
           /\ \A j \in Oldest(S, n), i \in S : i < j => i \in Oldest(S, n)
<1>1. Oldest(S, n) \subseteq S
  BY DEF Oldest
<1>2. ASSUME NEW j \in Oldest(S, n), NEW i \in S, i < j
      PROVE  i \in Oldest(S, n)
  <2> DEFINE Below(k) == {h \in S : h < k}
  <2>0. i \in Nat /\ j \in Nat
    BY <1>1
  <2>1. ASSUME NEW h \in S, h < i
        PROVE  h < j
    BY <1>2, <2>0, <2>1
  <2>2. IsFiniteSet(Below(j)) /\ Cardinality(Below(j)) \in Nat
    BY FS_Subset, FS_CardinalityType
  <2>3. Cardinality(Below(i)) <= Cardinality(Below(j))
    <3>1. Below(i) \in SUBSET Below(j)
      BY <2>1
    <3> QED
      BY <2>2, <3>1, FS_Subset
  <2>4. Cardinality(Below(i)) \in Nat
    BY FS_Subset, FS_CardinalityType
  <2>5. Cardinality(Below(j)) < n
    BY DEF Oldest
  <2> QED
    BY <2>2, <2>3, <2>4, <2>5 DEF Oldest
<1> QED
  BY <1>1, <1>2
-----------------------------------------------------------------------------
(* The invariant.                                                          *)

LEMMA InitIInv == Init => IInv
<1> SUFFICES ASSUME Init PROVE IInv
  OBVIOUS
<1> USE QueueAssumption DEF Init
<1>1. TypeOK
  BY EmptySeq DEF TypeOK, RowIds
<1> QED
  BY <1>1 DEF IInv, Shape, NoReadingLost, SentIsAccepted, AcceptedIsInDoubt,
     BatchIsOldest, FirstDeliveryInOrder, RowIds

LEMMA EnqueueIInv ==
    ASSUME IInv, NEW p \in Pairs, EnqueueTelemetry(p)
    PROVE  IInv'
<1> DEFINE n == Len(readings) + 1
<1> USE DEF EnqueueTelemetry, flushVars, cloudVars, RowIds
<1>0. TypeOK
  BY DEF IInv
<1>1. /\ readings' \in Seq(Pairs) /\ Len(readings') = n
      /\ \A i \in RowIds : readings'[i] = readings[i]
  BY <1>0, AppendProperties DEF TypeOK
<1>2. attempts' \in Seq(0..AttemptsCap) /\ Len(attempts') = n
  BY <1>0, QueueAssumption, AppendProperties DEF TypeOK
<1>3. Len(readings) \in Nat /\ RowIds' = RowIds \cup {n}
  BY <1>0, <1>1, LenProperties DEF TypeOK
<1>4. TypeOK'
  <2>0. /\ Len(readings) \in Nat /\ sent \subseteq 1..Len(readings)
        /\ pending \subseteq 1..Len(readings)
    BY <1>0, <1>3 DEF TypeOK
  <2>1. n \notin sent /\ pending' \subseteq RowIds' /\ sent' \subseteq RowIds'
    <3>1. n \notin sent
      BY <2>0
    <3>2. pending' = pending \cup {n} /\ sent' = sent
      OBVIOUS
    <3> QED
      BY <1>3, <2>0, <3>1, <3>2
  <2>2. /\ damaged' \subseteq RowIds' /\ accepted' \subseteq RowIds'
        /\ doubt' \subseteq RowIds' /\ items' \subseteq RowIds'
        /\ todo' \subseteq RowIds'
    BY <1>0, <1>3 DEF TypeOK
  <2> HIDE DEF RowIds
  <2> QED
    BY <1>0, <1>1, <1>2, <2>1, <2>2 DEF TypeOK
<1>5. Shape' /\ NoReadingLost'
  BY <1>3 DEF IInv, Shape, NoReadingLost
<1>6. SentIsAccepted' /\ AcceptedIsInDoubt'
  BY <1>0, <1>1, <1>3 DEF IInv, TypeOK, Shape, SentIsAccepted, AcceptedIsInDoubt
<1>7. BatchIsOldest'
  BY <1>0, <1>3 DEF IInv, TypeOK, BatchIsOldest
<1>8. FirstDeliveryInOrder'
  BY <1>0, <1>1, <1>3 DEF IInv, TypeOK, FirstDeliveryInOrder
<1> QED
  BY <1>4, <1>5, <1>6, <1>7, <1>8 DEF IInv

\* Damage, the registry and the cleanup leave the upload path alone.
LEMMA OthersIInv ==
    ASSUME IInv,
           \/ \E i \in RowIds : DamagePayload(i)
           \/ DeleteSentMessages
           \/ CloudRegistry
    PROVE  IInv'
<1> USE DEF flushVars, cloudVars, tableVars, RowIds
<1>1. CASE \E i \in RowIds : DamagePayload(i)
  BY <1>1 DEF DamagePayload, IInv, TypeOK, Shape, NoReadingLost, SentIsAccepted,
     AcceptedIsInDoubt, BatchIsOldest, FirstDeliveryInOrder
<1>2. CASE DeleteSentMessages
  BY <1>2 DEF DeleteSentMessages, Newest, IInv, TypeOK, Shape, NoReadingLost,
     SentIsAccepted, AcceptedIsInDoubt, BatchIsOldest, FirstDeliveryInOrder
<1>3. CASE CloudRegistry
  BY <1>3 DEF CloudRegistry, IInv, TypeOK, Shape, NoReadingLost, SentIsAccepted,
     AcceptedIsInDoubt, BatchIsOldest, FirstDeliveryInOrder
<1> QED
  BY <1>1, <1>2, <1>3

LEMMA GetPendingIInv ==
    ASSUME IInv, GetPendingMessages
    PROVE  IInv'
<1> DEFINE batch == Oldest(pending, BatchSize)
<1> USE DEF tableVars, cloudVars, RowIds
<1>0. TypeOK
  BY DEF IInv
<1>1. pending \in SUBSET Nat /\ IsFiniteSet(pending)
  <2>1. Len(readings) \in Nat
    BY <1>0, LenProperties DEF TypeOK
  <2>2. IsFiniteSet(1..Len(readings))
    BY <2>1, FS_Interval
  <2>3. pending \in SUBSET (1..Len(readings))
    BY <1>0 DEF TypeOK
  <2>4. pending \in SUBSET Nat
    BY <2>1, <2>3
  <2>5. IsFiniteSet(pending)
    BY <2>2, <2>3, FS_Subset
  <2> QED
    BY <2>4, <2>5
<1>2. /\ batch \subseteq pending
      /\ \A j \in batch, i \in pending : i < j => i \in batch
  BY <1>1, QueueAssumption, OldestIsInitial
<1>3. /\ items' = batch \ damaged /\ todo' = batch \cap damaged
      /\ refused' = {} /\ pc' \in {"invalid", "post"}
      /\ UNCHANGED <<readings, pending, sent, attempts, damaged, known,
                     accepted, doubt, aborts>>
  BY DEF GetPendingMessages
<1>4. pc = "sleep"
  BY DEF GetPendingMessages
<1> HIDE DEF batch
<1>5. TypeOK'
  BY <1>0, <1>2, <1>3 DEF TypeOK
<1>6. Shape' /\ NoReadingLost' /\ SentIsAccepted' /\ AcceptedIsInDoubt'
  BY <1>2, <1>3, <1>4 DEF IInv, Shape, NoReadingLost, SentIsAccepted,
     AcceptedIsInDoubt
<1>7. BatchIsOldest' /\ FirstDeliveryInOrder'
  BY <1>2, <1>3 DEF IInv, BatchIsOldest, FirstDeliveryInOrder
<1> QED
  BY <1>5, <1>6, <1>7 DEF IInv
\* The marking of a row: what every kind of it leaves as it was.
LEMMA FailureTypes ==
    ASSUME TypeOK, NEW i \in todo, RecordFailure(i)
    PROVE  attempts' \in Seq(0..AttemptsCap) /\ Len(attempts') = Len(attempts)
<1>1. i \in 1..Len(attempts)
  BY DEF TypeOK, RowIds
<1>2. attempts \in Seq(0..AttemptsCap) /\ attempts[i] \in 0..AttemptsCap
  BY <1>1, ElementOfSeq DEF TypeOK
<1>3. Bump(attempts[i]) \in 0..AttemptsCap
  BY <1>2, QueueAssumption DEF Bump
<1>4. CASE i \in Rows
  <2>1. attempts' = [attempts EXCEPT ![i] = Bump(attempts[i])]
    BY <1>4 DEF RecordFailure
  <2> QED
    BY <1>1, <1>2, <1>3, <2>1, ExceptSeq
<1>5. CASE i \notin Rows
  BY <1>2, <1>5 DEF RecordFailure
<1> QED
  BY <1>4, <1>5

LEMMA MarkInvalidIInv ==
    ASSUME IInv, NEW i \in RowIds, MarkInvalid(i)
    PROVE  IInv'
<1> USE DEF cloudVars, RowIds
<1>0. TypeOK /\ i \in todo /\ RecordFailure(i) /\ pc = "invalid"
  BY DEF IInv, MarkInvalid, IsFirst
<1>1. attempts' \in Seq(0..AttemptsCap) /\ Len(attempts') = Len(readings)
  BY <1>0, FailureTypes DEF TypeOK
<1>2. UNCHANGED <<readings, pending, sent, damaged, known, accepted, doubt, aborts>>
  BY <1>0 DEF RecordFailure, MarkInvalid
<1>3. \/ /\ todo' = todo \ {i} /\ items' = items
         /\ pc' \in {"invalid", "post"} /\ refused' = refused
      \/ pc' = "sleep" /\ items' = {} /\ todo' = {} /\ refused' = {}
  BY DEF MarkInvalid, FlushDone
<1>4. TypeOK'
  BY <1>0, <1>1, <1>2, <1>3 DEF TypeOK
<1>5. Shape' /\ NoReadingLost' /\ SentIsAccepted' /\ AcceptedIsInDoubt'
  BY <1>0, <1>2, <1>3 DEF IInv, Shape, NoReadingLost, SentIsAccepted,
     AcceptedIsInDoubt
<1>6. BatchIsOldest' /\ FirstDeliveryInOrder'
  BY <1>0, <1>2, <1>3 DEF IInv, BatchIsOldest, FirstDeliveryInOrder
<1> QED
  BY <1>4, <1>5, <1>6 DEF IInv

\* What any outcome of the request that reaches the marking loop has in
\* common: the cloud took the rows of the registered pairs up to some row.
LEMMA TakenInOrder ==
    ASSUME IInv, pc = "post", NEW S \in SUBSET items,
           \A j \in S, i \in items :
               i < j /\ readings[i] = readings[j] => i \in S
    PROVE  \A i, j \in RowIds :
               i < j /\ readings[i] = readings[j] /\ j \in accepted \cup S
                   => i \in accepted \cup S \/ i \in damaged
<1> SUFFICES ASSUME NEW i \in RowIds, NEW j \in RowIds, i < j,
                    readings[i] = readings[j], j \in S, i \notin accepted,
                    i \notin damaged
             PROVE  i \in S
  BY DEF IInv, FirstDeliveryInOrder
<1>1. i \in pending
  BY DEF IInv, NoReadingLost
<1>2. i \in items
  BY <1>1 DEF IInv, BatchIsOldest
<1> QED
  BY <1>2

LEMMA PostAnsweredIInv ==
    ASSUME IInv, PostAnswered
    PROVE  IInv'
<1> DEFINE S == Registered(items)
<1> USE DEF tableVars, RowIds
<1>0. TypeOK /\ pc = "post" /\ items \subseteq pending
  BY DEF IInv, PostAnswered, Shape
<1>1. /\ accepted' = accepted \cup S /\ todo' = items /\ pc' = "mark"
      /\ refused' = PairsOf(items) \ known
      /\ UNCHANGED <<readings, pending, sent, attempts, damaged, items, known,
                     doubt, aborts>>
  BY DEF PostAnswered
<1>2. /\ S \subseteq items
      /\ \A i \in items : i \in S <=> readings[i] \in known
  BY DEF Registered
<1>3. \A i \in items : readings[i] \in refused' <=> readings[i] \notin known
  BY <1>1 DEF PairsOf
<1>4. PairsOf(items) \subseteq Pairs
  BY <1>0, ElementOfSeq DEF TypeOK, PairsOf
<1> HIDE DEF S
<1>5. TypeOK'
  BY <1>0, <1>1, <1>2, <1>4 DEF TypeOK
<1>6. Shape' /\ NoReadingLost' /\ SentIsAccepted' /\ BatchIsOldest'
  BY <1>0, <1>1, <1>2, <1>3 DEF IInv, Shape, NoReadingLost, SentIsAccepted,
     BatchIsOldest
<1>7. AcceptedIsInDoubt'
  BY <1>0, <1>1, <1>2, <1>3 DEF IInv, AcceptedIsInDoubt
<1>8. FirstDeliveryInOrder'
  BY <1>0, <1>1, <1>2, TakenInOrder DEF FirstDeliveryInOrder
<1> QED
  BY <1>5, <1>6, <1>7, <1>8 DEF IInv
LEMMA PostFailedIInv ==
    ASSUME IInv, NEW last \in 0..Len(readings), PostFailed(last)
    PROVE  IInv'
<1> DEFINE S == Registered({i \in items : i <= last})
<1> USE DEF tableVars, RowIds
<1>0. TypeOK /\ pc = "post" /\ items \subseteq pending
  BY DEF IInv, PostFailed, Shape
<1>1. /\ accepted' = accepted \cup S /\ doubt' = doubt \cup S
      /\ todo' = items /\ pc' = "mark" /\ refused' = PairsOf(items)
      /\ UNCHANGED <<readings, pending, sent, attempts, damaged, items, known,
                     aborts>>
  BY DEF PostFailed
<1>2. S \subseteq items
  BY DEF Registered
<1>3. \A j \in S, i \in items :
         i < j /\ readings[i] = readings[j] => i \in S
  <2> SUFFICES ASSUME NEW j \in S, NEW i \in items, i < j,
                      readings[i] = readings[j]
               PROVE  i \in S
    OBVIOUS
  <2>1. j \in items /\ j <= last /\ readings[j] \in known
    BY DEF Registered
  <2>2. i \in Int /\ j \in Int /\ last \in Int
    BY <1>0, <2>1 DEF TypeOK
  <2>3. i <= last
    BY <2>1, <2>2
  <2> QED
    BY <2>1, <2>3 DEF Registered
<1>4. PairsOf(items) \subseteq Pairs
  BY <1>0, ElementOfSeq DEF TypeOK, PairsOf
<1>5. \A i \in items : readings[i] \in refused'
  BY <1>1 DEF PairsOf
<1> HIDE DEF S
<1>6. TypeOK'
  BY <1>0, <1>1, <1>2, <1>4 DEF TypeOK
<1>7. Shape' /\ NoReadingLost' /\ SentIsAccepted' /\ BatchIsOldest'
  BY <1>0, <1>1, <1>2, <1>5 DEF IInv, Shape, NoReadingLost, SentIsAccepted,
     BatchIsOldest
<1>8. AcceptedIsInDoubt'
  BY <1>0, <1>1, <1>2, <1>5 DEF IInv, AcceptedIsInDoubt
<1>9. FirstDeliveryInOrder'
  BY <1>0, <1>1, <1>2, <1>3, TakenInOrder DEF FirstDeliveryInOrder
<1> QED
  BY <1>6, <1>7, <1>8, <1>9 DEF IInv

LEMMA PostGarbledIInv ==
    ASSUME IInv, PostGarbled
    PROVE  IInv'
<1> DEFINE S == Registered(items)
<1> USE DEF tableVars, RowIds
<1>0. TypeOK /\ pc = "post" /\ items \subseteq pending
  BY DEF IInv, PostGarbled, Shape
<1>1. /\ accepted' = accepted \cup S /\ doubt' = doubt \cup S
      /\ pc' = "sleep" /\ items' = {} /\ todo' = {} /\ refused' = {}
      /\ UNCHANGED <<readings, pending, sent, attempts, damaged, known, aborts>>
  BY DEF PostGarbled, FlushDone
<1>2. /\ S \subseteq items
      /\ \A i \in items : i \in S <=> readings[i] \in known
  BY DEF Registered
<1> HIDE DEF S
<1>3. TypeOK'
  BY <1>0, <1>1, <1>2 DEF TypeOK
<1>4. /\ Shape' /\ NoReadingLost' /\ SentIsAccepted' /\ BatchIsOldest'
      /\ AcceptedIsInDoubt'
  BY <1>0, <1>1, <1>2 DEF IInv, Shape, NoReadingLost, SentIsAccepted,
     BatchIsOldest, AcceptedIsInDoubt
<1>5. FirstDeliveryInOrder'
  BY <1>0, <1>1, <1>2, TakenInOrder DEF FirstDeliveryInOrder
<1> QED
  BY <1>3, <1>4, <1>5 DEF IInv

LEMMA MarkFailedIInv ==
    ASSUME IInv, NEW i \in RowIds, MarkFailed(i)
    PROVE  IInv'
<1> USE DEF cloudVars, RowIds
<1>0. /\ TypeOK /\ i \in todo /\ RecordFailure(i) /\ pc = "mark"
      /\ readings[i] \in refused
  BY DEF IInv, MarkFailed, IsFirst
<1>1. attempts' \in Seq(0..AttemptsCap) /\ Len(attempts') = Len(readings)
  BY <1>0, FailureTypes DEF TypeOK
<1>2. UNCHANGED <<readings, pending, sent, damaged, known, accepted, doubt, aborts>>
  BY <1>0 DEF RecordFailure, MarkFailed
<1>3. \/ /\ todo' = todo \ {i} /\ UNCHANGED <<pc, items, refused>>
      \/ /\ todo = {i} /\ pc' = "sleep" /\ items' = {} /\ todo' = {}
         /\ refused' = {}
  BY DEF MarkFailed, MarkAdvance, FlushDone
<1>4. TypeOK'
  BY <1>0, <1>1, <1>2, <1>3 DEF TypeOK
<1>5. Shape' /\ NoReadingLost' /\ SentIsAccepted' /\ AcceptedIsInDoubt'
  BY <1>0, <1>2, <1>3 DEF IInv, Shape, NoReadingLost, SentIsAccepted,
     AcceptedIsInDoubt
<1>6. BatchIsOldest' /\ FirstDeliveryInOrder'
  BY <1>0, <1>2, <1>3 DEF IInv, BatchIsOldest, FirstDeliveryInOrder
<1> QED
  BY <1>4, <1>5, <1>6 DEF IInv

LEMMA MarkSentIInv ==
    ASSUME IInv, NEW i \in RowIds, MarkSent(i)
    PROVE  IInv'
<1> USE DEF cloudVars, RowIds
<1>0. /\ TypeOK /\ i \in todo /\ i \in pending /\ pc = "mark"
      /\ readings[i] \notin refused /\ i \in accepted
  BY DEF IInv, Shape, SentIsAccepted, MarkSent, IsFirst
<1>1. /\ pending' = pending \ {i} /\ sent' = sent \cup {i}
      /\ UNCHANGED <<readings, attempts, damaged, known, accepted, doubt, aborts>>
  BY <1>0 DEF MarkSent, RecordSent, Rows
<1>2. \/ /\ todo' = todo \ {i} /\ UNCHANGED <<pc, items, refused>>
      \/ /\ todo = {i} /\ pc' = "sleep" /\ items' = {} /\ todo' = {}
         /\ refused' = {}
  BY DEF MarkSent, MarkAdvance, FlushDone
<1>3. TypeOK'
  BY <1>0, <1>1, <1>2 DEF TypeOK
<1>4. Shape' /\ NoReadingLost' /\ SentIsAccepted' /\ AcceptedIsInDoubt'
  BY <1>0, <1>1, <1>2 DEF IInv, Shape, NoReadingLost, SentIsAccepted,
     AcceptedIsInDoubt
<1>5. BatchIsOldest' /\ FirstDeliveryInOrder'
  BY <1>0, <1>1, <1>2 DEF IInv, BatchIsOldest, FirstDeliveryInOrder
<1> QED
  BY <1>3, <1>4, <1>5 DEF IInv

LEMMA FlushAbortedIInv ==
    ASSUME IInv, FlushAborted
    PROVE  IInv'
<1> USE DEF tableVars, RowIds
<1>1. /\ pc' = "sleep" /\ items' = {} /\ todo' = {} /\ refused' = {}
      /\ doubt' = IF pc = "mark" THEN doubt \cup (todo \cap accepted) ELSE doubt
      /\ UNCHANGED <<readings, pending, sent, attempts, damaged, known, accepted>>
  BY DEF FlushAborted, FlushDone
<1>2. aborts' \in 0..MaxAborts
  BY QueueAssumption DEF FlushAborted, IInv, TypeOK
<1>3. TypeOK'
  BY <1>1, <1>2 DEF IInv, TypeOK
<1>4. /\ Shape' /\ NoReadingLost' /\ SentIsAccepted' /\ AcceptedIsInDoubt'
      /\ BatchIsOldest' /\ FirstDeliveryInOrder'
  BY <1>1 DEF IInv, Shape, NoReadingLost, SentIsAccepted, AcceptedIsInDoubt,
     BatchIsOldest, FirstDeliveryInOrder
<1> QED
  BY <1>3, <1>4 DEF IInv

LEMMA StutterIInv == ASSUME IInv, UNCHANGED vars PROVE IInv'
BY DEF IInv, vars, TypeOK, RowIds, Shape, NoReadingLost, SentIsAccepted,
   AcceptedIsInDoubt, BatchIsOldest, FirstDeliveryInOrder

\* IInv is inductive: one lemma for every action.
LEMMA NextIInv == IInv /\ [Next]_vars => IInv'
<1> SUFFICES ASSUME IInv, [Next]_vars PROVE IInv'
  OBVIOUS
<1> QED
  BY EnqueueIInv, OthersIInv, GetPendingIInv, MarkInvalidIInv, PostAnsweredIInv,
     PostFailedIInv, PostGarbledIInv, MarkFailedIInv, MarkSentIInv,
     FlushAbortedIInv, StutterIInv DEF Next

THEOREM InvariantHolds == Spec => []IInv
BY InitIInv, NextIInv, PTL DEF Spec
-----------------------------------------------------------------------------
(* What follows.                                                           *)

\* The variables of the queue and of the flush thread keep their types.
THEOREM TypeCorrect == Spec => []TypeOK
<1>1. IInv => TypeOK
  BY DEF IInv
<1> QED
  BY <1>1, InvariantHolds, PTL

\* Whatever requests, transactions and processes fail, and however large the
\* batch, no reading leaves the queue before the cloud has stored it.
THEOREM ReadingsKept == Spec => []NoReadingLost
<1>1. IInv => NoReadingLost
  BY DEF IInv
<1> QED
  BY <1>1, InvariantHolds, PTL

\* The cloud first sees the readings of a tag in the order they were taken.
THEOREM DeliveredInOrder == Spec => []FirstDeliveryInOrder
<1>1. IInv => FirstDeliveryInOrder
  BY DEF IInv
<1> QED
  BY <1>1, InvariantHolds, PTL

\* A reading is uploaded twice only after a fault.
THEOREM ResentAfterFaultOnly == Spec => []ResendOnlyAfterFault
<1>1. IInv => ResendOnlyAfterFault
  BY DEF IInv, Shape, AcceptedIsInDoubt, ResendOnlyAfterFault
<1> QED
  BY <1>1, InvariantHolds, PTL
-----------------------------------------------------------------------------
(* Counting rows from the newest, for the cleanup.                         *)

\* The rows of a set beyond a given one.
Above(S, i) == {s \in S : s > i}

LEMMA AboveIsFinite ==
    ASSUME NEW S, IsFiniteSet(S), NEW i
    PROVE  IsFiniteSet(Above(S, i)) /\ Cardinality(Above(S, i)) \in Nat
BY FS_Subset, FS_CardinalityType DEF Above

\* A higher row has fewer rows above it.
LEMMA FewerAbove ==
    ASSUME NEW S \in SUBSET Int, IsFiniteSet(S), NEW j \in S, NEW i \in Int, i < j
    PROVE  Cardinality(Above(S, j)) < Cardinality(Above(S, i))
<1>1. Above(S, j) \in SUBSET Above(S, i)
  <2>1. \A s \in S : s > j => s > i
    OBVIOUS
  <2> QED
    BY <2>1 DEF Above
<1>2. j \in Above(S, i) /\ j \notin Above(S, j)
  BY DEF Above
<1>3. /\ Cardinality(Above(S, j)) <= Cardinality(Above(S, i))
      /\ Cardinality(Above(S, j)) # Cardinality(Above(S, i))
  BY <1>1, <1>2, AboveIsFinite, FS_Subset
<1> QED
  BY <1>3, AboveIsFinite

\* The counts of the rows above are 0 to the number of rows less one, each of
\* them once; hence a set of rows has a last one.
LEMMA LastElement ==
    ASSUME NEW S \in SUBSET Int, IsFiniteSet(S), S # {}
    PROVE  \E m \in S : \A s \in S : s <= m
<1> DEFINE k == Cardinality(S)
           T == 0..(k - 1)
           c == [i \in S |-> Cardinality(Above(S, i))]
<1>1. k \in Nat \ {0}
  BY FS_CardinalityType, FS_EmptySet
<1>2. IsFiniteSet(T) /\ Cardinality(T) = k
  BY <1>1, FS_Interval
<1>3. \A i \in S : Cardinality(Above(S, i)) \in T
  <2> SUFFICES ASSUME NEW i \in S
               PROVE  Cardinality(Above(S, i)) \in T
    OBVIOUS
  <2>1. Above(S, i) \in SUBSET S /\ Above(S, i) # S
    BY DEF Above
  <2>2. Cardinality(Above(S, i)) <= k /\ Cardinality(Above(S, i)) # k
    BY <2>1, FS_Subset
  <2> QED
    BY <1>1, <2>2, AboveIsFinite
<1>4. \A i, j \in S : i # j => Cardinality(Above(S, i)) # Cardinality(Above(S, j))
  <2> SUFFICES ASSUME NEW i \in S, NEW j \in S, i < j
               PROVE  Cardinality(Above(S, i)) # Cardinality(Above(S, j))
    OBVIOUS
  <2>1. Cardinality(Above(S, j)) < Cardinality(Above(S, i))
    BY FewerAbove
  <2> QED
    BY <2>1, AboveIsFinite
<1>5. c \in Injection(S, T)
  BY <1>3, <1>4 DEF Injection, IsInjective
<1>6. c \in Surjection(S, T)
  <2> HIDE DEF c, T, k
  <2> QED
    BY <1>2, <1>5, FS_Injection DEF k
<1>7. PICK m \in S : Cardinality(Above(S, m)) = 0
  <2>1. 0 \in T
    BY <1>1
  <2>2. PICK m \in S : c[m] = 0
    <3> HIDE DEF c, T
    <3> QED
      BY <1>6, <2>1 DEF Surjection
  <2> QED
    BY <2>2
<1>8. Above(S, m) = {}
  BY <1>7, AboveIsFinite, FS_EmptySet
<1>9. \A s \in S : s <= m
  BY <1>8 DEF Above
<1> QED
  BY <1>9

\* What is beyond n newer rows stays beyond n rows when only the n newest stay.
LEMMA NewestKeepsCount ==
    ASSUME NEW S \in SUBSET Int, IsFiniteSet(S), NEW n \in Nat, NEW g \in Int,
           Cardinality(Above(S, g)) >= n
    PROVE  Cardinality(Above(Newest(S, n), g)) >= n
<1> DEFINE N == Newest(S, n)
<1>1. N = {i \in S : Cardinality(Above(S, i)) < n}
  BY DEF Newest, Above
<1>2. IsFiniteSet(N) /\ Cardinality(N) \in Nat
  <2>1. N \in SUBSET S
    BY <1>1
  <2> QED
    BY <2>1, FS_Subset, FS_CardinalityType
<1>3. \A i \in N : i > g
  <2> SUFFICES ASSUME NEW i \in N, ~(i > g)
               PROVE  FALSE
    OBVIOUS
  <2>0. i \in S /\ i \in Int /\ Cardinality(Above(S, i)) < n
    <3> HIDE DEF N
    <3> QED
      BY <1>1
  <2>1. Above(S, g) \in SUBSET Above(S, i)
    <3>1. \A s \in S : s > g => s > i
      BY <2>0
    <3> QED
      BY <3>1 DEF Above
  <2>2. Cardinality(Above(S, g)) <= Cardinality(Above(S, i))
    BY <2>1, AboveIsFinite, FS_Subset
  <2> QED
    BY AboveIsFinite, <2>0, <2>2
<1>4. Cardinality(N) >= n
  <2> SUFFICES ASSUME Cardinality(N) < n
               PROVE  FALSE
    BY <1>2
  <2>1. S \ N # {}
    <3> SUFFICES ASSUME S = N
                 PROVE  FALSE
      BY <1>1
    <3>1. Above(S, g) \in SUBSET S
      BY DEF Above
    <3>2. Cardinality(Above(S, g)) <= Cardinality(N)
      BY <3>1, FS_Subset
    <3> QED
      BY AboveIsFinite, <1>2, <3>2
  <2>2. IsFiniteSet(S \ N)
    BY FS_Subset
  <2>3. PICK m \in S \ N : \A s \in S \ N : s <= m
    <3> HIDE DEF N
    <3> QED
      BY <2>1, <2>2, LastElement
  <2>4. Above(S, m) \in SUBSET N
    <3>1. \A s \in S : s > m => s \in N
      <4> HIDE DEF N
      <4> QED
        BY <2>3
    <3> QED
      BY <3>1 DEF Above
  <2>5. Cardinality(Above(S, m)) <= Cardinality(N)
    BY <1>2, <2>4, FS_Subset
  <2> QED
    BY AboveIsFinite, <1>1, <1>2, <2>3, <2>5
<1>5. Above(N, g) = N
  BY <1>3 DEF Above
<1> QED
  BY <1>4, <1>5

LEMMA RowsAreFinite ==
    ASSUME NEW n \in Nat, NEW S \in SUBSET (1..n)
    PROVE  IsFiniteSet(S) /\ S \in SUBSET Int
<1>1. IsFiniteSet(1..n)
  BY FS_Interval
<1>2. IsFiniteSet(S)
  BY <1>1, FS_Subset
<1> QED
  BY <1>2

\* Rows that become sent, or are new, only add to the count.
LEMMA MoreSentRetained ==
    ASSUME TypeOK, TypeOK', NewestSentRetained,
           sent \subseteq sent', Deleted' \subseteq Deleted
    PROVE  NewestSentRetained'
<1> SUFFICES ASSUME NEW g \in Deleted'
             PROVE  Cardinality(Above(sent', g)) >= KeepLatest
  BY DEF NewestSentRetained, Above
<1>1. Cardinality(Above(sent, g)) >= KeepLatest
  BY DEF NewestSentRetained, Above
<1>2. /\ IsFiniteSet(sent) /\ IsFiniteSet(sent') /\ sent' \in SUBSET Int
  <2>1. Len(readings) \in Nat /\ sent \in SUBSET (1..Len(readings))
    BY LenProperties DEF TypeOK, RowIds
  <2>2. Len(readings') \in Nat /\ sent' \in SUBSET (1..Len(readings'))
    BY LenProperties DEF TypeOK, RowIds
  <2> QED
    BY <2>1, <2>2, RowsAreFinite
<1>3. Above(sent, g) \in SUBSET Above(sent', g)
  BY DEF Above
<1>4. Cardinality(Above(sent, g)) <= Cardinality(Above(sent', g))
  BY <1>2, <1>3, AboveIsFinite, FS_Subset
<1> QED
  BY <1>1, <1>2, <1>4, AboveIsFinite, QueueAssumption

LEMMA CleanupRetains ==
    ASSUME TypeOK, NewestSentRetained, DeleteSentMessages
    PROVE  NewestSentRetained'
<1> SUFFICES ASSUME NEW g \in Deleted'
             PROVE  Cardinality(Above(sent', g)) >= KeepLatest
  BY DEF NewestSentRetained, Above
<1>1. Len(readings) \in Nat /\ sent \in SUBSET (1..Len(readings))
  BY LenProperties DEF TypeOK, RowIds
<1>2. IsFiniteSet(sent) /\ sent \in SUBSET Int
  BY <1>1, RowsAreFinite
<1>3. /\ sent' = Newest(sent, KeepLatest)
      /\ g \in 1..Len(readings) /\ (g \in Deleted \/ g \in sent \ sent')
  BY DEF DeleteSentMessages, Deleted, Rows, RowIds
<1>4. Cardinality(Above(sent, g)) >= KeepLatest
  <2>1. CASE g \in Deleted
    BY <2>1 DEF NewestSentRetained, Above
  <2>2. CASE g \in sent \ Newest(sent, KeepLatest)
    <3>1. ~(Cardinality(Above(sent, g)) < KeepLatest)
      BY <2>2 DEF Newest, Above
    <3> QED
      BY <3>1, <1>2, AboveIsFinite, QueueAssumption
  <2> QED
    BY <1>3, <2>1, <2>2
<1> QED
  BY <1>1, <1>2, <1>3, <1>4, NewestKeepsCount, QueueAssumption

LEMMA StepRetains ==
    ASSUME IInv, IInv', NewestSentRetained, [Next]_vars
    PROVE  NewestSentRetained'
<1> USE DEF flushVars, cloudVars, tableVars
<1>0. TypeOK /\ TypeOK'
  BY DEF IInv
<1>1. ASSUME NEW p \in Pairs, EnqueueTelemetry(p)
      PROVE  NewestSentRetained'
  <2>1. Len(readings) \in Nat /\ Len(readings') = Len(readings) + 1
    BY <1>0, <1>1, LenProperties, AppendProperties DEF TypeOK, EnqueueTelemetry
  <2>2. sent' = sent /\ pending' = pending \cup {Len(readings) + 1}
    BY <1>1 DEF EnqueueTelemetry
  <2>3. Deleted' \subseteq Deleted
    BY <2>1, <2>2 DEF Deleted, Rows, RowIds
  <2> QED
    BY <1>0, <2>2, <2>3, MoreSentRetained
<1>2. CASE DeleteSentMessages
  BY <1>0, <1>2, CleanupRetains
<1>3. ASSUME NEW i \in RowIds, MarkSent(i)
      PROVE  NewestSentRetained'
  <2>1. i \in pending
    BY <1>3 DEF MarkSent, IsFirst, IInv, Shape
  <2>2. pending' = pending \ {i} /\ sent' = sent \cup {i} /\ readings' = readings
    BY <1>3, <2>1 DEF MarkSent, RecordSent, Rows
  <2>3. Deleted' \subseteq Deleted
    BY <2>2 DEF Deleted, Rows, RowIds
  <2> QED
    BY <1>0, <2>2, <2>3, MoreSentRetained
<1>4. ASSUME UNCHANGED <<readings, pending, sent>>
      PROVE  NewestSentRetained'
  BY <1>4 DEF NewestSentRetained, Deleted, Rows, RowIds
<1>5. CASE \/ \E i \in RowIds : DamagePayload(i) \/ MarkInvalid(i) \/ MarkFailed(i)
           \/ CloudRegistry \/ GetPendingMessages \/ PostAnswered \/ PostGarbled
           \/ \E last \in 0..Len(readings) : PostFailed(last)
           \/ FlushAborted \/ UNCHANGED vars
  <2>1. UNCHANGED <<readings, pending, sent>>
    BY <1>5 DEF DamagePayload, MarkInvalid, MarkFailed, RecordFailure, CloudRegistry,
       GetPendingMessages, PostAnswered, PostGarbled, PostFailed, FlushAborted, vars
  <2> QED
    BY <2>1, <1>4
<1> QED
  BY <1>1, <1>2, <1>3, <1>5 DEF Next

\* However rows become sent out of their order, the cleanup never takes one
\* that is among the KeepLatest newest of the sent ones.
THEOREM NewestKept == Spec => []NewestSentRetained
<1>1. Init => NewestSentRetained
  BY DEF Init, NewestSentRetained, Deleted, RowIds
<1>2. IInv /\ IInv' /\ NewestSentRetained /\ [Next]_vars => NewestSentRetained'
  BY StepRetains
<1> QED
  BY <1>1, <1>2, InvariantHolds, PTL DEF Spec
-----------------------------------------------------------------------------
(* Rows that were passed over have been tried.                             *)

Tried(j) == attempts[j] > 0 \/ AttemptsCap = 0

\* Rows of the current flush that have still to be marked, at each point.
Unmarked == IF pc = "invalid" THEN items \cup todo
            ELSE IF pc = "post" THEN items ELSE todo

\* An older row that is pending beside them has been tried before, in this
\* flush or in an earlier one.
PassedOverAreTried ==
    \A i \in Unmarked, j \in pending : j < i => j \in Unmarked \/ Tried(j)

\* The UPDATE of mark_message_failed counts, and never counts down.
LEMMA FailureTries ==
    ASSUME IInv, NEW i \in todo, RecordFailure(i)
    PROVE  Tried(i)' /\ \A j \in RowIds : Tried(j) => Tried(j)'
<1>1. i \in Rows
  BY DEF IInv, Shape, Rows
<1>2. attempts' = [attempts EXCEPT ![i] = Bump(attempts[i])]
  BY <1>1 DEF RecordFailure
<1>3. /\ DOMAIN attempts = RowIds /\ i \in RowIds
      /\ \A j \in RowIds : attempts[j] \in 0..AttemptsCap
  BY ElementOfSeq, LenProperties DEF IInv, TypeOK, RowIds
<1>4. attempts'[i] = Bump(attempts[i]) /\ \A j \in RowIds \ {i} : attempts'[j] = attempts[j]
  BY <1>2, <1>3
<1>5. AttemptsCap = 0 \/ Bump(attempts[i]) > 0
  BY <1>3, QueueAssumption DEF Bump
<1> QED
  BY <1>3, <1>4, <1>5 DEF Tried

\* The row just failed leaves the unmarked ones, tried.
LEMMA FailureKeepsOrder ==
    ASSUME IInv, PassedOverAreTried, OvertakenRowsShowAttempts,
           NEW i \in todo, RecordFailure(i),
           Unmarked' \subseteq Unmarked,
           Unmarked' = {} \/ Unmarked \ {i} \subseteq Unmarked'
    PROVE  PassedOverAreTried' /\ OvertakenRowsShowAttempts'
<1>1. pending' = pending /\ RowIds' = RowIds /\ pending \subseteq RowIds
  BY DEF RecordFailure, RowIds, IInv, TypeOK
<1>2. Tried(i)' /\ \A j \in pending : Tried(j) => Tried(j)'
  BY <1>1, FailureTries
<1>3. PassedOverAreTried'
  BY <1>1, <1>2 DEF PassedOverAreTried
<1>4. OvertakenRowsShowAttempts'
  BY <1>1, <1>2 DEF OvertakenRowsShowAttempts, Tried
<1> QED
  BY <1>3, <1>4

LEMMA GetPendingKeepsOrder ==
    ASSUME IInv, OvertakenRowsShowAttempts, GetPendingMessages
    PROVE  PassedOverAreTried' /\ OvertakenRowsShowAttempts'
<1> DEFINE batch == Oldest(pending, BatchSize)
<1>1. Len(readings) \in Nat /\ pending \in SUBSET (1..Len(readings))
  BY LenProperties DEF IInv, TypeOK, RowIds
<1>2. IsFiniteSet(pending) /\ pending \in SUBSET Nat
  <2>1. 1..Len(readings) \subseteq Nat
    BY <1>1
  <2> QED
    BY <1>1, <2>1, RowsAreFinite
<1>3. \A i \in batch, j \in pending : j < i => j \in batch
  BY <1>2, QueueAssumption, OldestIsInitial
<1>4. Unmarked' = batch
  <2> HIDE DEF batch
  <2> QED
    BY DEF GetPendingMessages, Unmarked, batch
<1>5. UNCHANGED <<readings, pending, attempts>>
  BY DEF GetPendingMessages, tableVars
<1> QED
  BY <1>3, <1>4, <1>5 DEF PassedOverAreTried, OvertakenRowsShowAttempts, RowIds

LEMMA EnqueueKeepsOrder ==
    ASSUME IInv, IInv', PassedOverAreTried, OvertakenRowsShowAttempts,
           NEW p \in Pairs, EnqueueTelemetry(p)
    PROVE  PassedOverAreTried' /\ OvertakenRowsShowAttempts'
<1> DEFINE n == Len(readings) + 1
<1>1. /\ Len(readings) \in Nat /\ Len(readings') = n /\ Len(attempts) = Len(readings)
      /\ \A j \in 1..Len(readings) : attempts'[j] = attempts[j]
  BY LenProperties, AppendProperties DEF IInv, TypeOK, EnqueueTelemetry
<1>2. /\ pending' = pending \cup {n} /\ RowIds' = RowIds \cup {n}
      /\ pending \subseteq RowIds /\ Unmarked \subseteq RowIds /\ Unmarked' = Unmarked
  <2>1. RowIds' = RowIds \cup {n}
    BY <1>1 DEF RowIds
  <2>2. pending' = pending \cup {n} /\ Unmarked' = Unmarked
    BY DEF EnqueueTelemetry, flushVars, Unmarked
  <2>3. pending \subseteq RowIds /\ Unmarked \subseteq RowIds
    BY DEF IInv, TypeOK, Unmarked
  <2> QED
    BY <2>1, <2>2, <2>3
<1>3. \A i \in RowIds : i < n /\ ~(n < i)
  BY <1>1 DEF RowIds
<1>4. \A j \in RowIds : Tried(j) => Tried(j)'
  BY <1>1 DEF RowIds, Tried
<1>5. PassedOverAreTried'
  BY <1>2, <1>3, <1>4 DEF PassedOverAreTried
<1>6. OvertakenRowsShowAttempts'
  BY <1>2, <1>3, <1>4 DEF OvertakenRowsShowAttempts, Tried
<1> QED
  BY <1>5, <1>6

\* A row leaves the queue as sent before every unmarked one that is younger.
LEMMA SentKeepsOrder ==
    ASSUME IInv, PassedOverAreTried, OvertakenRowsShowAttempts,
           NEW i \in RowIds, MarkSent(i)
    PROVE  PassedOverAreTried' /\ OvertakenRowsShowAttempts'
<1>1. /\ i \in todo /\ pc = "mark" /\ \A j \in todo : i <= j
      /\ pending' = pending \ {i} /\ UNCHANGED <<readings, attempts>>
  BY DEF MarkSent, IsFirst, RecordSent
<1>2. Unmarked = todo /\ Unmarked' = todo \ {i}
  BY <1>1 DEF MarkSent, MarkAdvance, FlushDone, Unmarked
<1>3. todo \subseteq RowIds /\ pending \subseteq RowIds /\ RowIds \subseteq Int
  BY LenProperties DEF IInv, TypeOK, RowIds
<1>4. PassedOverAreTried'
  BY <1>1, <1>2 DEF PassedOverAreTried, Tried
<1>5. \A j \in pending : j < i => Tried(j)
  BY <1>1, <1>2, <1>3 DEF PassedOverAreTried
<1>6. OvertakenRowsShowAttempts'
  BY <1>1, <1>5 DEF OvertakenRowsShowAttempts, Tried, RowIds
<1> QED
  BY <1>4, <1>6

LEMMA StepKeepsOrder ==
    ASSUME IInv, IInv', PassedOverAreTried, OvertakenRowsShowAttempts, [Next]_vars
    PROVE  PassedOverAreTried' /\ OvertakenRowsShowAttempts'
<1>1. ASSUME NEW i \in RowIds, MarkInvalid(i)
      PROVE  PassedOverAreTried' /\ OvertakenRowsShowAttempts'
  <2>1. i \in todo /\ RecordFailure(i) /\ pc = "invalid"
    BY <1>1 DEF MarkInvalid, IsFirst
  <2>2. /\ Unmarked' \subseteq Unmarked
        /\ Unmarked' = {} \/ Unmarked \ {i} \subseteq Unmarked'
    BY <1>1, <2>1 DEF MarkInvalid, FlushDone, Unmarked
  <2> QED
    BY <2>1, <2>2, FailureKeepsOrder
<1>2. ASSUME NEW i \in RowIds, MarkFailed(i)
      PROVE  PassedOverAreTried' /\ OvertakenRowsShowAttempts'
  <2>1. i \in todo /\ RecordFailure(i) /\ pc = "mark"
    BY <1>2 DEF MarkFailed, IsFirst
  <2>2. /\ Unmarked' \subseteq Unmarked
        /\ Unmarked' = {} \/ Unmarked \ {i} \subseteq Unmarked'
    BY <1>2, <2>1 DEF MarkFailed, MarkAdvance, FlushDone, Unmarked
  <2> QED
    BY <2>1, <2>2, FailureKeepsOrder
<1>3. ASSUME UNCHANGED <<readings, pending, attempts>>,
             Unmarked' \in {Unmarked, {}}
      PROVE  PassedOverAreTried' /\ OvertakenRowsShowAttempts'
  BY <1>3 DEF PassedOverAreTried, OvertakenRowsShowAttempts, Tried, RowIds
<1>4. CASE \/ PostAnswered \/ PostGarbled \/ FlushAborted
           \/ \E last \in 0..Len(readings) : PostFailed(last)
  <2>1. UNCHANGED <<readings, pending, attempts>> /\ Unmarked' \in {Unmarked, {}}
    BY <1>4 DEF PostAnswered, PostGarbled, PostFailed, FlushAborted, FlushDone,
       tableVars, Unmarked
  <2> QED
    BY <2>1, <1>3
<1>5. CASE \/ \E i \in RowIds : DamagePayload(i)
           \/ DeleteSentMessages \/ CloudRegistry \/ UNCHANGED vars
  <2>1. UNCHANGED <<readings, pending, attempts>> /\ Unmarked' \in {Unmarked, {}}
    BY <1>5 DEF DamagePayload, DeleteSentMessages, CloudRegistry, flushVars,
       tableVars, vars, Unmarked
  <2> QED
    BY <2>1, <1>3
<1> QED
  BY <1>1, <1>2, <1>4, <1>5, EnqueueKeepsOrder, GetPendingKeepsOrder,
     SentKeepsOrder DEF Next

\* Whatever faults occur, a row that a younger one has overtaken has a failed
\* attempt on record.
THEOREM OvertakenWereTried == Spec => []OvertakenRowsShowAttempts
<1>1. Init => PassedOverAreTried /\ OvertakenRowsShowAttempts
  BY DEF Init, PassedOverAreTried, OvertakenRowsShowAttempts, Unmarked, RowIds
<1>2. /\ IInv /\ IInv' /\ PassedOverAreTried /\ OvertakenRowsShowAttempts
      /\ [Next]_vars
      => PassedOverAreTried' /\ OvertakenRowsShowAttempts'
  BY StepKeepsOrder
<1> QED
  BY <1>1, <1>2, InvariantHolds, PTL DEF Spec
-----------------------------------------------------------------------------
(* The queue implements the contract of ReliableUpload: enqueuing is       *)
(* Produce, an outcome of the request is Deliver, marking sent is          *)
(* Discharge, and every other step leaves the contract's state alone.      *)

LEMMA InitContract == Init => Contract!Init
BY EmptySeq DEF Init, Contract!Init

LEMMA StepContract ==
    ASSUME IInv, [Next]_vars
    PROVE  [Contract!Next]_(Contract!vars)
<1> USE DEF tableVars, flushVars, cloudVars, Contract!vars
<1>0. TypeOK /\ readings \in Seq(Pairs)
  BY DEF IInv, TypeOK
<1>1. ASSUME NEW p \in Pairs, EnqueueTelemetry(p)
      PROVE  Contract!Produce
  <2>1. Len(readings') = Len(readings) + 1
    BY <1>0, <1>1, AppendProperties DEF EnqueueTelemetry
  <2> QED
    BY <1>1, <2>1 DEF EnqueueTelemetry, Contract!Produce
<1>2. CASE PostAnswered \/ PostGarbled \/ \E last \in 0..Len(readings) : PostFailed(last)
  <2>1. /\ UNCHANGED <<readings, pending>>
        /\ \E S \in SUBSET items : accepted' = accepted \cup S
        /\ pc = "post"
    BY <1>2 DEF PostAnswered, PostGarbled, PostFailed, Registered
  <2>2. items \subseteq pending
    BY <2>1 DEF IInv, Shape
  <2>3. Contract!Deliver
    BY <2>1, <2>2 DEF Contract!Deliver
  <2> QED
    BY <2>3 DEF Contract!Next
<1>3. ASSUME NEW i \in RowIds, MarkSent(i)
      PROVE  i \in pending /\ Contract!Discharge(i)
  <2>1. i \in pending /\ i \in accepted
    BY <1>3 DEF MarkSent, IsFirst, IInv, Shape, SentIsAccepted
  <2> QED
    BY <1>3, <2>1 DEF MarkSent, RecordSent, Contract!Discharge
<1>4. CASE \/ \E i \in RowIds : DamagePayload(i) \/ MarkInvalid(i) \/ MarkFailed(i)
           \/ DeleteSentMessages \/ CloudRegistry \/ GetPendingMessages
           \/ FlushAborted
  BY <1>4 DEF DamagePayload, MarkInvalid, MarkFailed, RecordFailure,
     DeleteSentMessages, CloudRegistry, GetPendingMessages, FlushAborted
<1>5. CASE UNCHANGED vars
  BY <1>5 DEF vars
<1> QED
  BY <1>1, <1>2, <1>3, <1>4, <1>5 DEF Next, Contract!Next

\* The gateway owes the cloud every reading it has taken until the cloud
\* holds it: no batch, fault, restart or cleanup shows through.
THEOREM QueueImplementsContract == Spec => ImplementsContract
<1>1. IInv /\ [Next]_vars => [Contract!Next]_(Contract!vars)
  BY StepContract
<1> QED
  BY <1>1, InitContract, InvariantHolds, PTL
     DEF Spec, ImplementsContract, Contract!Spec
-----------------------------------------------------------------------------
(* The places of a batch.                                                  *)

\* Rows that cannot be uploaded take one place of a batch each: an uploadable row
\* that has a place left, after them and after those before it, is among the oldest.
LEMMA PlaceInBatch ==
    ASSUME NEW S, IsFiniteSet(S), NEW B \in SUBSET S, NEW i \in S \ B, NEW n \in Nat,
           Cardinality({j \in S \ B : j < i}) + Cardinality(B) < n
    PROVE  i \in Oldest(S, n)
<1> DEFINE Before == {j \in S : j < i}
           BeforeOthers == {j \in S \ B : j < i}
<1>1. IsFiniteSet(B) /\ IsFiniteSet(BeforeOthers) /\ IsFiniteSet(Before)
  <2>1. BeforeOthers \in SUBSET S /\ Before \in SUBSET S
    OBVIOUS
  <2> QED
    BY <2>1, FS_Subset
<1>2. /\ Cardinality(B) \in Nat /\ Cardinality(BeforeOthers) \in Nat
      /\ Cardinality(Before) \in Nat
  BY <1>1, FS_CardinalityType
<1>3. Cardinality(BeforeOthers \cup B) <= Cardinality(BeforeOthers) + Cardinality(B)
  <2>1. BeforeOthers \cap B = {}
    OBVIOUS
  <2>2. Cardinality(BeforeOthers \cap B) = 0
    BY <2>1, FS_EmptySet
  <2>3. Cardinality(BeforeOthers \cup B)
          = Cardinality(BeforeOthers) + Cardinality(B) - Cardinality(BeforeOthers \cap B)
    BY <1>1, FS_Union
  <2> HIDE DEF BeforeOthers
  <2> QED
    BY <1>2, <2>2, <2>3
<1>4. Cardinality(Before) <= Cardinality(BeforeOthers \cup B)
  <2>1. IsFiniteSet(BeforeOthers \cup B)
    BY <1>1, FS_Union
  <2>2. Before \in SUBSET (BeforeOthers \cup B)
    OBVIOUS
  <2> HIDE DEF Before, BeforeOthers
  <2> QED
    BY <2>1, <2>2, FS_Subset
<1>5. Cardinality(BeforeOthers \cup B) \in Nat
  BY <1>1, FS_Union, FS_CardinalityType
<1>6. Cardinality(Before) < n
  <2> HIDE DEF Before, BeforeOthers
  <2>1. Cardinality(BeforeOthers) + Cardinality(B) < n
    BY DEF BeforeOthers
  <2> QED
    BY <1>2, <1>3, <1>4, <1>5, <2>1
<1> QED
  BY <1>6 DEF Oldest

\* flush_pending_batch takes every uploadable row that the rows the cloud refuses, and
\* those that hold no reading, leave a place for, wherever these stand in the queue.
THEOREM BatchHasRoom == Spec => BlockedCostOnePlace
<1>1. ASSUME IInv, [Next]_vars, pc = "sleep", pc' # "sleep",
             NEW i \in Uploadable,
             Cardinality({j \in Uploadable : j < i}) + Cardinality(Blocked) < BatchSize
      PROVE  i \in items'
  <2>1. GetPendingMessages
    BY <1>1 DEF Next, EnqueueTelemetry, DamagePayload, DeleteSentMessages, CloudRegistry,
       MarkInvalid, PostAnswered, PostFailed, PostGarbled, MarkFailed, MarkSent,
       FlushAborted, flushVars, vars
  <2>2. IsFiniteSet(pending)
    BY <1>1, RowsAreFinite, LenProperties DEF IInv, TypeOK, RowIds
  <2>3. Blocked \in SUBSET pending /\ i \in pending \ Blocked /\ BatchSize \in Nat
    BY QueueAssumption DEF Blocked, Uploadable
  <2>4. i \in Oldest(pending, BatchSize)
    BY <1>1, <2>2, <2>3, PlaceInBatch DEF Uploadable
  <2>5. i \notin damaged
    BY <2>3 DEF Blocked
  <2> QED
    BY <2>1, <2>4, <2>5 DEF GetPendingMessages
<1>2. IInv /\ [Next]_vars =>
        [pc = "sleep" /\ pc' # "sleep" =>
            \A i \in Uploadable :
                Cardinality({j \in Uploadable : j < i}) + Cardinality(Blocked) < BatchSize
                    => i \in items']_vars
  BY <1>1
<1> QED
  BY <1>2, InvariantHolds, PTL DEF Spec, BlockedCostOnePlace
-----------------------------------------------------------------------------
(* The head of the queue is uploaded. A row with fewer than BatchSize rows *)
(* before it is in the next request, and in each one until it is sent.     *)

Front(i) == {j \in pending : j < i}

\* A row of a registered pair with a place in the batch; it has left the queue.
Waits(i) ==
    /\ i \in pending \ damaged /\ readings[i] \in Stable
    /\ Cardinality(Front(i)) < BatchSize
Gone(i) == i \notin pending \/ i \in damaged
HeadUploaded(i) == Waits(i) ~> Gone(i)

\* The flush under way, if any, is one that took the row; the reply has come, and
\* the row is among those to be marked sent.
Requested(i) == Waits(i) /\ (pc \in {"invalid", "post"} => i \in items)
Marked(i) == Waits(i) /\ pc = "mark" /\ i \in todo /\ readings[i] \notin refused

Asleep == pc = "sleep"
Judging == pc = "invalid"
Posting == pc = "post"
SomePending == pending # {}

\* The flush thread comes to its sleep again and again, and out of it while a row is
\* pending; a request that is tried again and again is answered at last.
FlushGoesOn ==
    /\ []<>Asleep /\ (Asleep /\ SomePending ~> ~Asleep)
    /\ []<>Posting => []<><<PostAnswered>>_vars

\* The cloud has the pairs that stay registered.
StableKnown == Stable \subseteq known

LEMMA StableStaysKnown ==
    /\ Init => StableKnown
    /\ StableKnown /\ [Next]_vars => StableKnown'
<1>1. Init => StableKnown
  BY DEF Init, StableKnown
<1>2. ASSUME StableKnown, [Next]_vars PROVE StableKnown'
  <2>1. CASE CloudRegistry
    BY <2>1 DEF CloudRegistry, StableKnown
  <2>2. UNCHANGED known => StableKnown'
    BY <1>2 DEF StableKnown
  <2> QED
    BY <1>2, <2>1, <2>2 DEF Next, EnqueueTelemetry, DamagePayload, DeleteSentMessages,
       GetPendingMessages, MarkInvalid, PostAnswered, PostFailed, PostGarbled,
       MarkFailed, MarkSent, FlushAborted, cloudVars, vars
<1> QED
  BY <1>1, <1>2

\* No step puts a row before another one, or changes what it holds.
LEMMA QueueGrowsBehind ==
    ASSUME IInv, [Next]_vars, NEW i \in pending
    PROVE  readings'[i] = readings[i] /\ Front(i)' \in SUBSET Front(i)
<1>1. /\ readings \in Seq(Pairs) /\ Len(readings) \in Nat
      /\ i \in 1..Len(readings)
  BY LenProperties DEF IInv, TypeOK, RowIds
<1>2. ASSUME NEW p \in Pairs, EnqueueTelemetry(p)
      PROVE  readings'[i] = readings[i] /\ Front(i)' \in SUBSET Front(i)
  <2>1. readings'[i] = readings[i]
    BY <1>1, <1>2, AppendProperties DEF EnqueueTelemetry
  <2>2. pending' = pending \cup {Len(readings) + 1}
    BY <1>2 DEF EnqueueTelemetry
  <2> QED
    BY <1>1, <2>1, <2>2 DEF Front
<1>3. readings' = readings /\ pending' \in SUBSET pending
        => readings'[i] = readings[i] /\ Front(i)' \in SUBSET Front(i)
  BY DEF Front
<1> QED
  BY <1>2, <1>3 DEF Next, DamagePayload, DeleteSentMessages, CloudRegistry,
     GetPendingMessages, MarkInvalid, PostAnswered, PostFailed, PostGarbled,
     MarkFailed, MarkSent, FlushAborted, RecordFailure, RecordSent, tableVars, vars

LEMMA WaitsStays ==
    ASSUME IInv, [Next]_vars, NEW i, Waits(i)
    PROVE  Waits(i)' \/ Gone(i)'
<1>1. /\ i \in pending /\ IsFiniteSet(pending)
  BY RowsAreFinite, LenProperties DEF IInv, TypeOK, RowIds, Waits
<1>2. readings'[i] = readings[i] /\ Front(i)' \in SUBSET Front(i)
  BY <1>1, QueueGrowsBehind
<1>3. IsFiniteSet(Front(i))
  BY <1>1, FS_Subset DEF Front
<1>4. /\ Cardinality(Front(i)') <= Cardinality(Front(i))
      /\ Cardinality(Front(i)) \in Nat /\ Cardinality(Front(i)') \in Nat
  BY <1>2, <1>3, FS_Subset, FS_CardinalityType
<1>5. Cardinality(Front(i)') < BatchSize
  BY <1>4, QueueAssumption DEF Waits
<1> QED
  BY <1>2, <1>5 DEF Waits, Gone

\* A flush that begins takes the row, and keeps it up to the reply.
LEMMA RequestedStays ==
    ASSUME IInv, [Next]_vars, NEW i, Requested(i)
    PROVE  /\ Requested(i)' \/ Gone(i)'
           /\ Asleep => Asleep' \/ Judging' \/ Posting'
           /\ Judging /\ ~FlushAborted => Judging' \/ Posting'
<1>1. Waits(i)' \/ Gone(i)'
  BY WaitsStays DEF Requested
<1>2. CASE GetPendingMessages
  <2>1. i \in Oldest(pending, BatchSize)
    BY DEF Requested, Waits, Front, Oldest
  <2> QED
    BY <1>1, <1>2, <2>1
       DEF GetPendingMessages, Requested, Waits, Asleep, Judging, Posting
<1>3. ASSUME NEW j \in RowIds, MarkInvalid(j) PROVE items' = items /\ pc' # "sleep"
  BY <1>3 DEF MarkInvalid, Requested
<1> QED
  BY <1>1, <1>2, <1>3 DEF Requested, Asleep, Judging, Posting, Next, EnqueueTelemetry, DamagePayload,
     DeleteSentMessages, CloudRegistry, MarkInvalid, PostAnswered, PostFailed,
     PostGarbled, MarkFailed, MarkSent, MarkAdvance, FlushDone, FlushAborted, flushVars,
     vars

LEMMA ReplyMarks ==
    ASSUME IInv, StableKnown, [Next]_vars, NEW i, Requested(i), PostAnswered
    PROVE  Marked(i)' \/ Gone(i)'
<1>1. Waits(i)' \/ Gone(i)'
  BY WaitsStays DEF Requested
<1>2. pc' = "mark" /\ i \in todo' /\ readings[i] \notin refused'
  BY DEF PostAnswered, Requested, Waits, StableKnown, PairsOf
<1>3. readings' = readings
  BY DEF PostAnswered, tableVars
<1> QED
  BY <1>1, <1>2, <1>3 DEF Marked

\* A row to be marked sent is, before the flush is over.
LEMMA MarkedStays ==
    ASSUME IInv, [Next]_vars, ~FlushAborted, NEW i, Marked(i)
    PROVE  Marked(i)' \/ Gone(i)'
<1>1. Waits(i)' \/ Gone(i)'
  BY WaitsStays DEF Marked
<1>2. readings'[i] = readings[i]
  BY QueueGrowsBehind DEF Marked, Waits
<1>3. ASSUME NEW j \in RowIds, MarkFailed(j) \/ MarkSent(j)
      PROVE  i \notin pending' \/ (pc' = "mark" /\ i \in todo' /\ refused' = refused)
  <2>1. CASE j = i
    BY <1>3, <2>1 DEF MarkFailed, MarkSent, RecordSent, Marked
  <2>2. CASE j # i
    BY <1>3, <2>2 DEF MarkFailed, MarkSent, MarkAdvance, Marked
  <2> QED
    BY <2>1, <2>2
<1>4. CASE UNCHANGED <<pc, todo, refused>>
  BY <1>1, <1>2, <1>4 DEF Marked
<1> QED
  BY <1>1, <1>2, <1>3, <1>4 DEF Marked, Gone, Next, EnqueueTelemetry, DamagePayload,
     DeleteSentMessages, CloudRegistry, GetPendingMessages, MarkInvalid, PostAnswered,
     PostFailed, PostGarbled, flushVars, vars

\* A flush thread that goes on uploads every readable row of a registered pair that
\* has fewer than BatchSize rows before it, once flushes are not broken off any more:
\* requests may fail, or be answered by no batch result, as often as they like, and
\* rows of the batch may be refused or hold no reading.
THEOREM HeadOfQueueUploaded ==
    Spec /\ FlushGoesOn /\ <>[][~FlushAborted]_vars => \A i \in Nat : HeadUploaded(i)
<1>1. ASSUME NEW i \in Nat
      PROVE  Spec /\ FlushGoesOn /\ <>[][~FlushAborted]_vars => HeadUploaded(i)
  <2>0. UNCHANGED vars =>
            /\ UNCHANGED <<Asleep, Judging, Posting, Waits(i), Requested(i), Marked(i)>>
    BY DEF vars, Asleep, Judging, Posting, Requested, Marked, Waits, Front
  <2>1. IInv /\ [Next]_vars /\ Waits(i) => Waits(i)' \/ Gone(i)'
    BY WaitsStays
  <2>2. Waits(i) /\ Asleep => Requested(i)
    BY DEF Asleep, Requested
  <2>3. IInv /\ [Next]_vars /\ Requested(i) => Requested(i)' \/ Gone(i)'
    BY RequestedStays
  <2>4. IInv /\ [Next]_vars /\ Requested(i) /\ Asleep
            => Asleep' \/ Judging' \/ Posting'
    BY RequestedStays
  <2>5. IInv /\ [Next]_vars /\ [~FlushAborted]_vars /\ Requested(i) /\ Judging
            => Judging' \/ Posting'
    BY <2>0, RequestedStays
  <2>6. IInv /\ StableKnown /\ [Next]_vars /\ Requested(i) /\ <<PostAnswered>>_vars
            => Marked(i)' \/ Gone(i)'
    BY ReplyMarks
  <2>7. IInv /\ [Next]_vars /\ [~FlushAborted]_vars /\ Marked(i)
            => Marked(i)' \/ Gone(i)'
    BY <2>0, MarkedStays
  <2>8. /\ Marked(i) => ~Asleep
        /\ Judging => ~Asleep
        /\ Requested(i) => Waits(i) /\ SomePending
    BY DEF Marked, Asleep, Judging, Requested, Waits, SomePending
  <2> QED
    BY <2>1, <2>2, <2>3, <2>4, <2>5, <2>6, <2>7, <2>8, StableStaysKnown,
       InvariantHolds, PTL DEF Spec, FlushGoesOn, HeadUploaded
<1> QED
  BY <1>1
-----------------------------------------------------------------------------
(* The rows behind the head. While the rows that cannot be uploaded leave  *)
(* room in a batch, the first of the others is always in the next one, so  *)
(* that every row has ever fewer of them before it.                        *)

Less == {ss \in Nat \X Nat : ss[1] < ss[2]}

\* A set of naturals has a least one.
LEMMA LeastNatural ==
    ASSUME NEW S \in SUBSET Nat, S # {}
    PROVE  \E m \in S : \A k \in S : m <= k
<1>1. IsWellFoundedOn(Less, Nat)
  BY NatLessThanWellFounded, Zenon DEF OpToRel, Less
<1>2. PICK m \in S : \A k \in S : ~ (<<k, m>> \in Less)
  BY <1>1, WFMin
<1>3. \A k \in S : ~ (k < m)
  BY <1>2 DEF Less
<1> QED
  BY <1>3

Ahead(i) == {j \in Uploadable : j < i}
Room == Cardinality(Blocked) < BatchSize

\* n uploadable rows are before i; fewer are, or i has left the queue.
HasAhead(i, n) == i \in Uploadable /\ Cardinality(Ahead(i)) = n
Nearer(i, n) == Gone(i) \/ (i \in Uploadable /\ Cardinality(Ahead(i)) < n)

\* h is the first uploadable row, up to i.
Leads(h, i, n) == HasAhead(i, n) /\ h \in Uploadable /\ h <= i /\ Ahead(h) = {}

LEMMA SomeRowLeads ==
    ASSUME TypeOK, NEW i \in Nat, NEW n \in Nat, HasAhead(i, n)
    PROVE  \E h \in Nat : Leads(h, i, n)
<1>1. Uploadable \in SUBSET Nat /\ Uploadable # {}
  <2>1. RowIds \in SUBSET Nat
    BY LenProperties DEF TypeOK, RowIds
  <2> QED
    BY <2>1 DEF TypeOK, Uploadable, HasAhead
<1>2. PICK h \in Uploadable : \A k \in Uploadable : h <= k
  BY <1>1, LeastNatural
<1>3. Ahead(h) = {}
  <2>1. \A k \in Uploadable : ~ (k < h)
    BY <1>1, <1>2
  <2> QED
    BY <2>1 DEF Ahead
<1> QED
  BY <1>1, <1>2, <1>3 DEF Leads, HasAhead

\* Behind rows that cannot be uploaded, the first one of the others has a place.
LEMMA LeaderWaits ==
    ASSUME IInv, Room, NEW h, NEW i, NEW n, Leads(h, i, n)
    PROVE  Waits(h)
<1>1. IsFiniteSet(pending)
  BY RowsAreFinite, LenProperties DEF IInv, TypeOK, RowIds
<1>2. Front(h) \in SUBSET Blocked /\ Blocked \in SUBSET pending
  BY DEF Leads, Front, Ahead, Uploadable, Blocked
<1>3. /\ Cardinality(Front(h)) <= Cardinality(Blocked)
      /\ Cardinality(Front(h)) \in Nat /\ Cardinality(Blocked) \in Nat
  BY <1>1, <1>2, FS_Subset, FS_CardinalityType
<1>4. Cardinality(Front(h)) < BatchSize
  BY <1>3, QueueAssumption DEF Room
<1> QED
  BY <1>4 DEF Leads, Uploadable, Blocked, Waits

\* The rows before one only get fewer; when the first of them leaves, they do.
LEMMA LeaderStays ==
    ASSUME IInv, [Next]_vars, NEW h \in Nat, NEW i \in Nat, NEW n \in Nat, Leads(h, i, n)
    PROVE  Nearer(i, n)' \/ (Leads(h, i, n)' /\ ~Gone(h)')
<1>1. /\ i \in pending /\ h \in pending /\ IsFiniteSet(Uploadable)
      /\ pending \in SUBSET Nat
  <2>1. IsFiniteSet(pending) /\ Uploadable \in SUBSET pending
    BY RowsAreFinite, LenProperties DEF IInv, TypeOK, RowIds, Uploadable
  <2>2. pending \in SUBSET Nat
    BY LenProperties DEF IInv, TypeOK, RowIds
  <2> QED
    BY <2>1, <2>2, FS_Subset DEF Leads, HasAhead
<1>2. damaged \in SUBSET damaged'
  BY DEF Next, EnqueueTelemetry, DamagePayload, DeleteSentMessages, CloudRegistry,
     GetPendingMessages, MarkInvalid, PostAnswered, PostFailed, PostGarbled,
     MarkFailed, MarkSent, FlushAborted, RecordFailure, RecordSent, tableVars, vars
<1>3. \A j \in pending : readings'[j] = readings[j]
  BY QueueGrowsBehind
<1>4. ASSUME NEW r \in {h, i}, ~Gone(r)'
      PROVE  r \in Uploadable' /\ Ahead(r)' \in SUBSET Ahead(r)
  <2>1. Front(r)' \in SUBSET Front(r)
    BY <1>1, QueueGrowsBehind
  <2>2. r \in Uploadable'
    BY <1>1, <1>3, <1>4 DEF Gone, Uploadable, Blocked, Leads, HasAhead
  <2>3. \A j \in Uploadable' : j < r => j \in Uploadable
    BY <1>2, <1>3, <2>1 DEF Uploadable, Blocked, Front
  <2> QED
    BY <2>2, <2>3 DEF Ahead
<1>5. IsFiniteSet(Ahead(i)) /\ Cardinality(Ahead(i)) = n
  BY <1>1, FS_Subset DEF Ahead, Leads, HasAhead
<1>6. CASE Gone(i)'
  BY <1>6 DEF Nearer
<1>7. CASE ~Gone(i)' /\ Gone(h)'
  <2>1. h \in Ahead(i) /\ h \notin Ahead(i)'
    BY <1>1, <1>7 DEF Ahead, Leads, Gone, Uploadable, Blocked
  <2>2. Ahead(i)' \in SUBSET Ahead(i) /\ Ahead(i)' # Ahead(i)
    BY <1>4, <1>7, <2>1
  <2>3. Cardinality(Ahead(i)') < Cardinality(Ahead(i))
    <3>1. /\ Cardinality(Ahead(i)') <= Cardinality(Ahead(i))
          /\ Cardinality(Ahead(i)') # Cardinality(Ahead(i))
          /\ Cardinality(Ahead(i)) \in Nat /\ Cardinality(Ahead(i)') \in Nat
      BY <1>5, <2>2, FS_Subset, FS_CardinalityType
    <3> QED
      BY <3>1
  <2> QED
    BY <1>4, <1>5, <1>7, <2>3 DEF Nearer
<1>8. CASE ~Gone(i)' /\ ~Gone(h)'
  <2>1. /\ Cardinality(Ahead(i)') <= n
        /\ Cardinality(Ahead(i)') \in Nat
    BY <1>4, <1>5, <1>8, FS_Subset, FS_CardinalityType
  <2>2. h \in Uploadable'
    BY <1>4, <1>8
  <2>3. Ahead(h)' = {}
    BY <1>4, <1>8 DEF Leads
  <2>4. CASE Cardinality(Ahead(i)') < n
    BY <1>4, <1>8, <2>4 DEF Nearer
  <2>5. CASE Cardinality(Ahead(i)') = n
    BY <1>4, <1>8, <2>2, <2>3, <2>5 DEF Leads, HasAhead
  <2> QED
    BY <2>1, <2>4, <2>5
<1> QED
  BY <1>6, <1>7, <1>8
\* The flush under way, if any, has the first row; it is to be marked sent.
LeaderRequested(i, n) == \E h \in Nat : Leads(h, i, n) /\ Requested(h)
LeaderMarked(i, n) == \E h \in Nat : Leads(h, i, n) /\ Marked(h)

\* The induction step of UploadedWithRoomInBatch: with room in the batch, a flush
\* thread that goes on brings every uploadable row out of the queue, or leaves fewer
\* uploadable rows before it, wherever in the queue it and the refused rows stand.
THEOREM UploadAdvances ==
    Spec /\ FlushGoesOn /\ <>[][~FlushAborted]_vars /\ []Room =>
        \A i \in Nat : \A n \in Nat : HasAhead(i, n) ~> Nearer(i, n)
<1>1. ASSUME NEW i \in Nat, NEW n \in Nat
      PROVE  Spec /\ FlushGoesOn /\ <>[][~FlushAborted]_vars /\ []Room
                 => (HasAhead(i, n) ~> Nearer(i, n))
  <2>0. UNCHANGED vars =>
            /\ UNCHANGED <<Asleep, Judging, Posting>>
            /\ \A h \in Nat : /\ Leads(h, i, n) => Leads(h, i, n)'
                              /\ Marked(h) => Marked(h)'
    BY DEF vars, Asleep, Judging, Posting, Leads, HasAhead, Ahead, Uploadable, Blocked,
       Marked, Waits, Front
  <2>1. ASSUME IInv, Room, [Next]_vars, HasAhead(i, n)
        PROVE  HasAhead(i, n)' \/ Nearer(i, n)'
    BY <2>1, SomeRowLeads, LeaderStays DEF IInv, Leads
  <2>2. ASSUME IInv, Room, HasAhead(i, n), Asleep
        PROVE  LeaderRequested(i, n)
    <3>1. PICK h \in Nat : Leads(h, i, n)
      BY <2>2, SomeRowLeads DEF IInv
    <3>2. Waits(h)
      BY <2>2, <3>1, LeaderWaits
    <3> QED
      BY <2>2, <3>1, <3>2 DEF LeaderRequested, Requested, Asleep
  <2>3. ASSUME IInv, [Next]_vars, LeaderRequested(i, n)
        PROVE  /\ LeaderRequested(i, n)' \/ Nearer(i, n)'
               /\ Asleep => Asleep' \/ Judging' \/ Posting'
               /\ Judging /\ ~FlushAborted => Judging' \/ Posting'
    <3>1. PICK h \in Nat : Leads(h, i, n) /\ Requested(h)
      BY <2>3 DEF LeaderRequested
    <3> QED
      BY <2>3, <3>1, LeaderStays, RequestedStays DEF LeaderRequested
  <2>4. ASSUME IInv, [Next]_vars, [~FlushAborted]_vars, LeaderRequested(i, n), Judging
        PROVE  Judging' \/ Posting'
    BY <2>0, <2>3, <2>4
  <2>5. ASSUME IInv, StableKnown, [Next]_vars, LeaderRequested(i, n), <<PostAnswered>>_vars
        PROVE  LeaderMarked(i, n)' \/ Nearer(i, n)'
    <3>1. PICK h \in Nat : Leads(h, i, n) /\ Requested(h)
      BY <2>5 DEF LeaderRequested
    <3>2. Marked(h)' \/ Gone(h)'
      BY <2>5, <3>1, ReplyMarks
    <3> QED
      BY <2>5, <3>1, <3>2, LeaderStays DEF LeaderMarked
  <2>6. ASSUME IInv, [Next]_vars, [~FlushAborted]_vars, LeaderMarked(i, n)
        PROVE  LeaderMarked(i, n)' \/ Nearer(i, n)'
    <3>1. PICK h \in Nat : Leads(h, i, n) /\ Marked(h)
      BY <2>6 DEF LeaderMarked
    <3>2. CASE UNCHANGED vars
      BY <2>0, <3>1, <3>2 DEF LeaderMarked
    <3>3. CASE ~FlushAborted
      <4>1. Marked(h)' \/ Gone(h)'
        BY <2>6, <3>1, <3>3, MarkedStays
      <4> QED
        BY <2>6, <3>1, <4>1, LeaderStays DEF LeaderMarked
    <3> QED
      BY <2>6, <3>2, <3>3
  <2>7. /\ LeaderMarked(i, n) => ~Asleep
        /\ Judging => ~Asleep
        /\ LeaderRequested(i, n) => HasAhead(i, n) /\ SomePending
    BY DEF LeaderMarked, LeaderRequested, Marked, Asleep, Judging, Requested, Waits,
       SomePending, Leads
  <2> QED
    BY <2>1, <2>2, <2>3, <2>4, <2>5, <2>6, <2>7, StableStaysKnown, InvariantHolds, PTL
       DEF Spec, FlushGoesOn
<1> QED
  BY <1>1
-----------------------------------------------------------------------------
(* The flush ends. What is left of it: the stages to come, and in a stage  *)
(* the rows that its marking loop has still to visit.                      *)

Stage == CASE pc = "sleep" -> 0 [] pc = "mark" -> 1 [] pc = "post" -> 2 [] OTHER -> 3

LessToFlush ==
    \/ Stage' < Stage
    \/ Stage' = Stage /\ Cardinality(todo') < Cardinality(todo)

LEMMA TodoFinite ==
    ASSUME IInv
    PROVE  IsFiniteSet(todo) /\ Cardinality(todo) \in Nat
<1>1. IsFiniteSet(RowIds)
  BY FS_Interval, LenProperties DEF IInv, TypeOK, RowIds
<1> QED
  BY <1>1, FS_Subset, FS_CardinalityType DEF IInv, TypeOK

LEMMA OneRowLess ==
    ASSUME IInv, NEW i \in todo
    PROVE  Cardinality(todo \ {i}) < Cardinality(todo)
<1>1. Cardinality(todo \ {i}) = Cardinality(todo) - 1
  BY TodoFinite, FS_RemoveElement
<1> QED
  BY <1>1, TodoFinite

\* The two marking loops, a row at a time.
LEMMA MarkLowers ==
    ASSUME IInv, MarkStep
    PROVE  LessToFlush
<1>1. ASSUME NEW i \in RowIds, MarkInvalid(i) PROVE LessToFlush
  <2>1. i \in todo /\ pc = "invalid"
    BY <1>1 DEF MarkInvalid, IsFirst
  <2>2. CASE todo # {i}
    BY <1>1, <2>1, <2>2, OneRowLess DEF MarkInvalid, LessToFlush, Stage
  <2>3. CASE todo = {i}
    BY <1>1, <2>1, <2>3 DEF MarkInvalid, FlushDone, LessToFlush, Stage
  <2> QED
    BY <2>2, <2>3
<1>2. ASSUME NEW i \in RowIds, MarkFailed(i) \/ MarkSent(i) PROVE LessToFlush
  <2>1. i \in todo /\ pc = "mark" /\ MarkAdvance(i)
    BY <1>2 DEF MarkFailed, MarkSent, IsFirst
  <2>2. CASE todo # {i}
    BY <2>1, <2>2, OneRowLess DEF MarkAdvance, LessToFlush, Stage
  <2>3. CASE todo = {i}
    BY <2>1, <2>3 DEF MarkAdvance, FlushDone, LessToFlush, Stage
  <2> QED
    BY <2>2, <2>3
<1> QED
  BY <1>1, <1>2 DEF MarkStep

LEMMA FlushStepLowers ==
    ASSUME IInv, [Next]_vars, pc # "sleep", ~UNCHANGED <<pc, items, todo>>
    PROVE  LessToFlush
<1>1. CASE MarkStep
  BY <1>1, MarkLowers
<1>2. CASE PostAnswered \/ PostGarbled
  BY <1>2 DEF PostAnswered, PostGarbled, FlushDone, LessToFlush, Stage
<1>3. ASSUME NEW last \in 0..Len(readings), PostFailed(last) PROVE LessToFlush
  BY <1>3 DEF PostFailed, LessToFlush, Stage
<1>4. CASE FlushAborted
  BY <1>4 DEF FlushAborted, FlushDone, LessToFlush, Stage, IInv, TypeOK
<1> QED
  BY <1>1, <1>2, <1>3, <1>4 DEF Next, MarkStep, EnqueueTelemetry, DamagePayload,
     DeleteSentMessages, CloudRegistry, GetPendingMessages, flushVars, vars

\* No step of a flush is in vain: whatever the cloud answers, and whichever rows it
\* refuses, each one brings flush_pending_batch nearer to its end, by a pair of
\* naturals; no row is visited twice and no request repeated within a flush.
FlushIsBounded ==
    [][pc # "sleep" /\ <<pc, items, todo>>' # <<pc, items, todo>> => LessToFlush]_vars

THEOREM FlushBounded ==
    Spec => FlushIsBounded /\ [](Stage \in Nat /\ Cardinality(todo) \in Nat)
<1>1. IInv /\ [Next]_vars =>
        [pc # "sleep" /\ <<pc, items, todo>>' # <<pc, items, todo>> => LessToFlush]_vars
  BY FlushStepLowers
<1>2. IInv => Stage \in Nat /\ Cardinality(todo) \in Nat
  BY TodoFinite DEF Stage
<1> QED
  BY <1>1, <1>2, InvariantHolds, PTL DEF Spec, FlushIsBounded

\* The steps fairness speaks of can be taken where the flush thread is.
StepsCanBeTaken ==
    /\ Asleep /\ SomePending => ENABLED <<GetPendingMessages>>_vars
    /\ Posting => ENABLED <<PostAnswered>>_vars
    /\ pc \in {"invalid", "mark"} => ENABLED <<MarkStep>>_vars

InFlush(s, n) == ~Asleep /\ Stage = s /\ Cardinality(todo) = n
FlushedMore(s, n) ==
    ~Asleep /\ (Stage < s \/ (Stage = s /\ Cardinality(todo) < n))

\* While the flush thread sleeps no row leaves the queue.
LEMMA PendingAsleep ==
    ASSUME IInv, [Next]_vars, Asleep, SomePending
    PROVE  SomePending'
<1>1. ~MarkStep
  BY DEF MarkStep, MarkInvalid, MarkFailed, MarkSent, Asleep
<1>2. pending \subseteq pending'
  BY <1>1 DEF Next, MarkStep, EnqueueTelemetry, DamagePayload, DeleteSentMessages,
     CloudRegistry, GetPendingMessages, PostAnswered, PostFailed, PostGarbled,
     FlushAborted, tableVars, vars
<1> QED
  BY <1>2 DEF SomePending

\* A flush ends or has less left.
LEMMA FlushGetsOn ==
    ASSUME NEW s \in Nat, NEW n \in Nat
    PROVE  FairSpec /\ []StepsCanBeTaken
               => (InFlush(s, n) ~> Asleep \/ FlushedMore(s, n))
<1>1. ASSUME IInv, InFlush(s, n), LessToFlush, ~Asleep'
      PROVE  FlushedMore(s, n)'
  BY <1>1 DEF LessToFlush, InFlush, FlushedMore
<1>2. IInv /\ [Next]_vars /\ InFlush(s, n)
        => InFlush(s, n)' \/ Asleep' \/ FlushedMore(s, n)'
  <2> SUFFICES ASSUME IInv, [Next]_vars, InFlush(s, n), ~Asleep'
               PROVE  InFlush(s, n)' \/ FlushedMore(s, n)'
    OBVIOUS
  <2>1. CASE UNCHANGED <<pc, items, todo>>
    <3>1. UNCHANGED Stage /\ Cardinality(todo)' = Cardinality(todo)
      BY <2>1 DEF Stage
    <3> QED
      BY <3>1 DEF InFlush
  <2>2. CASE ~UNCHANGED <<pc, items, todo>>
    BY <1>1, <2>2, FlushStepLowers DEF InFlush, Asleep
  <2> QED
    BY <2>1, <2>2
<1>3. IInv /\ InFlush(s, n) /\ (<<MarkStep>>_vars \/ <<PostAnswered>>_vars)
        => Asleep' \/ FlushedMore(s, n)'
  <2>1. PostAnswered => LessToFlush
    BY DEF PostAnswered, LessToFlush, Stage
  <2> QED
    BY <1>1, <2>1, MarkLowers
<1>4. IInv /\ InFlush(s, n) => Posting \/ pc \in {"invalid", "mark"}
  BY DEF IInv, TypeOK, InFlush, Asleep, Posting
<1> QED
  BY <1>2, <1>3, <1>4, InvariantHolds, PTL
     DEF FairSpec, Fairness, Spec, StepsCanBeTaken

\* What HeadOfQueueUploaded and UploadAdvances ask of the flush thread. A pending row
\* takes it out of its sleep, requests tried again and again are answered again and
\* again, and a flush ends or has less left, whatever becomes of its request.
THEOREM FlushAdvances ==
    FairSpec /\ []StepsCanBeTaken =>
        /\ Asleep /\ SomePending ~> ~Asleep
        /\ []<>Posting => []<><<PostAnswered>>_vars
        /\ \A s, n \in Nat : InFlush(s, n) ~> Asleep \/ FlushedMore(s, n)
<1>1. FairSpec /\ []StepsCanBeTaken => (Asleep /\ SomePending ~> ~Asleep)
  <2>1. IInv /\ [Next]_vars /\ Asleep /\ SomePending => SomePending'
    BY PendingAsleep
  <2>2. <<GetPendingMessages>>_vars => ~Asleep'
    BY DEF GetPendingMessages, Asleep
  <2> QED
    BY <2>1, <2>2, InvariantHolds, PTL DEF FairSpec, Fairness, Spec, StepsCanBeTaken
<1>2. FairSpec /\ []StepsCanBeTaken => ([]<>Posting => []<><<PostAnswered>>_vars)
  BY PTL DEF FairSpec, Fairness, StepsCanBeTaken
<1>3. FairSpec /\ []StepsCanBeTaken =>
        \A s, n \in Nat : InFlush(s, n) ~> Asleep \/ FlushedMore(s, n)
  BY FlushGetsOn
<1> QED
  BY <1>1, <1>2, <1>3

\* The rule by which the steps of FlushAdvances make a flush that ends, and those of
\* UploadAdvances an upload: the induction on pairs of naturals, and on the naturals.
\* Every behaviour has it, and the provers cannot show it.
FlushDescent ==
    (\A s, n \in Nat :
        InFlush(s, n) ~>
            Asleep \/ \E r, m \in Nat : (r < s \/ (r = s /\ m < n)) /\ InFlush(r, m))
    => ((\E s, n \in Nat : InFlush(s, n)) ~> Asleep)

UploadDescent(i) ==
    (\A n \in Nat : HasAhead(i, n) ~> Gone(i) \/ \E m \in 0..(n - 1) : HasAhead(i, m))
    => ((\E n \in Nat : HasAhead(i, n)) ~> Gone(i))

LEMMA FlushesGoOn ==
    FairSpec /\ []StepsCanBeTaken /\ FlushDescent => FlushGoesOn
<1>1. ASSUME NEW s \in Nat, NEW n \in Nat
      PROVE  FairSpec /\ []StepsCanBeTaken =>
                (InFlush(s, n) ~>
                    Asleep \/ \E r, m \in Nat :
                                  (r < s \/ (r = s /\ m < n)) /\ InFlush(r, m))
  <2>1. FairSpec /\ []StepsCanBeTaken
            => (InFlush(s, n) ~> Asleep \/ FlushedMore(s, n))
    BY FlushGetsOn
  <2>2. IInv /\ FlushedMore(s, n)
            => \E r, m \in Nat : (r < s \/ (r = s /\ m < n)) /\ InFlush(r, m)
    BY TodoFinite DEF Stage, FlushedMore, InFlush
  <2> QED
    BY <2>1, <2>2, InvariantHolds, PTL DEF FairSpec, Spec
<1>2. FairSpec /\ []StepsCanBeTaken =>
        \A s, n \in Nat :
            InFlush(s, n) ~>
                Asleep \/ \E r, m \in Nat : (r < s \/ (r = s /\ m < n)) /\ InFlush(r, m)
  BY <1>1
<1>3. IInv => Asleep \/ \E s, n \in Nat : InFlush(s, n)
  BY TodoFinite DEF Stage, InFlush
<1>4. FairSpec /\ []StepsCanBeTaken =>
        /\ Asleep /\ SomePending ~> ~Asleep
        /\ []<>Posting => []<><<PostAnswered>>_vars
  BY FlushAdvances
<1> QED
  BY <1>2, <1>3, <1>4, InvariantHolds, PTL DEF FairSpec, Spec, FlushDescent, FlushGoesOn

\* As long as the rows that cannot be uploaded never fill a batch, every other reading
\* is uploaded, however often requests fail, once transactions and the process have
\* stopped failing: for any queue, any batch and any place of the rows in it.
THEOREM RowsUploaded ==
    /\ FairSpec /\ []StepsCanBeTaken
    /\ FlushDescent /\ \A i \in 1..MaxReadings : UploadDescent(i)
    /\ <>[][~FlushAborted]_vars
    => UploadedWithRoomInBatch
<1> DEFINE Goes == Spec /\ FlushGoesOn /\ <>[][~FlushAborted]_vars /\ []Room
           Owed(i) == i \in pending \ damaged /\ readings[i] \in Stable
           Uploaded(i) == Owed(i) ~> (i \notin pending \/ i \in damaged)
<1>1. ASSUME NEW i \in 1..MaxReadings
      PROVE  Goes /\ UploadDescent(i) => Uploaded(i)
  <2>1. ASSUME NEW n \in Nat
        PROVE  Goes =>
                  (HasAhead(i, n) ~> Gone(i) \/ \E m \in 0..(n - 1) : HasAhead(i, m))
    <3>1. Goes => (HasAhead(i, n) ~> Nearer(i, n))
      BY UploadAdvances
    <3>2. IInv => Cardinality(Ahead(i)) \in Nat
      <4>1. IInv => IsFiniteSet(pending)
        BY RowsAreFinite, LenProperties DEF IInv, TypeOK, RowIds
      <4>2. Ahead(i) \in SUBSET pending
        BY DEF Ahead, Uploadable
      <4> QED
        BY <4>1, <4>2, FS_Subset, FS_CardinalityType
    <3>3. IInv /\ Nearer(i, n) => Gone(i) \/ \E m \in 0..(n - 1) : HasAhead(i, m)
      BY <3>2 DEF Nearer, HasAhead
    <3> QED
      BY <3>1, <3>3, InvariantHolds, PTL
  <2>2. Goes => \A n \in Nat :
            HasAhead(i, n) ~> Gone(i) \/ \E m \in 0..(n - 1) : HasAhead(i, m)
    BY <2>1
  <2>3. IInv /\ Owed(i) => \E n \in Nat : HasAhead(i, n)
    <3>1. IInv => IsFiniteSet(pending)
      BY RowsAreFinite, LenProperties DEF IInv, TypeOK, RowIds
    <3>2. Ahead(i) \in SUBSET pending
      BY DEF Ahead, Uploadable
    <3>3. IInv => Cardinality(Ahead(i)) \in Nat
      BY <3>1, <3>2, FS_Subset, FS_CardinalityType
    <3> QED
      BY <3>3 DEF HasAhead, Uploadable, Blocked
  <2>4. Gone(i) <=> (i \notin pending \/ i \in damaged)
    BY DEF Gone
  <2> QED
    BY <2>2, <2>3, <2>4, InvariantHolds, PTL DEF UploadDescent
<1>2. Goes /\ (\A i \in 1..MaxReadings : UploadDescent(i))
        => \A i \in 1..MaxReadings : Uploaded(i)
  BY <1>1
<1>3. Goes /\ (\A i \in 1..MaxReadings : UploadDescent(i)) => ReadingsUploaded
  BY <1>2 DEF ReadingsUploaded
<1>4. Room <=> Cardinality(Blocked) < BatchSize
  BY DEF Room
<1> QED
  BY <1>3, <1>4, FlushesGoOn, PTL DEF FairSpec, UploadedWithRoomInBatch
=============================================================================
