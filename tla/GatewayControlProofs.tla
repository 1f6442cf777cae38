------------------------- MODULE GatewayControlProofs -------------------------
(***************************************************************************)
(* Proofs about GatewayControl, for any tags and any number of             *)
(* configurations, commands and faults.                                    *)
(***************************************************************************)
EXTENDS GatewayControl, TLAPS, SequenceTheorems, FiniteSetTheorems

Commands == [tag : Tags, type : Types]
Verdicts == {"pending", "success", "failed"}

\* The command at work was pending when it was fetched and has not been
\* answered since; it is in hand once.
InHandPending ==
    /\ \A i \in batch : verdict[i] = "pending"
    /\ thread \in {"write", "ack"} =>
          verdict[active] = "pending" /\ active \notin batch

\* A command that was written is answered, or lost its answer, or is the one
\* whose answer is due.
WrittenAccounted ==
    \A i \in Ids :
        /\ writes[i] > 1 => i \in unsure
        /\ writes[i] > 0 /\ i \notin unsure =>
              verdict[i] # "pending" \/ (thread = "ack" /\ active = i)

SuccessAccounted ==
    /\ SuccessMeansWritten
    /\ outcome = "success" => thread = "ack" /\ writes[active] > 0

Gate == fresh => thread = "write" /\ issued[active].tag \in Writable(current)

\* The cache has the newest configuration, or that one is on record as having
\* missed it; during a refresh the newest one is at hand.
CacheBehind ==
    /\ cache = newest \/ newest \in uncached
    /\ current = newest \/ current = cache
    /\ refresh = "set" => got >= newest
    /\ refresh \in {"cache", "rules"} => got = current /\ current = newest

\* The rules follow the cache, but for the moment between the two stores.
RulesFollow ==
    /\ refresh = "rules" => cache = got
    /\ refresh # "rules" =>
          rules = cache /\ (rules = current \/ current \in uncached)

CommandInv == InHandPending /\ WrittenAccounted /\ SuccessAccounted /\ Gate
ConfigInv == CacheBehind /\ RulesFollow
IInv == TypeOK /\ CommandInv /\ ConfigInv
-----------------------------------------------------------------------------
LEMMA VersionsAre ==
    ASSUME published \in Seq(Configurations)
    PROVE  Len(published) \in Nat
BY LenProperties

LEMMA InitIInv == Init => IInv
<1> SUFFICES ASSUME Init PROVE IInv
  OBVIOUS
<1>1. PICK c \in Configurations : published = <<c>>
  BY DEF Init
<1>2. published \in Seq(Configurations) /\ Len(published) = 1
  BY <1>1
<1>3. issued = <<>> /\ verdict = <<>> /\ writes = <<>>
  BY DEF Init
<1>4. /\ issued \in Seq(Commands) /\ verdict \in Seq(Verdicts)
      /\ writes \in Seq(Nat)
  BY <1>3, EmptySeq
<1>5. Ids = {}
  BY <1>3 DEF Ids
<1>6. TypeOK
  <2>1. faults \in [{"cache", "ack", "crash"} -> Nat]
    BY DEF Init
  <2>2. 0 \in Versions
    BY <1>2 DEF Versions
  <2> QED
    BY <1>2, <1>3, <1>4, <1>5, <2>1, <2>2 DEF Init, TypeOK, Commands, Verdicts
<1>7. CommandInv
  BY <1>5 DEF Init, CommandInv, InHandPending, WrittenAccounted,
     SuccessAccounted, SuccessMeansWritten, Gate
<1>8. ConfigInv
  BY DEF Init, ConfigInv, CacheBehind, RulesFollow
<1> QED
  BY <1>6, <1>7, <1>8 DEF IInv

(* What the cloud has published stays in its place.                        *)
LEMMA PublishedStays ==
    ASSUME TypeOK, NEW c \in Configurations, Publish(c)
    PROVE  /\ published' \in Seq(Configurations)
           /\ Len(published') = Len(published) + 1
           /\ \A v \in Versions : Writable(v)' = Writable(v)
<1>1. published \in Seq(Configurations) /\ published' = Append(published, c)
  BY DEF TypeOK, Publish
<1> QED
  BY <1>1, AppendProperties, LenProperties DEF Versions, Writable, Lookup

LEMMA PublishIInv ==
    ASSUME IInv, NEW c \in Configurations, Publish(c)
    PROVE  IInv'
<1> USE DEF IInv
<1>1. /\ UNCHANGED <<issued, verdict, configVars, commandVars, fresh, faults>>
      /\ Versions \subseteq Versions'
      /\ Ids' = Ids
  BY PublishedStays, VersionsAre DEF Publish, Versions, Ids, TypeOK
<1> USE DEF configVars, commandVars
<1>2. TypeOK'
  BY <1>1, PublishedStays DEF TypeOK
<1>3. CommandInv'
  <2>1. Gate'
    BY <1>1, PublishedStays DEF CommandInv, Gate, TypeOK
  <2> QED
    BY <1>1, <2>1 DEF CommandInv, InHandPending, WrittenAccounted,
       SuccessAccounted, SuccessMeansWritten
<1>4. ConfigInv'
  BY <1>1 DEF ConfigInv, CacheBehind, RulesFollow
<1> QED
  BY <1>2, <1>3, <1>4

LEMMA IssueIInv ==
    ASSUME IInv, NEW tag \in Tags, NEW type \in Kinds, Issue(tag, type)
    PROVE  IInv'
<1> USE DEF IInv
<1> DEFINE n == Len(issued) + 1
           c == [tag |-> tag, type |-> type]
<1>1. /\ issued' = Append(issued, c) /\ verdict' = Append(verdict, "pending")
      /\ writes' = Append(writes, 0)
      /\ UNCHANGED <<published, configVars, thread, batch, active, outcome,
                     unsure, fresh, faults>>
  BY DEF Issue
<1>2. /\ issued \in Seq(Commands) /\ verdict \in Seq(Verdicts)
      /\ writes \in Seq(Nat)
      /\ Len(verdict) = Len(issued) /\ Len(writes) = Len(issued)
      /\ c \in Commands /\ "pending" \in Verdicts /\ 0 \in Nat
      /\ Len(issued) \in Nat
  BY ControlAssumption, LenProperties DEF TypeOK, Commands, Verdicts
<1>3. /\ issued' \in Seq(Commands) /\ verdict' \in Seq(Verdicts)
      /\ writes' \in Seq(Nat)
      /\ Len(issued') = n /\ Len(verdict') = n /\ Len(writes') = n
      /\ verdict'[n] = "pending" /\ writes'[n] = 0
      /\ \A i \in Ids : /\ issued'[i] = issued[i] /\ writes'[i] = writes[i]
                        /\ verdict'[i] = verdict[i]
  BY <1>1, <1>2, AppendProperties DEF Ids
<1>4. Ids' = Ids \cup {n} /\ n \notin Ids /\ n # 0
  BY <1>2, <1>3 DEF Ids
<1> USE DEF configVars
<1>5. TypeOK'
  BY <1>1, <1>3, <1>4 DEF TypeOK, Versions, Commands, Verdicts
<1>6. InHandPending'
  BY <1>1, <1>3 DEF CommandInv, InHandPending, TypeOK
<1>7. WrittenAccounted'
  <2>1. SUFFICES ASSUME NEW i \in Ids'
                 PROVE  /\ writes'[i] > 1 => i \in unsure
                        /\ writes'[i] > 0 /\ i \notin unsure =>
                              verdict'[i] # "pending" \/ (thread = "ack" /\ active = i)
    BY <1>1 DEF WrittenAccounted
  <2>2. CASE i = n
    BY <1>3, <2>2
  <2>3. CASE i \in Ids
    BY <1>3, <2>3 DEF CommandInv, WrittenAccounted
  <2> QED
    BY <1>4, <2>1, <2>2, <2>3
<1>8. SuccessAccounted' /\ Gate'
  BY <1>1, <1>3, <1>4 DEF CommandInv, SuccessAccounted, SuccessMeansWritten, Gate,
     InHandPending, TypeOK, Writable, Lookup
<1>9. ConfigInv'
  BY <1>1 DEF ConfigInv, CacheBehind, RulesFollow
<1> QED
  BY <1>5, <1>6, <1>7, <1>8, <1>9 DEF CommandInv
-----------------------------------------------------------------------------
(* The configuration thread.                                               *)

LEMMA ConfigStepIInv == ASSUME IInv, ConfigStep PROVE IInv'
<1> USE DEF IInv
<1>1. /\ UNCHANGED <<cloudVars, commandVars>>
      /\ Versions' = Versions /\ Ids' = Ids /\ Len(published) \in Nat
  BY VersionsAre DEF ConfigStep, DownloadConfiguration, SetCurrentConfiguration,
     WriteConfigCache, CacheWriteFails, SetCurrentAlarmRules, Versions, Ids,
     cloudVars, TypeOK
<1> USE DEF cloudVars, commandVars, configVars
<1>2. TypeOK'
  <2>1. /\ current' \in Versions /\ cache' \in Versions /\ rules' \in Versions
        /\ got' \in Versions /\ newest' \in Versions /\ uncached' \subseteq Versions
        /\ refresh' \in {"idle", "set", "cache", "rules"} /\ fresh' \in BOOLEAN
    <3> USE <1>1 DEF TypeOK
    <3>1. CASE DownloadConfiguration
      BY <3>1 DEF DownloadConfiguration, Versions
    <3>2. CASE SetCurrentConfiguration
      BY <3>2 DEF SetCurrentConfiguration
    <3>3. CASE WriteConfigCache
      BY <3>3 DEF WriteConfigCache
    <3>4. CASE CacheWriteFails
      BY <3>4 DEF CacheWriteFails, Versions
    <3>5. CASE SetCurrentAlarmRules
      BY <3>5 DEF SetCurrentAlarmRules, Versions
    <3> QED
      BY <3>1, <3>2, <3>3, <3>4, <3>5 DEF ConfigStep
  <2>2. faults' \in [{"cache", "ack", "crash"} -> Nat]
    BY DEF ConfigStep, DownloadConfiguration, SetCurrentConfiguration,
       WriteConfigCache, CacheWriteFails, SetCurrentAlarmRules, Fault, TypeOK
  <2> QED
    BY <1>1, <2>1, <2>2 DEF TypeOK
<1>3. CommandInv'
  <2>1. fresh' => fresh /\ current' = current
    BY DEF ConfigStep, DownloadConfiguration, SetCurrentConfiguration,
       WriteConfigCache, CacheWriteFails, SetCurrentAlarmRules
  <2>2. Gate'
    BY <1>1, <2>1 DEF CommandInv, Gate, Writable, Lookup
  <2> QED
    BY <1>1, <2>2 DEF CommandInv, InHandPending, WrittenAccounted,
       SuccessAccounted, SuccessMeansWritten
<1>4. ConfigInv'
  <2> USE DEF ConfigInv, CacheBehind, RulesFollow
  <2>1. CASE DownloadConfiguration
    BY <1>1, <2>1 DEF DownloadConfiguration, Versions, TypeOK
  <2>2. CASE SetCurrentConfiguration
    BY <1>1, <2>2 DEF SetCurrentConfiguration, Versions, TypeOK
  <2>3. CASE WriteConfigCache
    BY <2>3 DEF WriteConfigCache
  <2>4. CASE CacheWriteFails
    BY <2>4 DEF CacheWriteFails
  <2>5. CASE SetCurrentAlarmRules
    BY <2>5 DEF SetCurrentAlarmRules
  <2> QED
    BY <2>1, <2>2, <2>3, <2>4, <2>5 DEF ConfigStep
<1> QED
  BY <1>2, <1>3, <1>4
-----------------------------------------------------------------------------
(* The command thread.                                                     *)

\* It leaves the configurations alone.
LEMMA CommandKeepsConfig ==
    ASSUME IInv, CommandStep
    PROVE  /\ UNCHANGED <<configVars, published, issued>>
           /\ Versions' = Versions /\ Ids' = Ids /\ ConfigInv'
<1>1. UNCHANGED <<configVars, published, issued>>
  BY DEF CommandStep, FetchPendingCommands, TakeUp, GiveUpBatch, WriteSucceeds,
     WriteFails, AckArrives, AckLost, cloudVars
<1> QED
  BY <1>1 DEF configVars, Versions, Ids, IInv, ConfigInv, CacheBehind, RulesFollow

\* How a write changes the count, taken by the device or not.
LEMMA WritesChange ==
    ASSUME TypeOK, active \in Ids, Took
    PROVE  /\ writes' \in Seq(Nat) /\ Len(writes') = Len(writes)
           /\ writes'[active] = writes[active] + 1 /\ writes[active] \in Nat
           /\ \A i \in Ids : i # active => writes'[i] = writes[i]
<1>1. writes \in Seq(Nat) /\ active \in 1..Len(writes)
  BY DEF TypeOK, Ids
<1>2. writes[active] \in Nat
  BY <1>1, ElementOfSeq
<1> QED
  BY <1>1, <1>2, ExceptSeq DEF Took, TypeOK, Ids

LEMMA FetchIInv == ASSUME IInv, FetchPendingCommands PROVE IInv'
<1> USE DEF IInv
<1>1. ConfigInv'
  BY CommandKeepsConfig DEF CommandStep
<1> USE DEF FetchPendingCommands, cloudVars, configVars
<1>2. TypeOK'
  BY DEF TypeOK, Versions, Ids
<1>3. CommandInv'
  BY DEF CommandInv, InHandPending, WrittenAccounted, SuccessAccounted,
     SuccessMeansWritten, Gate, Ids, Writable, Lookup
<1> QED
  BY <1>1, <1>2, <1>3

LEMMA TakeUpIInv == ASSUME IInv, NEW i \in Ids, TakeUp(i) PROVE IInv'
<1> USE DEF IInv
<1>1. ConfigInv' /\ Ids' = Ids /\ Versions' = Versions
  BY CommandKeepsConfig DEF CommandStep
<1> USE DEF TakeUp, cloudVars, configVars
<1>2. TypeOK'
  BY <1>1 DEF TypeOK, Passes
<1>3. InHandPending'
  BY DEF CommandInv, InHandPending
<1>4. WrittenAccounted' /\ SuccessAccounted'
  BY <1>1 DEF CommandInv, WrittenAccounted, SuccessAccounted, SuccessMeansWritten
<1>5. Gate'
  BY DEF Gate, Passes, Writable, Lookup
<1> QED
  BY <1>1, <1>2, <1>3, <1>4, <1>5 DEF CommandInv

LEMMA GiveUpBatchIInv == ASSUME IInv, NEW i \in Ids, GiveUpBatch(i) PROVE IInv'
<1> USE DEF IInv
<1>1. ConfigInv' /\ Ids' = Ids /\ Versions' = Versions
  BY CommandKeepsConfig DEF CommandStep
<1> USE DEF GiveUpBatch, cloudVars, configVars
<1>2. TypeOK'
  BY <1>1 DEF TypeOK
<1>3. InHandPending' /\ Gate'
  BY DEF CommandInv, InHandPending, Gate
<1>4. WrittenAccounted' /\ SuccessAccounted'
  BY <1>1 DEF CommandInv, WrittenAccounted, SuccessAccounted, SuccessMeansWritten
<1> QED
  BY <1>1, <1>2, <1>3, <1>4 DEF CommandInv

LEMMA WriteIInv == ASSUME IInv, WriteSucceeds \/ WriteFails PROVE IInv'
<1> USE DEF IInv
<1>1. ConfigInv' /\ Ids' = Ids /\ Versions' = Versions
  BY CommandKeepsConfig DEF CommandStep
<1>2. thread = "write" /\ active \in Ids /\ verdict[active] = "pending"
  BY DEF WriteSucceeds, WriteFails, TypeOK, CommandInv, InHandPending
<1>3. /\ UNCHANGED <<cloudVars, configVars, batch, active, unsure, faults>>
      /\ thread' = "ack" /\ fresh' = FALSE
      /\ outcome' \in {"success", "failed"} /\ (outcome' = "success" => Took)
      /\ Took \/ UNCHANGED writes
  <2>1. CASE WriteSucceeds
    BY <2>1 DEF WriteSucceeds
  <2>2. CASE WriteFails
    BY <1>2, <2>2 DEF WriteFails, CommandInv, SuccessAccounted, TypeOK
  <2> QED
    BY <2>1, <2>2
<1>4. /\ writes' \in Seq(Nat) /\ Len(writes') = Len(writes)
      /\ writes[active] \in Nat
      /\ writes'[active] \in {writes[active], writes[active] + 1}
      /\ Took => writes'[active] = writes[active] + 1
      /\ \A i \in Ids : i # active => writes'[i] = writes[i]
  BY <1>2, <1>3, WritesChange, ElementOfSeq DEF TypeOK, Ids
<1> USE DEF cloudVars, configVars
<1>5. TypeOK'
  BY <1>1, <1>2, <1>3, <1>4 DEF TypeOK
<1>6. InHandPending'
  BY <1>2, <1>3 DEF CommandInv, InHandPending
<1>7. WrittenAccounted'
  BY <1>1, <1>2, <1>3, <1>4 DEF CommandInv, WrittenAccounted
<1>8. SuccessAccounted'
  BY <1>1, <1>2, <1>3, <1>4 DEF CommandInv, SuccessAccounted, SuccessMeansWritten
<1>9. Gate'
  BY <1>3 DEF Gate
<1> QED
  BY <1>1, <1>5, <1>6, <1>7, <1>8, <1>9 DEF CommandInv

LEMMA AckArrivesIInv == ASSUME IInv, AckArrives PROVE IInv'
<1> USE DEF IInv
<1>1. ConfigInv' /\ Ids' = Ids /\ Versions' = Versions
  BY CommandKeepsConfig DEF CommandStep
<1> USE DEF AckArrives, CommandEnds, configVars
<1>2. active \in Ids /\ outcome \in {"success", "failed"} /\ active \notin batch
  BY DEF TypeOK, CommandInv, InHandPending
<1>3. /\ verdict' \in Seq(Verdicts) /\ Len(verdict') = Len(verdict)
      /\ verdict'[active] = outcome
      /\ \A i \in Ids : i # active => verdict'[i] = verdict[i]
  BY <1>2, ExceptSeq DEF TypeOK, Ids, Verdicts
<1>4. TypeOK'
  BY <1>1, <1>3 DEF TypeOK, Verdicts
<1>5. InHandPending'
  BY <1>2, <1>3 DEF CommandInv, InHandPending, TypeOK
<1>6. WrittenAccounted'
  BY <1>1, <1>2, <1>3 DEF CommandInv, WrittenAccounted
<1>7. SuccessAccounted' /\ Gate'
  BY <1>1, <1>2, <1>3 DEF CommandInv, SuccessAccounted, SuccessMeansWritten, Gate
<1> QED
  BY <1>1, <1>4, <1>5, <1>6, <1>7 DEF CommandInv

LEMMA AckLostIInv == ASSUME IInv, AckLost PROVE IInv'
<1> USE DEF IInv
<1>1. ConfigInv' /\ Ids' = Ids /\ Versions' = Versions
  BY CommandKeepsConfig DEF CommandStep
<1> USE DEF AckLost, CommandEnds, configVars, cloudVars
<1>2. active \in Ids
  BY DEF TypeOK
<1>3. faults' \in [{"cache", "ack", "crash"} -> Nat]
  BY DEF Fault, TypeOK
<1>4. TypeOK'
  BY <1>1, <1>2, <1>3 DEF TypeOK
<1>5. InHandPending' /\ SuccessAccounted' /\ Gate'
  BY <1>1 DEF CommandInv, InHandPending, SuccessAccounted, SuccessMeansWritten, Gate
<1>6. WrittenAccounted'
  BY <1>1 DEF CommandInv, WrittenAccounted
<1> QED
  BY <1>1, <1>4, <1>5, <1>6 DEF CommandInv
-----------------------------------------------------------------------------
LEMMA RestartIInv == ASSUME IInv, Restart PROVE IInv'
<1> USE DEF IInv, Restart, cloudVars
<1>1. Ids' = Ids /\ Versions' = Versions
  BY DEF Ids, Versions
<1>2. faults' \in [{"cache", "ack", "crash"} -> Nat]
  BY DEF Fault, TypeOK
<1>3. TypeOK'
  <2>1. 0 \in Versions
    BY VersionsAre DEF TypeOK, Versions
  <2> QED
    BY <1>1, <1>2, <2>1 DEF TypeOK
<1>4. InHandPending' /\ SuccessAccounted' /\ Gate'
  BY <1>1 DEF CommandInv, InHandPending, SuccessAccounted, SuccessMeansWritten, Gate
<1>5. WrittenAccounted'
  BY <1>1 DEF CommandInv, WrittenAccounted
<1>6. ConfigInv'
  BY DEF ConfigInv, CacheBehind, RulesFollow
<1> QED
  BY <1>3, <1>4, <1>5, <1>6 DEF CommandInv

LEMMA NextIInv == IInv /\ [Next]_vars => IInv'
<1> SUFFICES ASSUME IInv, [Next]_vars PROVE IInv'
  OBVIOUS
<1>1. CASE UNCHANGED vars
  BY <1>1 DEF vars, IInv, TypeOK, Versions, Ids, Writable, Lookup, CommandInv,
     InHandPending, WrittenAccounted, SuccessAccounted, SuccessMeansWritten,
     Gate, ConfigInv, CacheBehind, RulesFollow
<1>2. ASSUME NEW c \in Configurations, Publish(c) PROVE IInv'
  BY <1>2, PublishIInv
<1>3. ASSUME NEW tag \in Tags, NEW type \in Kinds, Issue(tag, type) PROVE IInv'
  BY <1>3, IssueIInv
<1>4. CASE ConfigStep
  BY <1>4, ConfigStepIInv
<1>5. CASE CommandStep
  BY <1>5, FetchIInv, TakeUpIInv, GiveUpBatchIInv, WriteIInv, AckArrivesIInv,
     AckLostIInv DEF CommandStep
<1>6. CASE Restart
  BY <1>6, RestartIInv
<1> QED
  BY <1>1, <1>2, <1>3, <1>4, <1>5, <1>6 DEF Next

\* The inductive invariant holds in every reachable state of both threads,
\* the cloud and the restarts of the process.
THEOREM InvariantHolds == Spec => []IInv
BY InitIInv, NextIInv, PTL DEF Spec
-----------------------------------------------------------------------------
\* The types of the state of the control plane.
THEOREM TypeCorrect == Spec => []TypeOK
<1>1. IInv => TypeOK
  BY DEF IInv
<1> QED
  BY InvariantHolds, <1>1, PTL

\* However fetches, failures, lost acknowledgements and restarts interleave,
\* execute_command writes a command twice only after an execution whose
\* acknowledgement did not reach the cloud.
THEOREM NoSilentRewrite == Spec => []RewrittenOnlyUnacknowledged
<1>1. IInv => RewrittenOnlyUnacknowledged
  BY DEF IInv, CommandInv, WrittenAccounted, RewrittenOnlyUnacknowledged
<1> QED
  BY InvariantHolds, <1>1, PTL

\* The cloud never has a success from ack_command for a command that
\* write_command_value did not get to its device.
THEOREM NoFalseSuccess == Spec => []SuccessMeansWritten
<1>1. IInv => SuccessMeansWritten
  BY DEF IInv, CommandInv, SuccessAccounted
<1> QED
  BY InvariantHolds, <1>1, PTL

\* find_writable_tag turns down every command on a tag that was no longer
\* writable when the command was taken up.
THEOREM GateHolds == Spec => []WithdrawnTagNotWritten
<1>1. IInv => WithdrawnTagNotWritten
  BY DEF IInv, CommandInv, Gate, WithdrawnTagNotWritten
<1> QED
  BY InvariantHolds, <1>1, PTL

\* A restart falls back behind a configuration that was in force only if
\* write_config_cache failed, or did not get to run, for that one.
THEOREM NoUnexplainedFallBack == Spec => []FallsBackOnlyUncached
<1>1. IInv => FallsBackOnlyUncached
  BY DEF IInv, ConfigInv, CacheBehind, FallsBackOnlyUncached, TypeOK, Versions
<1> QED
  BY InvariantHolds, <1>1, PTL

\* Between two refreshes, the alarm rules are those of the configuration that
\* is polled, unless that one is missing from the cache.
THEOREM RulesLagExplained == Spec => []RulesLagOnlyUncached
<1>1. IInv => RulesLagOnlyUncached
  BY DEF IInv, ConfigInv, RulesFollow, RulesLagOnlyUncached
<1> QED
  BY InvariantHolds, <1>1, PTL
-----------------------------------------------------------------------------
(* GatewayControl implements CommandLedger: a step of the cloud, of a       *)
(* thread or of the supervisor is one of the ledger, or none.               *)

\* The command in hand of the ledger.
InHand == IF thread = "ack" THEN active ELSE 0

\* An outcome is kept for the command in hand only, which is not answered yet.
LEMMA LedgerFacts ==
    ASSUME IInv
    PROVE  /\ Ledger!vars = <<verdict, writes, InHand, outcome>>
           /\ thread # "ack" => outcome = "failed"
           /\ thread \in {"write", "ack"} =>
                 active \in DOMAIN verdict /\ active # 0 /\ verdict[active] = "pending"
BY LenProperties DEF Ledger!vars, InHand, IInv, TypeOK, Ids, CommandInv,
   InHandPending, SuccessAccounted

LEMMA IssueIsSubmit ==
    ASSUME IInv, NEW tag \in Tags, NEW type \in Kinds, Issue(tag, type)
    PROVE  Ledger!Submit
BY DEF Issue, Ledger!Submit

\* To take up a command is a step of the ledger if it is turned down.
LEMMA TakeUpIsExecute ==
    ASSUME IInv, NEW i \in Ids, TakeUp(i)
    PROVE  Ledger!Execute(i) \/ UNCHANGED Ledger!vars
<1>1. /\ thread = "next" /\ verdict[i] = "pending" /\ outcome = "failed" /\ i # 0
      /\ active' = i /\ UNCHANGED <<verdict, writes, outcome>>
      /\ thread' = "write" \/ thread' = "ack"
  BY LedgerFacts DEF TakeUp, cloudVars, IInv, CommandInv, InHandPending, Ids
<1> QED
  BY <1>1 DEF Ledger!Execute, Ledger!vars

LEMMA WriteIsExecute ==
    ASSUME IInv, WriteSucceeds \/ WriteFails
    PROVE  Ledger!Execute(active)
<1>1. /\ thread = "write" /\ thread' = "ack" /\ active' = active
      /\ verdict[active] = "pending" /\ outcome = "failed" /\ verdict' = verdict
  BY LedgerFacts DEF WriteSucceeds, WriteFails, cloudVars
<1>2. \/ Took /\ outcome' \in {"success", "failed"}
      \/ UNCHANGED writes /\ outcome' = "failed"
  BY <1>1 DEF WriteSucceeds, WriteFails
<1> QED
  BY <1>1, <1>2 DEF Ledger!Execute, Took

LEMMA AckIsAnswer ==
    ASSUME IInv, AckArrives
    PROVE  Ledger!Answer
<1>1. thread = "ack" /\ active # 0 /\ thread' # "ack"
  BY LedgerFacts DEF AckArrives, CommandEnds
<1> QED
  BY <1>1 DEF AckArrives, CommandEnds, Ledger!Answer

LEMMA LossIsForget ==
    ASSUME IInv, AckLost \/ Restart
    PROVE  Ledger!Forget \/ UNCHANGED Ledger!vars
<1>1. thread' # "ack" /\ outcome' = "failed" /\ UNCHANGED <<verdict, writes>>
  BY DEF AckLost, Restart, CommandEnds, cloudVars
<1>2. thread = "ack" => active # 0
  BY LedgerFacts
<1>3. thread # "ack" => outcome = "failed"
  BY LedgerFacts
<1> QED
  BY <1>1, <1>2, <1>3 DEF Ledger!Forget, Ledger!vars

LEMMA StepOfLedger == IInv /\ [Next]_vars => [Ledger!Next]_(Ledger!vars)
<1> SUFFICES ASSUME IInv, [Next]_vars PROVE Ledger!Next \/ UNCHANGED Ledger!vars
  OBVIOUS
<1>1. CASE UNCHANGED vars
  BY <1>1 DEF vars, Ledger!vars
<1>2. ASSUME NEW c \in Configurations, Publish(c) PROVE UNCHANGED Ledger!vars
  BY <1>2 DEF Publish, commandVars, Ledger!vars
<1>3. ASSUME NEW tag \in Tags, NEW type \in Kinds, Issue(tag, type) PROVE Ledger!Next
  BY <1>3, IssueIsSubmit DEF Ledger!Next
<1>4. CASE ConfigStep
  BY <1>4 DEF ConfigStep, DownloadConfiguration, SetCurrentConfiguration,
     WriteConfigCache, CacheWriteFails, SetCurrentAlarmRules, cloudVars, commandVars,
     Ledger!vars
<1>5. CASE FetchPendingCommands
  BY <1>5 DEF FetchPendingCommands, cloudVars, Ledger!vars
<1>6. ASSUME NEW i \in Ids, TakeUp(i) PROVE Ledger!Next \/ UNCHANGED Ledger!vars
  <2>1. i \in DOMAIN verdict
    BY DEF IInv, TypeOK, Ids
  <2> QED
    BY <1>6, <2>1, TakeUpIsExecute DEF Ledger!Next
<1>7. CASE WriteSucceeds \/ WriteFails
  <2>1. active \in DOMAIN verdict
    BY <1>7, LedgerFacts DEF WriteSucceeds, WriteFails
  <2> QED
    BY <1>7, <2>1, WriteIsExecute DEF Ledger!Next
<1>8. CASE AckArrives
  BY <1>8, AckIsAnswer DEF Ledger!Next
<1>9. CASE AckLost \/ Restart
  BY <1>9, LossIsForget DEF Ledger!Next
<1>10. ASSUME NEW i \in Ids, GiveUpBatch(i) PROVE UNCHANGED Ledger!vars
  BY <1>10 DEF GiveUpBatch, cloudVars, Ledger!vars
<1> QED
  BY <1>1, <1>2, <1>3, <1>4, <1>5, <1>6, <1>7, <1>8, <1>9, <1>10 DEF Next, CommandStep

\* The command path implements the ledger: a command is carried out only while it
\* is unanswered, one at a time, and its one answer says how that went.
THEOREM LedgerImplemented == Spec => ImplementsLedger
<1>1. Init => Ledger!Init
  BY DEF Init, Ledger!Init
<1> QED
  BY <1>1, StepOfLedger, InvariantHolds, PTL DEF Spec, ImplementsLedger, Ledger!Spec
-----------------------------------------------------------------------------
(* The configuration gets everywhere. Once nothing is published, fails or  *)
(* dies any more, the round the configuration thread is in comes to its    *)
(* end, the next one downloads what is published last, and from the end of *)
(* that one on nothing changes.                                            *)

\* A step that is no publication, no failure of the cache file and no restart.
CalmStep ==
    \/ \E tag \in Tags, type \in Kinds : Issue(tag, type)
    \/ CommandStep
    \/ DownloadConfiguration \/ SetCurrentConfiguration \/ WriteConfigCache
    \/ SetCurrentAlarmRules

RefreshAt(l) == refresh = l
Latest == Len(published)

\* The round that downloaded the latest configuration.
LatestGot == refresh = "set" /\ got = Latest
LatestSet == refresh = "cache" /\ got = Latest /\ current = Latest
LatestCached == refresh = "rules" /\ got = Latest /\ current = Latest /\ cache = Latest

\* It is in force everywhere, and only it is downloaded again.
Settled ==
    /\ current = Latest /\ cache = Latest
    /\ refresh # "idle" => got = Latest
    /\ refresh # "rules" => rules = Latest

\* What a calm step leaves of a round, and where the thread takes it.
LEMMA CalmKeeps ==
    ASSUME [CalmStep]_vars
    PROVE  \/ UNCHANGED <<published, refresh, got, current, cache, rules>>
           \/ ConfigStep /\ UNCHANGED published
<1>1. CASE UNCHANGED vars
  BY <1>1 DEF vars
<1>2. CASE \E tag \in Tags, type \in Kinds : Issue(tag, type)
  BY <1>2 DEF Issue, configVars
<1>3. CASE CommandStep
  BY <1>3 DEF CommandStep, FetchPendingCommands, TakeUp, GiveUpBatch, WriteSucceeds,
     WriteFails, AckArrives, AckLost, cloudVars, configVars
<1>4. CASE \/ DownloadConfiguration \/ SetCurrentConfiguration \/ WriteConfigCache
           \/ SetCurrentAlarmRules
  BY <1>4 DEF ConfigStep, DownloadConfiguration, SetCurrentConfiguration,
     WriteConfigCache, SetCurrentAlarmRules, cloudVars
<1> QED
  BY <1>1, <1>2, <1>3, <1>4 DEF CalmStep

\* Where a step of the configuration thread leads.
LEMMA RoundSteps ==
    ASSUME IInv, ConfigStep, [CalmStep]_vars
    PROVE  /\ RefreshAt("idle") => LatestGot'
           /\ RefreshAt("set") => RefreshAt("cache")'
           /\ RefreshAt("cache") => RefreshAt("rules")'
           /\ RefreshAt("rules") => RefreshAt("idle")'
           /\ LatestGot => LatestSet'
           /\ LatestSet => LatestCached'
           /\ LatestCached => Settled'
           /\ Settled => Settled'
<1>1. refresh = "cache" => WriteConfigCache
  <2>1. SUFFICES ASSUME refresh = "cache", CacheWriteFails PROVE FALSE
    BY DEF ConfigStep, DownloadConfiguration, SetCurrentConfiguration,
       SetCurrentAlarmRules
  <2>2. refresh' = "idle"
    BY <2>1 DEF CacheWriteFails
  <2>3. ~(\E tag \in Tags, type \in Kinds : Issue(tag, type)) /\ ~CommandStep
    BY <2>1, <2>2 DEF Issue, CommandStep, FetchPendingCommands, TakeUp, GiveUpBatch,
       WriteSucceeds, WriteFails, AckArrives, AckLost, configVars
  <2> QED
    BY <2>1, <2>2, <2>3 DEF CalmStep, DownloadConfiguration, SetCurrentConfiguration,
       WriteConfigCache, SetCurrentAlarmRules, vars
<1> QED
  BY <1>1 DEF ConfigStep, DownloadConfiguration, SetCurrentConfiguration,
     WriteConfigCache, CacheWriteFails, SetCurrentAlarmRules, cloudVars, RefreshAt,
     Latest, LatestGot, LatestSet, LatestCached, Settled

\* A configuration thread that goes round for ever brings the latest configuration
\* everywhere, and keeps it there, once nothing is published, no cache write fails
\* and the process does not die any more.
THEOREM LatestGetsEverywhere ==
    Spec /\ []<><<ConfigStep>>_vars /\ <>[][CalmStep]_vars => ConfigurationSettles
<1>1. IInv => \/ RefreshAt("idle") \/ RefreshAt("set") \/ RefreshAt("cache")
              \/ RefreshAt("rules")
  BY DEF IInv, TypeOK, RefreshAt
<1>2. IInv /\ <<ConfigStep>>_vars /\ [CalmStep]_vars =>
          /\ RefreshAt("idle") => LatestGot'
          /\ RefreshAt("set") => RefreshAt("cache")'
          /\ RefreshAt("cache") => RefreshAt("rules")'
          /\ RefreshAt("rules") => RefreshAt("idle")'
          /\ LatestGot => LatestSet'
          /\ LatestSet => LatestCached'
          /\ LatestCached => Settled'
  BY RoundSteps
<1>3. IInv /\ [CalmStep]_vars =>
          /\ RefreshAt("idle") => RefreshAt("idle")' \/ LatestGot'
          /\ RefreshAt("set") => RefreshAt("set")' \/ RefreshAt("cache")'
          /\ RefreshAt("cache") => RefreshAt("cache")' \/ RefreshAt("rules")'
          /\ RefreshAt("rules") => RefreshAt("rules")' \/ RefreshAt("idle")'
          /\ LatestGot => LatestGot' \/ LatestSet'
          /\ LatestSet => LatestSet' \/ LatestCached'
          /\ LatestCached => LatestCached' \/ Settled'
          /\ Settled => Settled'
  <2>1. CASE UNCHANGED <<published, refresh, got, current, cache, rules>>
    BY <2>1 DEF RefreshAt, Latest, LatestGot, LatestSet, LatestCached, Settled
  <2>2. IInv /\ ConfigStep /\ [CalmStep]_vars =>
            /\ RefreshAt("idle") => LatestGot'
            /\ RefreshAt("set") => RefreshAt("cache")'
            /\ RefreshAt("cache") => RefreshAt("rules")'
            /\ RefreshAt("rules") => RefreshAt("idle")'
            /\ LatestGot => LatestSet'
            /\ LatestSet => LatestCached'
            /\ LatestCached => Settled'
            /\ Settled => Settled'
    BY RoundSteps
  <2> QED
    BY <2>1, <2>2, CalmKeeps
<1>4. Settled => /\ current = Len(published)
                 /\ refresh = "idle" => cache = current /\ rules = current
  BY DEF Settled, Latest
<1> QED
  BY <1>1, <1>2, <1>3, <1>4, InvariantHolds, PTL DEF ConfigurationSettles
-----------------------------------------------------------------------------
(* Every command is answered. A fetch takes all that are pending, and the  *)
(* thread answers what it took, unless it gives up the batch.              *)

\* The command thread goes round: it comes to its sleep again and again, and out of
\* it when a command is pending.
AtRest == thread = "idle"
SomePending == \E i \in Ids : Pending(i)
FetchesOn == []<>AtRest /\ (AtRest /\ SomePending ~> ~AtRest)

\* A step that loses no acknowledgement and is no restart.
HeardStep ==
    \/ \E c \in Configurations : Publish(c)
    \/ \E tag \in Tags, type \in Kinds : Issue(tag, type)
    \/ ConfigStep
    \/ FetchPendingCommands \/ \E i \in Ids : TakeUp(i) \/ GiveUpBatch(i)
    \/ WriteSucceeds \/ WriteFails \/ AckArrives

\* The command was fetched in the round that the thread is in.
InRound(i) == \/ thread # "idle" /\ i \in batch
              \/ thread \in {"write", "ack"} /\ active = i
Taken(i) == Pending(i) /\ InRound(i)

\* A command that was issued stays one, pending until it is answered.
LEMMA PendingStays ==
    ASSUME IInv, [Next]_vars, NEW i, Pending(i)
    PROVE  Pending(i)' \/ Answered(i)'
<1>1. /\ verdict \in Seq(Verdicts) /\ issued \in Seq(Commands)
      /\ Ids = 1..Len(issued) /\ Len(issued) \in Nat
      /\ Len(verdict) = Len(issued) /\ i \in Ids
  BY LenProperties DEF IInv, TypeOK, Verdicts, Commands, Ids, Pending
<1>2. CASE \E tag \in Tags, type \in Kinds : Issue(tag, type)
  <2>1. PICK tag \in Tags, type \in Kinds : Issue(tag, type)
    BY <1>2
  <2>2. issued' = Append(issued, [tag |-> tag, type |-> type])
    BY <2>1 DEF Issue
  <2>3. [tag |-> tag, type |-> type] \in Commands
    BY ControlAssumption DEF Commands
  <2>4. Len(issued') = Len(issued) + 1
    BY <1>1, <2>2, <2>3, AppendProperties
  <2> QED
    BY <1>1, <2>4 DEF Ids, Pending, Answered
<1>3. CASE UNCHANGED issued
  BY <1>1, <1>3 DEF Ids, Pending, Answered
<1> QED
  BY <1>2, <1>3 DEF Next, Publish, ConfigStep, DownloadConfiguration,
     SetCurrentConfiguration, WriteConfigCache, CacheWriteFails, SetCurrentAlarmRules,
     CommandStep, FetchPendingCommands, TakeUp, GiveUpBatch, WriteSucceeds,
     WriteFails, AckArrives, AckLost, Restart, cloudVars, vars

\* A pending command is among those that a fetch takes ...
LEMMA FetchTakesAll ==
    ASSUME IInv, [Next]_vars, NEW i, Pending(i), AtRest
    PROVE  AtRest' \/ Taken(i)' \/ Answered(i)'
<1>1. CASE FetchPendingCommands
  BY <1>1 DEF FetchPendingCommands, Pending, Taken, InRound, cloudVars, Ids
<1> QED
  BY <1>1 DEF AtRest, Next, Publish, Issue, ConfigStep, DownloadConfiguration,
     SetCurrentConfiguration, WriteConfigCache, CacheWriteFails, SetCurrentAlarmRules,
     CommandStep, TakeUp, GiveUpBatch, WriteSucceeds, WriteFails, AckArrives, AckLost,
     CommandEnds, Restart, commandVars, vars

\* ... and stays in the round until its answer arrives, when no command makes the
\* batch be given up.
LEMMA TakenStays ==
    ASSUME IInv, Executable, [HeardStep]_vars, NEW i, Taken(i)
    PROVE  Taken(i)' \/ Answered(i)'
<1>1. [Next]_vars
  BY DEF HeardStep, Next, CommandStep
<1>2. Pending(i)' \/ Answered(i)'
  BY <1>1, PendingStays DEF Taken
<1>3. CASE AckArrives
  <2>1. CASE active = i
    <3>1. verdict' = [verdict EXCEPT ![i] = outcome] /\ Ids' = Ids
      BY <1>3, <2>1 DEF AckArrives, Ids
    <3>2. verdict \in Seq(Verdicts) /\ Len(verdict) = Len(issued)
      BY DEF IInv, TypeOK, Verdicts
    <3>3. i \in 1..Len(verdict) /\ DOMAIN verdict = 1..Len(verdict)
      BY <3>2, LenProperties DEF Taken, Pending, Ids
    <3>4. verdict'[i] = outcome /\ outcome # "pending"
      BY <3>1, <3>3 DEF IInv, TypeOK
    <3> QED
      BY <3>1, <3>4 DEF Answered, Taken, Pending
  <2>2. CASE i \in batch
    <3>1. InRound(i)'
      BY <1>3, <2>2 DEF AckArrives, CommandEnds, InRound
    <3> QED
      BY <1>2, <3>1 DEF Taken
  <2> QED
    BY <2>1, <2>2 DEF Taken, InRound
<1>4. CASE ~AckArrives
  <2>1. UNCHANGED <<thread, batch, active>> => InRound(i)'
    BY DEF Taken, InRound
  <2>2. ASSUME NEW j \in Ids, TakeUp(j) PROVE InRound(i)'
    BY <2>2 DEF TakeUp, Taken, InRound
  <2>3. WriteSucceeds \/ WriteFails => InRound(i)'
    BY DEF WriteSucceeds, WriteFails, Taken, InRound
  <2>4. ~FetchPendingCommands
    BY DEF FetchPendingCommands, Taken, InRound
  <2>5. ASSUME NEW j \in Ids PROVE ~GiveUpBatch(j)
    BY DEF GiveUpBatch, Executable, Pending, IInv, CommandInv, InHandPending
  <2>6. InRound(i)'
    BY <1>4, <2>1, <2>2, <2>3, <2>4, <2>5 DEF HeardStep, Publish, Issue, ConfigStep,
       DownloadConfiguration, SetCurrentConfiguration, WriteConfigCache,
       CacheWriteFails, SetCurrentAlarmRules, commandVars, vars
  <2> QED
    BY <1>2, <2>6 DEF Taken
<1> QED
  BY <1>3, <1>4

\* A command thread that goes round answers every command, executed or turned down or
\* given up with its batch before, once nothing pending makes execute_command raise,
\* acknowledgements arrive and the process does not die any more, however many
\* commands and configurations come in meanwhile.
THEOREM AllAnswered ==
    Spec /\ FetchesOn /\ <>[][HeardStep]_vars => CommandsAnswered
<1>1. ASSUME NEW i \in 1..MaxCommands
      PROVE  Spec /\ FetchesOn /\ <>[][HeardStep]_vars /\ <>[]Executable
             => IsAnswered(i)
  <2>1. IInv /\ [Next]_vars /\ Pending(i) => Pending(i)' \/ Answered(i)'
    BY PendingStays
  <2>2. IInv /\ [Next]_vars /\ Pending(i) /\ AtRest
          => AtRest' \/ Taken(i)' \/ Answered(i)'
    BY FetchTakesAll
  <2>3. IInv /\ Executable /\ [HeardStep]_vars /\ Taken(i)
        => Taken(i)' \/ Answered(i)'
    BY TakenStays
  <2>4. Taken(i) => ~AtRest /\ Pending(i)
    BY DEF Taken, InRound, AtRest
  <2>5. Pending(i) => SomePending
    BY DEF SomePending, Pending
  <2> QED
    BY <2>1, <2>2, <2>3, <2>4, <2>5, InvariantHolds, PTL
       DEF Spec, FetchesOn, IsAnswered
<1> QED
  BY <1>1 DEF CommandsAnswered
-----------------------------------------------------------------------------
(* Why both threads go round. A command that was fetched takes up to three *)
(* steps: it is taken up, carried out, and acknowledged.                   *)

BatchWork ==
    CASE thread = "next" -> 3 * Cardinality(batch)
      [] thread = "ack" -> 3 * Cardinality(batch) + 1
      [] thread = "write" -> 3 * Cardinality(batch) + 2
      [] OTHER -> 0

\* The steps fairness speaks of can be taken: for the command thread, when it has a
\* batch or there is one to fetch.
StepsCanBeTaken ==
    /\ ENABLED <<ConfigStep>>_vars
    /\ ~AtRest \/ SomePending => ENABLED <<CommandStep>>_vars

AtWork(n) == ~AtRest /\ BatchWork = n
LessAtHand(n) == ~AtRest /\ BatchWork < n

LEMMA BatchFinite ==
    ASSUME TypeOK
    PROVE  IsFiniteSet(batch) /\ Cardinality(batch) \in Nat
<1>1. Len(issued) \in Nat
  BY LenProperties DEF TypeOK
<1>2. IsFiniteSet(Ids)
  BY <1>1, FS_Interval DEF Ids
<1> QED
  BY <1>2, FS_Subset, FS_CardinalityType DEF TypeOK

LEMMA CommandStepLowers ==
    ASSUME IInv, CommandStep, ~AtRest
    PROVE  AtRest' \/ (BatchWork' < BatchWork /\ ~AtRest')
<1> USE DEF BatchWork, AtRest
<1>1. IsFiniteSet(batch) /\ Cardinality(batch) \in Nat
  BY BatchFinite DEF IInv
<1>2. ASSUME NEW i \in Ids, TakeUp(i) PROVE BatchWork' < BatchWork /\ ~AtRest'
  <2>1. Cardinality(batch \ {i}) = Cardinality(batch) - 1
    BY <1>1, <1>2, FS_RemoveElement DEF TakeUp
  <2>2. Cardinality(batch)' = Cardinality(batch) - 1 /\ thread = "next"
    BY <1>2, <2>1 DEF TakeUp
  <2>3. thread' \in {"write", "ack"}
    BY <1>2 DEF TakeUp
  <2> QED
    BY <1>1, <2>2, <2>3
<1>3. CASE WriteSucceeds \/ WriteFails
  BY <1>1, <1>3 DEF WriteSucceeds, WriteFails
<1>4. CASE AckArrives \/ AckLost
  BY <1>1, <1>4 DEF AckArrives, AckLost, CommandEnds
<1>5. ~FetchPendingCommands
  BY DEF FetchPendingCommands
<1>6. ASSUME NEW i \in Ids, GiveUpBatch(i) PROVE AtRest'
  BY <1>6 DEF GiveUpBatch
<1> QED
  BY <1>2, <1>3, <1>4, <1>5, <1>6 DEF CommandStep

LEMMA OthersLeaveBatch ==
    ASSUME IInv, [Next]_vars, ~CommandStep
    PROVE  AtRest' \/ UNCHANGED <<thread, batch>>
BY DEF Next, Publish, Issue, ConfigStep, DownloadConfiguration, SetCurrentConfiguration,
   WriteConfigCache, CacheWriteFails, SetCurrentAlarmRules, Restart, commandVars, vars,
   AtRest

\* Nothing but an acknowledgement answers a command, and at rest there is none.
LEMMA PendingAtRest ==
    ASSUME IInv, [Next]_vars, AtRest, SomePending
    PROVE  ~AtRest' \/ SomePending'
<1>1. PICK i \in Ids : Pending(i)
  BY DEF SomePending
<1>2. CASE UNCHANGED <<issued, verdict>>
  BY <1>1, <1>2 DEF SomePending, Pending, Ids
<1>3. CASE \E tag \in Tags, type \in Kinds : Issue(tag, type)
  <2>1. PICK tag \in Tags, type \in Kinds : Issue(tag, type)
    BY <1>3
  <2>2. verdict \in Seq(Verdicts) /\ issued \in Seq(Commands) /\ "pending" \in Verdicts
    BY DEF IInv, TypeOK, Verdicts, Commands
  <2>3. i \in 1..Len(verdict) /\ verdict' = Append(verdict, "pending")
    BY <1>1, <2>1 DEF Issue, Ids, IInv, TypeOK
  <2>4. verdict'[i] = "pending"
    BY <1>1, <2>2, <2>3, AppendProperties DEF Pending
  <2>5. [tag |-> tag, type |-> type] \in Commands
    BY ControlAssumption DEF Commands
  <2>6. Len(issued') = Len(issued) + 1 /\ Len(issued) \in Nat
    BY <2>1, <2>2, <2>5, AppendProperties, LenProperties DEF Issue
  <2>7. i \in Ids'
    BY <1>1, <2>6 DEF Ids
  <2> QED
    BY <2>4, <2>7 DEF SomePending, Pending
<1>4. ~AckArrives
  BY DEF AckArrives, AtRest
<1> QED
  BY <1>2, <1>3, <1>4 DEF Next, Publish, ConfigStep, DownloadConfiguration,
     SetCurrentConfiguration, WriteConfigCache, CacheWriteFails, SetCurrentAlarmRules,
     CommandStep, FetchPendingCommands, TakeUp, GiveUpBatch, WriteSucceeds,
     WriteFails, AckLost, Restart, cloudVars, vars

\* The recurrences LatestGetsEverywhere and AllAnswered ask for. The configuration
\* thread steps for ever; a pending command takes the command thread out of its sleep,
\* and a batch ends or has fewer steps left, whatever writes fail, acknowledgements
\* are lost and commands come in meanwhile.
THEOREM ThreadsGoOn ==
    FairSpec /\ []StepsCanBeTaken =>
        /\ []<><<ConfigStep>>_vars
        /\ AtRest /\ SomePending ~> ~AtRest
        /\ \A n \in Nat : AtWork(n) ~> AtRest \/ LessAtHand(n)
<1>1. FairSpec /\ []StepsCanBeTaken => []<><<ConfigStep>>_vars
  BY PTL DEF FairSpec, StepsCanBeTaken
<1>2. FairSpec /\ []StepsCanBeTaken => (AtRest /\ SomePending ~> ~AtRest)
  <2>1. IInv /\ AtRest /\ <<CommandStep>>_vars => ~AtRest'
    BY DEF AtRest, CommandStep, FetchPendingCommands, TakeUp, GiveUpBatch,
       WriteSucceeds, WriteFails, AckArrives, AckLost
  <2>2. IInv /\ [Next]_vars /\ AtRest /\ SomePending => ~AtRest' \/ SomePending'
    BY PendingAtRest
  <2> QED
    BY <2>1, <2>2, InvariantHolds, PTL DEF FairSpec, StepsCanBeTaken, Spec
<1>3. ASSUME NEW n \in Nat
      PROVE  FairSpec /\ []StepsCanBeTaken => (AtWork(n) ~> AtRest \/ LessAtHand(n))
  <2>1. IInv /\ [Next]_vars /\ AtWork(n) => AtWork(n)' \/ AtRest' \/ LessAtHand(n)'
    <3> SUFFICES ASSUME IInv, [Next]_vars, AtWork(n), ~AtRest'
                 PROVE  AtWork(n)' \/ LessAtHand(n)'
      OBVIOUS
    <3>1. CASE CommandStep
      BY <3>1, CommandStepLowers DEF AtWork, LessAtHand
    <3>2. CASE ~CommandStep
      <4>1. UNCHANGED <<thread, batch>>
        BY <3>2, OthersLeaveBatch
      <4>2. UNCHANGED BatchWork
        BY <4>1 DEF BatchWork
      <4> QED
        BY <4>2 DEF AtWork
    <3> QED
      BY <3>1, <3>2
  <2>2. IInv /\ AtWork(n) /\ <<CommandStep>>_vars => AtRest' \/ LessAtHand(n)'
    BY CommandStepLowers DEF AtWork, LessAtHand
  <2>3. AtWork(n) => ~AtRest
    BY DEF AtWork
  <2> QED
    BY <2>1, <2>2, <2>3, InvariantHolds, PTL DEF FairSpec, StepsCanBeTaken, Spec
<1> QED
  BY <1>1, <1>2, <1>3

\* The rule by which the steps of ThreadsGoOn make a batch that ends, the induction on
\* the naturals: every behaviour has it, and the provers cannot show it.
BatchDescent ==
    (\A n \in Nat : AtWork(n) ~> AtRest \/ \E m \in 0..(n - 1) : AtWork(m))
    => ((\E n \in Nat : AtWork(n)) ~> AtRest)

\* Configurations settle and commands are answered under fairness alone, once the
\* faults have ended.
COROLLARY ControlSettlesFairly ==
    FairSpec /\ []StepsCanBeTaken =>
        /\ <>[][CalmStep]_vars => ConfigurationSettles
        /\ BatchDescent /\ <>[][HeardStep]_vars => CommandsAnswered
<1>1. IInv => BatchWork \in Nat
  BY BatchFinite DEF IInv, TypeOK, BatchWork
<1>2. ASSUME NEW n \in Nat
      PROVE  FairSpec /\ []StepsCanBeTaken =>
                (AtWork(n) ~> AtRest \/ \E m \in 0..(n - 1) : AtWork(m))
  <2>1. FairSpec /\ []StepsCanBeTaken => (AtWork(n) ~> AtRest \/ LessAtHand(n))
    BY ThreadsGoOn
  <2>2. IInv /\ LessAtHand(n) => \E m \in 0..(n - 1) : AtWork(m)
    BY <1>1 DEF LessAtHand, AtWork
  <2> QED
    BY <2>1, <2>2, InvariantHolds, PTL DEF FairSpec, Spec
<1>3. FairSpec /\ []StepsCanBeTaken =>
        \A n \in Nat : AtWork(n) ~> AtRest \/ \E m \in 0..(n - 1) : AtWork(m)
  BY <1>2
<1>4. IInv => AtRest \/ \E n \in Nat : AtWork(n)
  BY <1>1 DEF AtWork
<1>5. FairSpec /\ []StepsCanBeTaken =>
        []<><<ConfigStep>>_vars /\ (AtRest /\ SomePending ~> ~AtRest)
  BY ThreadsGoOn
<1>6. FairSpec /\ []StepsCanBeTaken /\ BatchDescent => FetchesOn
  BY <1>3, <1>4, <1>5, InvariantHolds, PTL DEF FairSpec, Spec, BatchDescent, FetchesOn
<1> QED
  BY <1>5, <1>6, AllAnswered, LatestGetsEverywhere, PTL DEF FairSpec
=============================================================================
