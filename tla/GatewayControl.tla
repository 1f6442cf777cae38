---------------------------- MODULE GatewayControl ----------------------------
(***************************************************************************)
(* The control plane of the poller: the configuration thread               *)
(* (run_config_refresh_loop, config_cache.py), the command thread          *)
(* (run_commands_loop, execute_command, gateway_commands.py), the cloud    *)
(* they talk to, and a crash of the process that start_gateway.py starts   *)
(* again with main() reading the cache.                                    *)
(*                                                                         *)
(* A configuration is its version, the position at which the cloud         *)
(* published it; 0 is `{}`. What matters in one is what find_writable_tag  *)
(* makes of each tag. The locks execute_command takes are in ModbusBus.    *)
(***************************************************************************)
EXTENDS Naturals, Sequences

CONSTANTS
    Registers, Inputs, Coils,   \* the tags, by their function code
    Kinds,          \* the types of commands that are issued
    MaxVersions,    \* bound on the configurations published
    MaxCommands,    \* bound on the commands issued
    MaxCacheFails,  \* bound on the failures to write the cache file
    MaxLostAcks,    \* bound on the acknowledgements that do not arrive
    MaxCrashes      \* bound on the deaths of the process

Tags == Registers \cup Inputs \cup Coils

\* What find_writable_tag makes of a tag: it is marked writable, or not, or not
\* there; or an ID that int() does not take stands before it, or anywhere if the
\* tag is not there, and raises.
Lookups == {"writable", "refused", "raises"}
Configurations == [Tags -> Lookups]

\* The last one is an entry of the cloud's list that is no JSON object.
Types == {"write_register", "write_coil", "unsupported", "malformed"}

ASSUME ControlAssumption ==
    /\ Registers \cap Inputs = {} /\ Coils \cap (Registers \cup Inputs) = {}
    /\ Kinds \subseteq Types
    /\ MaxVersions \in Nat \ {0} /\ MaxCommands \in Nat
    /\ MaxCacheFails \in Nat /\ MaxLostAcks \in Nat /\ MaxCrashes \in Nat

VARIABLES
    published,  \* external: the configurations so far
    issued,     \* external: the commands so far; the position is command_id
    verdict,    \* external: the status the cloud has of each command
    current,    \* _current_configuration
    cache,      \* config_cache.json
    rules,      \* the configuration _current_alarm_rules come from
    refresh,    \* where the configuration thread is
    got,        \* the configuration it has downloaded
    thread,     \* where the command thread is
    batch,      \* the commands fetched and not yet taken up
    active,     \* the command being executed
    outcome,    \* the status to acknowledge it with
    fresh,      \* history: it is about to be written and no configuration was
                \* set since it was taken up
    writes,     \* history: how often the device took the write of a command
    unsure,     \* history: commands executed and not acknowledged
    uncached,   \* history: versions in force that did not get into the cache
    newest,     \* history: the newest version that was ever in force
    faults      \* faults so far, by kind

cloudVars == <<published, issued, verdict>>
configVars == <<current, cache, rules, refresh, got, uncached, newest>>
commandVars == <<thread, batch, active, outcome, writes, unsure>>
vars == <<published, issued, verdict, current, cache, rules, refresh, got,
          uncached, newest, thread, batch, active, outcome, writes, unsure,
          fresh, faults>>

Versions == 0..Len(published)
Ids == 1..Len(issued)
Lookup(v, tag) == IF v = 0 THEN "refused" ELSE published[v][tag]
Writable(v) == {tag \in Tags : Lookup(v, tag) = "writable"}

Init ==
    /\ published \in {<<c>> : c \in Configurations}
    /\ issued = <<>> /\ verdict = <<>> /\ writes = <<>>
    /\ current = 0 /\ cache = 0 /\ rules = 0
    /\ refresh = "idle" /\ got = 0 /\ uncached = {} /\ newest = 0
    /\ thread = "idle" /\ batch = {} /\ active = 0 /\ outcome = "failed"
    /\ unsure = {} /\ fresh = FALSE
    /\ faults = [cache |-> 0, ack |-> 0, crash |-> 0]

Fault(kind, bound) ==
    faults[kind] < bound /\ faults' = [faults EXCEPT ![kind] = @ + 1]
-----------------------------------------------------------------------------
(* The cloud.                                                              *)

\* A configuration is published.
Publish(c) ==
    /\ Len(published) < MaxVersions
    /\ published' = Append(published, c)
    /\ UNCHANGED <<issued, verdict, configVars, commandVars, fresh, faults>>

\* A user issues a command, or an entry of the list of pending ones is none.
Issue(tag, type) ==
    /\ Len(issued) < MaxCommands
    /\ issued' = Append(issued, [tag |-> tag, type |-> type])
    /\ verdict' = Append(verdict, "pending")
    /\ writes' = Append(writes, 0)
    /\ UNCHANGED <<published, configVars, thread, batch, active, outcome, unsure,
                   fresh, faults>>
-----------------------------------------------------------------------------
(* The configuration thread: "idle" -> "set" -> "cache" -> "rules". A      *)
(* download that fails changes nothing.                                    *)

DownloadConfiguration ==
    /\ refresh = "idle"
    /\ got' = Len(published)
    /\ refresh' = "set"
    /\ UNCHANGED <<cloudVars, current, cache, rules, uncached, newest,
                   commandVars, fresh, faults>>

SetCurrentConfiguration ==
    /\ refresh = "set"
    /\ current' = got
    /\ newest' = IF got > newest THEN got ELSE newest
    /\ fresh' = FALSE
    /\ uncached' = IF got = cache THEN uncached ELSE uncached \cup {got}
    /\ refresh' = "cache"
    /\ UNCHANGED <<cloudVars, cache, rules, got, commandVars, faults>>

\* Mutant of WriteConfigCache: the temporary file is not moved into place.
WriteConfigCacheTempOnly ==
    /\ refresh = "cache"
    /\ uncached' = uncached \ {got}
    /\ refresh' = "rules"
    /\ UNCHANGED <<cloudVars, current, cache, rules, got, newest, commandVars,
                   fresh, faults>>
\* Mutant of WriteConfigCache: the thread goes back to sleep after the write.
WriteConfigCacheLast ==
    /\ refresh = "cache"
    /\ cache' = got
    /\ uncached' = uncached \ {got}
    /\ refresh' = "idle" /\ got' = 0
    /\ UNCHANGED <<cloudVars, current, rules, newest, commandVars, fresh,
                   faults>>
\* write_config_cache: the file is replaced as a whole ...
WriteConfigCache ==
    /\ refresh = "cache"
    /\ cache' = got
    /\ uncached' = uncached \ {got}
    /\ refresh' = "rules"
    /\ UNCHANGED <<cloudVars, current, rules, got, newest, commandVars, fresh,
                   faults>>

\* ... or not at all: the exception ends this round.
CacheWriteFails ==
    /\ refresh = "cache"
    /\ Fault("cache", MaxCacheFails)
    /\ refresh' = "idle" /\ got' = 0
    /\ UNCHANGED <<cloudVars, current, cache, rules, uncached, newest,
                   commandVars, fresh>>

SetCurrentAlarmRules ==
    /\ refresh = "rules"
    /\ rules' = got
    /\ refresh' = "idle" /\ got' = 0
    /\ UNCHANGED <<cloudVars, current, cache, uncached, newest, commandVars,
                   fresh, faults>>
-----------------------------------------------------------------------------
(* The command thread: "idle" -> "next" -> "write" -> "ack" -> "next" ...  *)

\* A fetch that fails, or the 404 of a backend without commands, is one of
\* no commands.
FetchPendingCommands ==
    /\ thread = "idle"
    /\ batch' = {i \in Ids : verdict[i] = "pending"}
    /\ batch' # {}
    /\ thread' = "next"
    /\ UNCHANGED <<cloudVars, configVars, active, outcome, writes, unsure, fresh,
                   faults>>

\* The checks of execute_command, with find_writable_tag in configuration v. A
\* command whose own IDs are malformed is turned down like an unsupported one.
Passes(i, v) ==
    /\ issued[i].type \in {"write_register", "write_coil"}
    /\ issued[i].tag \in Writable(v)

\* An exception comes out of them: command.get on what is no object, or int() on
\* an ID of the configuration.
Raises(i, v) ==
    \/ issued[i].type = "malformed"
    \/ issued[i].type # "unsupported" /\ Lookup(v, issued[i].tag) = "raises"

\* Mutant of TakeUp: the configuration is read from the cache file.
TakeUpByCache(i) ==
    /\ thread = "next" /\ i \in batch /\ ~Raises(i, cache)
    /\ batch' = batch \ {i} /\ active' = i
    /\ thread' = IF Passes(i, cache) THEN "write" ELSE "ack"
    /\ fresh' = Passes(i, cache)
    /\ UNCHANGED <<cloudVars, configVars, outcome, writes, unsure, faults>>
\* Mutant of TakeUp: a command that is turned down is not acknowledged.
TakeUpSilently(i) ==
    /\ thread = "next" /\ i \in batch /\ ~Raises(i, current)
    /\ batch' = batch \ {i} /\ active' = IF Passes(i, current) THEN i ELSE 0
    /\ thread' = IF Passes(i, current) THEN "write"
                 ELSE IF batch = {i} THEN "idle" ELSE "next"
    /\ fresh' = Passes(i, current)
    /\ UNCHANGED <<cloudVars, configVars, outcome, writes, unsure, faults>>
\* The cloud's order of the list is not known here: any command may be the next.
TakeUp(i) ==
    /\ thread = "next" /\ i \in batch /\ ~Raises(i, current)
    /\ batch' = batch \ {i} /\ active' = i
    /\ thread' = IF Passes(i, current) THEN "write" ELSE "ack"
    /\ fresh' = Passes(i, current)
    /\ UNCHANGED <<cloudVars, configVars, outcome, writes, unsure, faults>>

\* The exception is caught around the loop over the commands only: this one and
\* the rest of the batch are given up, and nothing is acknowledged.
GiveUpBatch(i) ==
    /\ thread = "next" /\ i \in batch /\ Raises(i, current)
    /\ batch' = {} /\ thread' = "idle"
    /\ UNCHANGED <<cloudVars, configVars, active, outcome, writes, unsure, fresh,
                   faults>>

Took == writes' = [writes EXCEPT ![active] = @ + 1]

\* What write_command_value refuses itself: writing an input register.
ReadOnly(i) == issued[i].type = "write_register" /\ issued[i].tag \in Inputs

WriteSucceeds ==
    /\ thread = "write"
    /\ ~ReadOnly(active)
    /\ Took
    /\ outcome' = "success" /\ fresh' = FALSE
    /\ thread' = "ack"
    /\ UNCHANGED <<cloudVars, configVars, batch, active, unsure, faults>>

\* Mutant of WriteFails: no `return` after the failure.
WriteFailsAndSucceeds ==
    /\ thread = "write"
    /\ UNCHANGED writes \/ (~ReadOnly(active) /\ Took)
    /\ outcome' = "success" /\ fresh' = FALSE
    /\ thread' = "ack"
    /\ UNCHANGED <<cloudVars, configVars, batch, active, unsure, faults>>
\* Mutant of WriteFails: one more try.
WriteFailsAndRetries ==
    /\ thread = "write"
    /\ UNCHANGED writes \/ (~ReadOnly(active) /\ writes[active] = 0 /\ Took)
    /\ UNCHANGED <<cloudVars, configVars, batch, active, outcome, thread, unsure,
                   fresh, faults>>
\* Any exception: no connection, an error reply, a timeout. The device may
\* have taken a write whose reply did not come.
WriteFails ==
    /\ thread = "write"
    /\ UNCHANGED writes \/ (~ReadOnly(active) /\ Took)
    /\ thread' = "ack" /\ fresh' = FALSE
    /\ UNCHANGED <<cloudVars, configVars, batch, active, outcome, unsure, faults>>

\* Mutant of CommandEnds: the outcome is shared by the commands of a batch.
CommandEndsWithOutcome ==
    /\ thread' = IF batch = {} THEN "idle" ELSE "next"
    /\ active' = 0 /\ UNCHANGED outcome
CommandEnds ==
    /\ thread' = IF batch = {} THEN "idle" ELSE "next"
    /\ active' = 0 /\ outcome' = "failed"

\* ack_command reaches the cloud, whether or not its reply comes back ...
AckArrives ==
    /\ thread = "ack"
    /\ verdict' = [verdict EXCEPT ![active] = outcome]
    /\ CommandEnds
    /\ UNCHANGED <<published, issued, configVars, batch, writes, unsure, fresh,
                   faults>>

\* ... or does not: this is logged, and nothing else.
AckLost ==
    /\ thread = "ack"
    /\ Fault("ack", MaxLostAcks)
    /\ unsure' = unsure \cup {active}
    /\ CommandEnds
    /\ UNCHANGED <<cloudVars, configVars, batch, writes, fresh>>
-----------------------------------------------------------------------------
\* Mutant of Restart: main() does not hand the cached rules on.
RestartWithoutRules ==
    /\ Fault("crash", MaxCrashes)
    /\ current' = cache /\ rules' = 0
    /\ refresh' = "idle" /\ got' = 0
    /\ thread' = "idle" /\ batch' = {} /\ active' = 0 /\ outcome' = "failed"
    /\ unsure' = IF thread = "ack" THEN unsure \cup {active} ELSE unsure
    /\ fresh' = FALSE
    /\ UNCHANGED <<cloudVars, cache, uncached, newest, writes>>
\* The process dies and main() starts again, from the cache.
Restart ==
    /\ Fault("crash", MaxCrashes)
    /\ current' = cache /\ rules' = cache
    /\ refresh' = "idle" /\ got' = 0
    /\ thread' = "idle" /\ batch' = {} /\ active' = 0 /\ outcome' = "failed"
    /\ unsure' = IF thread = "ack" THEN unsure \cup {active} ELSE unsure
    /\ fresh' = FALSE
    /\ UNCHANGED <<cloudVars, cache, uncached, newest, writes>>

ConfigStep ==
    \/ DownloadConfiguration \/ SetCurrentConfiguration \/ WriteConfigCache
    \/ CacheWriteFails \/ SetCurrentAlarmRules

CommandStep ==
    \/ FetchPendingCommands \/ \E i \in Ids : TakeUp(i) \/ GiveUpBatch(i)
    \/ WriteSucceeds \/ WriteFails \/ AckArrives \/ AckLost

Next ==
    \/ \E c \in Configurations : Publish(c)
    \/ \E tag \in Tags, type \in Kinds : Issue(tag, type)
    \/ ConfigStep
    \/ CommandStep
    \/ Restart

Spec == Init /\ [][Next]_vars

(* Both threads run for ever. Downloads and fetches fail only now and then *)
(* (a failed one is no step). Writes may fail always.                      *)
FairSpec == Spec /\ WF_vars(ConfigStep) /\ WF_vars(CommandStep)
-----------------------------------------------------------------------------
(* Properties.                                                             *)

\* Types.
TypeOK ==
    /\ published \in Seq(Configurations)
    /\ issued \in Seq([tag : Tags, type : Types])
    /\ verdict \in Seq({"pending", "success", "failed"})
    /\ writes \in Seq(Nat)
    /\ Len(verdict) = Len(issued) /\ Len(writes) = Len(issued)
    /\ current \in Versions /\ cache \in Versions /\ rules \in Versions
    /\ got \in Versions /\ newest \in Versions
    /\ refresh \in {"idle", "set", "cache", "rules"}
    /\ uncached \subseteq Versions
    /\ thread \in {"idle", "next", "write", "ack"}
    /\ batch \subseteq Ids /\ unsure \subseteq Ids
    /\ active \in Ids \cup {0} /\ (thread \in {"write", "ack"} => active \in Ids)
    /\ outcome \in {"success", "failed"} /\ fresh \in BOOLEAN
    /\ faults \in [{"cache", "ack", "crash"} -> Nat]

\* A command is written to its device twice only after an execution that was
\* not acknowledged: a fetch, a retry or an error path never repeats one.
RewrittenOnlyUnacknowledged ==
    \A i \in Ids : writes[i] > 1 => i \in unsure

\* The cloud records no success for a command that no device has taken.
SuccessMeansWritten ==
    \A i \in Ids : verdict[i] = "success" => writes[i] > 0

\* "A command is only executed if its tag_id is explicitly marked writable in
\* the config already downloaded": a tag that is no more is written only by a
\* command that was taken up before the new configuration was set.
WithdrawnTagNotWritten ==
    fresh => issued[active].tag \in Writable(current)

\* The gateway falls back behind a configuration that was in force only if
\* that one did not get into the cache file.
FallsBackOnlyUncached == current < newest => newest \in uncached

\* Polling and alarm rules come from one configuration, except during a
\* refresh and after the cache file could not be written.
RulesLagOnlyUncached ==
    refresh = "idle" /\ rules # current => current \in uncached

\* "command_type must match the tag's declared type (no writing a coil value
\* through a register tag or vice versa)".
TypeMatchesTag ==
    \A i \in Ids : writes[i] > 0 =>
        (issued[i].type = "write_coil") = (issued[i].tag \in Coils)

\* The command path keeps the promise of CommandLedger: whatever is fetched twice,
\* fails, is not acknowledged or dies, a command is carried out only while it is
\* unanswered and no other one is in hand, and its one answer is how that went.
Ledger == INSTANCE CommandLedger WITH
    answers <- verdict,
    effects <- writes,
    hand <- IF thread = "ack" THEN active ELSE 0,
    result <- outcome

ImplementsLedger == Ledger!Spec

Pending(i) == i \in Ids /\ verdict[i] = "pending"
Answered(i) == i \in Ids /\ verdict[i] # "pending"
IsAnswered(i) == Pending(i) ~> Answered(i)

\* No entry of the cloud's list, and no ID of the configuration in force, makes a
\* batch be given up.
Executable == \A i \in Ids : Pending(i) => ~Raises(i, current)

\* Every command is answered, executed or turned down, those given up before
\* included, once nothing that is pending raises any more. That an exception out
\* of one command costs the others their answer is README.md, disagreement 9.
CommandsAnswered == <>[]Executable => \A i \in 1..MaxCommands : IsAnswered(i)

\* When the cloud publishes no more, its configuration gets everywhere.
ConfigurationSettles ==
    <>[](/\ current = Len(published)
         /\ refresh = "idle" => cache = current /\ rules = current)
=============================================================================
