------------------------------ MODULE EdgeAlarms ------------------------------
(***************************************************************************)
(* The edge alarm evaluator (edge_alarm_evaluator.py): evaluator_worker    *)
(* visits the alarm rules of a snapshot against a snapshot of the latest   *)
(* readings, keeps which rules are active, and pushes each change to the   *)
(* cloud, a request that blocks it. Meanwhile the poll loop records        *)
(* readings and the configuration thread sets rules.                       *)
(*                                                                         *)
(* Everything the evaluator knows is in memory. The steps between two      *)
(* requests take no time; the clock ticks while it sleeps or pushes.       *)
(***************************************************************************)
EXTENDS Naturals, Sequences

CONSTANTS
    Tags, Values,
    Rulebooks,      \* the rule lists that configurations may hold
    None,           \* no reading, or no threshold
    MaxClock,       \* bound on the clock
    MaxReadings,    \* bound on the readings recorded
    MaxRulebooks,   \* bound on the configurations set
    MaxLostPushes,  \* bound on the pushes that do not arrive
    MaxCrashes      \* bound on the deaths of the process

\* high_high and low_low are as high and low; "malformed" stands for a rule on
\* which the comparison raises, as with a threshold that is a string.
Kinds == {"high", "low", "digital_on", "digital_off", "communication_loss",
          "unknown", "malformed"}
Rules == UNION {{book[k] : k \in DOMAIN book} : book \in Rulebooks}
RuleIds == {r.id : r \in Rules}

ASSUME AlarmsAssumption ==
    /\ Values \subseteq Nat /\ None \notin Nat
    /\ \A r \in Rules :
          /\ r.tag \in Tags /\ r.kind \in Kinds
          /\ r.threshold \in Nat \cup {None}
    /\ \A book \in Rulebooks : book \in Seq(Rules)
    /\ \A book \in Rulebooks : \A j, k \in DOMAIN book :
          book[j].id = book[k].id => j = k
    /\ MaxClock \in Nat /\ MaxReadings \in Nat /\ MaxRulebooks \in Nat
    /\ MaxLostPushes \in Nat /\ MaxCrashes \in Nat

VARIABLES
    shadow,     \* EDGE_ALARM_SHADOW_MODE; it does not change
    rules,      \* _current_alarm_rules
    readings,   \* _latest_readings
    active,     \* _active_state
    pc,         \* where evaluator_worker is
    todo,       \* the rules of the snapshot not yet visited
    seen,       \* the snapshot of the readings
    clock,
    cloud,      \* external: the alarm of each rule, as pushed
    unsynced,   \* history: rules of which the cloud missed the latest change
    polled,     \* history: when each tag was last recorded
    used        \* how often each bounded event has happened

evaluator == <<active, pc, todo, seen>>
vars == <<shadow, rules, readings, active, pc, todo, seen, clock, cloud,
          unsynced, polled, used>>

Forgotten == [id \in RuleIds |-> FALSE]

Init ==
    /\ shadow \in BOOLEAN
    /\ rules = <<>>
    /\ readings = [tag \in Tags |-> None]
    /\ active = Forgotten
    /\ pc = "asleep" /\ todo = <<>>
    /\ seen = [tag \in Tags |-> None]
    /\ clock = 0
    /\ cloud = [id \in RuleIds |-> "close"]
    /\ unsynced = {}
    /\ polled = [tag \in Tags |-> 0]
    /\ used = [reading |-> 0, rulebook |-> 0, lost |-> 0, crash |-> 0]

Use(event, bound) ==
    used[event] < bound /\ used' = [used EXCEPT ![event] = @ + 1]
-----------------------------------------------------------------------------
(* The other threads, and time.                                            *)

\* Mutant of RecordLatestReading: the time of a known tag is not renewed.
RecordLatestReadingOldTime(tag, value) ==
    /\ Use("reading", MaxReadings)
    /\ readings' = [readings EXCEPT ![tag] =
          [value |-> value, at |-> IF @ = None THEN clock ELSE @.at]]
    /\ polled' = [polled EXCEPT ![tag] = clock]
    /\ UNCHANGED <<shadow, rules, evaluator, clock, cloud, unsynced>>
RecordLatestReading(tag, value) ==
    /\ Use("reading", MaxReadings)
    /\ readings' = [readings EXCEPT ![tag] = [value |-> value, at |-> clock]]
    /\ polled' = [polled EXCEPT ![tag] = clock]
    /\ UNCHANGED <<shadow, rules, evaluator, clock, cloud, unsynced>>

SetCurrentAlarmRules(book) ==
    /\ Use("rulebook", MaxRulebooks)
    /\ rules' = book
    /\ UNCHANGED <<shadow, readings, evaluator, clock, cloud, unsynced, polled>>

Tick ==
    /\ pc \in {"asleep", "push"} /\ clock < MaxClock
    /\ clock' = clock + 1
    /\ UNCHANGED <<shadow, rules, readings, evaluator, cloud, unsynced, polled,
                   used>>
-----------------------------------------------------------------------------
(* evaluate_all_rules.                                                     *)

SnapshotRules ==
    /\ pc = "asleep"
    /\ todo' = rules
    /\ pc' = "readings"
    /\ UNCHANGED <<shadow, rules, readings, active, seen, clock, cloud, unsynced,
                   polled, used>>

SnapshotReadings ==
    /\ pc = "readings"
    /\ seen' = readings
    /\ pc' = "rule"
    /\ UNCHANGED <<shadow, rules, readings, active, todo, clock, cloud, unsynced,
                   polled, used>>

\* _evaluate_condition, at this moment.
Triggered(r, reading) ==
    \/ r.kind \in {"high", "low", "communication_loss"} /\ r.threshold # None
       /\ \/ r.kind = "high" /\ reading.value >= r.threshold
          \/ r.kind = "low" /\ reading.value <= r.threshold
          \/ r.kind = "communication_loss" /\ clock - reading.at >= r.threshold
    \/ r.kind = "digital_on" /\ reading.value = 1
    \/ r.kind = "digital_off" /\ reading.value = 0

Rule == Head(todo)
Visiting == pc = "rule" /\ todo # <<>>
Hit == Triggered(Rule, seen[Rule.tag])
Idle == UNCHANGED <<shadow, rules, readings, seen, clock, cloud, unsynced,
                    polled, used>>

\* Mutant of SkipUnread: `return` in place of `continue`.
SkipUnreadReturns ==
    /\ Visiting /\ seen[Rule.tag] = None
    /\ todo' = <<>> /\ pc' = "asleep"
    /\ UNCHANGED active /\ Idle
SkipUnread ==
    /\ Visiting /\ seen[Rule.tag] = None
    /\ todo' = Tail(todo)
    /\ UNCHANGED <<active, pc>> /\ Idle

\* The exception ends the round; evaluator_worker logs it.
RuleRaises ==
    /\ Visiting /\ seen[Rule.tag] # None
    /\ Rule.kind = "malformed"
    /\ todo' = <<>> /\ pc' = "asleep"
    /\ UNCHANGED active /\ Idle

NoChange ==
    /\ Visiting /\ seen[Rule.tag] # None
    /\ Rule.kind # "malformed"
    /\ Hit <=> active[Rule.id]
    /\ todo' = Tail(todo)
    /\ UNCHANGED <<active, pc>> /\ Idle

\* A change is pushed, or only logged in shadow mode.
Report ==
    IF shadow THEN todo' = Tail(todo) /\ UNCHANGED pc
              ELSE pc' = "push" /\ UNCHANGED todo

OpenAlarm ==
    /\ Visiting /\ seen[Rule.tag] # None
    /\ Rule.kind # "malformed"
    /\ Hit /\ ~active[Rule.id]
    /\ active' = [active EXCEPT ![Rule.id] = TRUE]
    /\ Report /\ Idle

\* Mutant of CloseAlarm: only the opening of an alarm is pushed.
CloseAlarmUnsaid ==
    /\ Visiting /\ seen[Rule.tag] # None
    /\ Rule.kind # "malformed"
    /\ ~Hit /\ active[Rule.id]
    /\ active' = [active EXCEPT ![Rule.id] = FALSE]
    /\ todo' = Tail(todo) /\ UNCHANGED pc /\ Idle
CloseAlarm ==
    /\ Visiting /\ seen[Rule.tag] # None
    /\ Rule.kind # "malformed"
    /\ ~Hit /\ active[Rule.id]
    /\ active' = [active EXCEPT ![Rule.id] = FALSE]
    /\ Report /\ Idle

\* The push reaches the cloud, whether or not its reply comes back ...
PushArrives ==
    /\ pc = "push"
    /\ cloud' = [cloud EXCEPT ![Rule.id] =
                    IF active[Rule.id] THEN "open" ELSE "close"]
    /\ unsynced' = unsynced \ {Rule.id}
    /\ todo' = Tail(todo) /\ pc' = "rule"
    /\ UNCHANGED <<shadow, rules, readings, active, seen, clock, polled, used>>

\* ... or does not, which is logged.
PushLost ==
    /\ pc = "push"
    /\ Use("lost", MaxLostPushes)
    /\ unsynced' = unsynced \cup {Rule.id}
    /\ todo' = Tail(todo) /\ pc' = "rule"
    /\ UNCHANGED <<shadow, rules, readings, active, seen, clock, cloud, polled>>

EndRound ==
    /\ pc = "rule" /\ todo = <<>>
    /\ pc' = "asleep"
    /\ UNCHANGED <<active, todo>> /\ Idle
-----------------------------------------------------------------------------
\* The process dies and starts again, with the rules of the cache.
Restart(book) ==
    /\ Use("crash", MaxCrashes)
    /\ unsynced' = unsynced \cup {id \in RuleIds : active[id]}
                   \cup (IF pc = "push" THEN {Rule.id} ELSE {})
    /\ rules' = book
    /\ readings' = [tag \in Tags |-> None]
    /\ active' = Forgotten
    /\ pc' = "asleep" /\ todo' = <<>>
    /\ seen' = [tag \in Tags |-> None]
    /\ UNCHANGED <<shadow, clock, cloud, polled>>

Evaluate ==
    \/ SnapshotRules \/ SnapshotReadings
    \/ SkipUnread \/ RuleRaises \/ NoChange \/ OpenAlarm \/ CloseAlarm
    \/ PushArrives \/ PushLost \/ EndRound

Next ==
    \/ \E tag \in Tags, value \in Values : RecordLatestReading(tag, value)
    \/ \E book \in Rulebooks : SetCurrentAlarmRules(book)
    \/ Tick
    \/ Evaluate
    \/ \E book \in Rulebooks \cup {<<>>} : Restart(book)

Spec == Init /\ [][Next]_vars

(* The evaluator's thread never ends: it wakes up from every sleep, and a  *)
(* push has a timeout.                                                     *)
FairSpec == Spec /\ WF_vars(Evaluate)
-----------------------------------------------------------------------------
(* Properties.                                                             *)

Readings == [value : Values, at : 0..MaxClock]

\* Types.
TypeOK ==
    /\ shadow \in BOOLEAN
    /\ rules \in Rulebooks \cup {<<>>}
    /\ readings \in [Tags -> Readings \cup {None}]
    /\ seen \in [Tags -> Readings \cup {None}]
    /\ active \in [RuleIds -> BOOLEAN]
    /\ pc \in {"asleep", "readings", "rule", "push"}
    /\ todo \in Seq(Rules) /\ (pc = "push" => todo # <<>>)
    /\ clock \in 0..MaxClock
    /\ cloud \in [RuleIds -> {"open", "close"}]
    /\ unsynced \subseteq RuleIds
    /\ polled \in [Tags -> 0..MaxClock]
    /\ used \in [{"reading", "rulebook", "lost", "crash"} -> Nat]

InFlight(id) == pc = "push" /\ id = Rule.id

\* The cloud and the evaluator agree on every alarm whose latest change is not
\* on its way, was not lost and did not precede a restart: changes of rules and
\* readings under a push do not part them.
CloudAgrees ==
    \A id \in RuleIds :
        \/ shadow \/ InFlight(id) \/ id \in unsynced
        \/ cloud[id] = "open" <=> active[id]

\* "Triggers when the tag's latest telemetry reading is older than
\* threshold_value seconds": a communication loss is opened only for a tag
\* that was not polled for that long, or polled again under the evaluator's
\* own round, which does not see it.
LossMeansSilence ==
    [][\A r \in Rules :
          /\ r.kind = "communication_loss"
          /\ Visiting /\ Rule = r /\ ~active[r.id] /\ active'[r.id]
          => \/ clock - polled[r.tag] >= r.threshold
             \/ readings[r.tag] # seen[r.tag]]_vars

\* A rule the rounds get to: no rule before it raises.
Reached(k) ==
    /\ readings[rules[k].tag] # None
    /\ \A j \in 1..k :
          rules[j].kind = "malformed" => readings[rules[j].tag] = None

\* Once rules, readings and time stand still, every rule that is reached is
\* active exactly when it is triggered.
AlarmsSettle ==
    <>[](\A k \in DOMAIN rules : Reached(k) =>
            (active[rules[k].id] <=>
                Triggered(rules[k], readings[rules[k].tag])))
=============================================================================
