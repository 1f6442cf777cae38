--------------------------- MODULE EdgeAlarmsProofs ---------------------------
(***************************************************************************)
(* Proofs about EdgeAlarms, for any tags, values and rule lists, in shadow *)
(* mode and out of it.                                                     *)
(***************************************************************************)
EXTENDS EdgeAlarms, TLAPS, SequenceTheorems

\* A reading bears the time it was recorded at.
TimesKept ==
    \A tag \in Tags : readings[tag] # None => readings[tag].at = polled[tag]

\* Only out of shadow mode is anything pushed.
PushesOpenly == pc = "push" => ~shadow

IInv == TypeOK /\ CloudAgrees /\ TimesKept /\ PushesOpenly
-----------------------------------------------------------------------------
LEMMA BooksAreRules ==
    /\ \A book \in Rulebooks \cup {<<>>} : book \in Seq(Rules)
    /\ \A r \in Rules : r.id \in RuleIds /\ r.tag \in Tags
BY AlarmsAssumption, EmptySeq DEF RuleIds

\* The rule that is visited, or pushed.
LEMMA RuleAtHand ==
    ASSUME TypeOK, todo # <<>>
    PROVE  /\ Rule \in Rules /\ Tail(todo) \in Seq(Rules)
           /\ Rule.id \in RuleIds /\ Rule.tag \in Tags
<1>1. todo \in Seq(Rules)
  BY DEF TypeOK
<1>2. Rule \in Rules /\ Tail(todo) \in Seq(Rules)
  BY <1>1, HeadTailProperties DEF Rule
<1> QED
  BY <1>2, BooksAreRules

LEMMA UseCounts ==
    ASSUME TypeOK, NEW bound \in Nat,
           NEW event \in {"reading", "rulebook", "lost", "crash"},
           Use(event, bound)
    PROVE  used' \in [{"reading", "rulebook", "lost", "crash"} -> Nat]
BY DEF Use, TypeOK

LEMMA InitIInv == Init => IInv
<1> SUFFICES ASSUME Init PROVE IInv
  OBVIOUS
<1>1. TypeOK
  <2>1. todo \in Seq(Rules)
    BY EmptySeq DEF Init
  <2>2. used \in [{"reading", "rulebook", "lost", "crash"} -> Nat]
    BY DEF Init
  <2>3. 0 \in 0..MaxClock
    BY AlarmsAssumption
  <2> QED
    BY <2>1, <2>2, <2>3 DEF Init, TypeOK, Forgotten
<1>2. CloudAgrees /\ TimesKept /\ PushesOpenly
  BY DEF Init, CloudAgrees, TimesKept, PushesOpenly, Forgotten
<1> QED
  BY <1>1, <1>2 DEF IInv
-----------------------------------------------------------------------------
(* The other threads, and time.                                            *)

LEMMA RecordIInv ==
    ASSUME IInv, NEW tag \in Tags, NEW value \in Values,
           RecordLatestReading(tag, value)
    PROVE  IInv'
<1> USE DEF IInv, RecordLatestReading, evaluator
<1>1. used' \in [{"reading", "rulebook", "lost", "crash"} -> Nat]
  BY AlarmsAssumption, UseCounts
<1>2. TypeOK'
  BY <1>1 DEF TypeOK, Readings
<1>3. CloudAgrees' /\ PushesOpenly'
  BY DEF CloudAgrees, InFlight, Rule, PushesOpenly
<1>4. TimesKept'
  BY DEF TimesKept, TypeOK
<1> QED
  BY <1>2, <1>3, <1>4

LEMMA SetRulesIInv ==
    ASSUME IInv, NEW book \in Rulebooks, SetCurrentAlarmRules(book)
    PROVE  IInv'
<1> USE DEF IInv, SetCurrentAlarmRules, evaluator
<1>1. used' \in [{"reading", "rulebook", "lost", "crash"} -> Nat]
  BY AlarmsAssumption, UseCounts
<1>2. TypeOK'
  BY <1>1 DEF TypeOK
<1>3. CloudAgrees' /\ PushesOpenly' /\ TimesKept'
  BY DEF CloudAgrees, InFlight, Rule, PushesOpenly, TimesKept
<1> QED
  BY <1>2, <1>3

LEMMA TickIInv == ASSUME IInv, Tick PROVE IInv'
<1> USE DEF IInv, Tick, evaluator
<1>1. TypeOK'
  BY AlarmsAssumption DEF TypeOK
<1>2. CloudAgrees' /\ PushesOpenly' /\ TimesKept'
  BY DEF CloudAgrees, InFlight, Rule, PushesOpenly, TimesKept
<1> QED
  BY <1>1, <1>2
-----------------------------------------------------------------------------
(* The evaluator.                                                          *)

LEMMA SnapshotIInv == ASSUME IInv, SnapshotRules \/ SnapshotReadings PROVE IInv'
<1> USE DEF IInv, SnapshotRules, SnapshotReadings
<1>1. TypeOK'
  BY BooksAreRules DEF TypeOK
<1>2. CloudAgrees' /\ PushesOpenly' /\ TimesKept'
  BY DEF CloudAgrees, InFlight, PushesOpenly, TimesKept
<1> QED
  BY <1>1, <1>2

\* Visits that change no alarm, and the end of a round.
LEMMA QuietIInv ==
    ASSUME IInv, SkipUnread \/ RuleRaises \/ NoChange \/ EndRound
    PROVE  IInv'
<1> USE DEF IInv, SkipUnread, RuleRaises, NoChange, EndRound, Visiting, Idle
<1>1. UNCHANGED active /\ pc # "push" /\ pc' \in {"asleep", "rule"}
  OBVIOUS
<1>2. todo' \in Seq(Rules)
  BY RuleAtHand, EmptySeq DEF TypeOK
<1>3. TypeOK'
  BY <1>1, <1>2 DEF TypeOK
<1>4. CloudAgrees' /\ PushesOpenly' /\ TimesKept'
  BY <1>1 DEF CloudAgrees, InFlight, PushesOpenly, TimesKept
<1> QED
  BY <1>3, <1>4

LEMMA ChangeIInv == ASSUME IInv, OpenAlarm \/ CloseAlarm PROVE IInv'
<1> USE DEF IInv, Visiting, Idle
<1>1. PICK x \in BOOLEAN : active' = [active EXCEPT ![Rule.id] = x]
  BY DEF OpenAlarm, CloseAlarm
<1>2. Visiting /\ Report /\ Idle
  BY DEF OpenAlarm, CloseAlarm
<1>3. Rule.id \in RuleIds /\ Tail(todo) \in Seq(Rules)
  BY <1>2, RuleAtHand
<1>4. TypeOK'
  BY <1>1, <1>2, <1>3 DEF TypeOK, Report
<1>5. PushesOpenly' /\ TimesKept'
  BY <1>2 DEF PushesOpenly, TimesKept, Report
<1>6. CloudAgrees'
  <2> SUFFICES ASSUME NEW id \in RuleIds, ~shadow, id # Rule.id
               PROVE  (cloud[id] = "open" <=> active[id]) \/ id \in unsynced
    BY <1>1, <1>2, <1>3 DEF CloudAgrees, InFlight, Report, Rule, TypeOK
  <2> QED
    BY <1>2 DEF CloudAgrees, InFlight
<1> QED
  BY <1>4, <1>5, <1>6

LEMMA PushIInv == ASSUME IInv, PushArrives \/ PushLost PROVE IInv'
<1> USE DEF IInv
<1>1. /\ pc = "push" /\ pc' = "rule" /\ todo' = Tail(todo)
      /\ UNCHANGED <<shadow, rules, readings, active, seen, clock, polled>>
  BY DEF PushArrives, PushLost
<1>2. Rule.id \in RuleIds /\ Tail(todo) \in Seq(Rules)
  BY <1>1, RuleAtHand DEF TypeOK
<1>3. used' \in [{"reading", "rulebook", "lost", "crash"} -> Nat]
  BY AlarmsAssumption, UseCounts DEF PushArrives, PushLost, TypeOK
<1>4. cloud' \in [RuleIds -> {"open", "close"}] /\ unsynced' \subseteq RuleIds
  BY <1>2 DEF PushArrives, PushLost, TypeOK
<1>5. TypeOK'
  BY <1>1, <1>2, <1>3, <1>4 DEF TypeOK
<1>6. PushesOpenly' /\ TimesKept'
  BY <1>1 DEF PushesOpenly, TimesKept
<1>7. CloudAgrees'
  <2>1. CASE PushArrives
    BY <1>1, <1>2, <2>1 DEF PushArrives, CloudAgrees, InFlight, TypeOK
  <2>2. CASE PushLost
    BY <1>1, <2>2 DEF PushLost, CloudAgrees, InFlight
  <2> QED
    BY <2>1, <2>2
<1> QED
  BY <1>5, <1>6, <1>7

LEMMA RestartIInv ==
    ASSUME IInv, NEW book \in Rulebooks \cup {<<>>}, Restart(book)
    PROVE  IInv'
<1> USE DEF IInv, Restart
<1>1. used' \in [{"reading", "rulebook", "lost", "crash"} -> Nat]
  BY AlarmsAssumption, UseCounts
<1>2. pc = "push" => Rule.id \in RuleIds
  BY RuleAtHand DEF TypeOK
<1>3. TypeOK'
  BY <1>1, <1>2, EmptySeq DEF TypeOK, Forgotten
<1>4. PushesOpenly' /\ TimesKept'
  BY DEF PushesOpenly, TimesKept
<1>5. CloudAgrees'
  BY DEF CloudAgrees, InFlight, Forgotten
<1> QED
  BY <1>3, <1>4, <1>5

LEMMA NextIInv == IInv /\ [Next]_vars => IInv'
<1> SUFFICES ASSUME IInv, [Next]_vars PROVE IInv'
  OBVIOUS
<1>1. CASE UNCHANGED vars
  BY <1>1 DEF vars, IInv, TypeOK, CloudAgrees, InFlight, Rule, TimesKept,
     PushesOpenly
<1>2. CASE Evaluate
  BY <1>2, SnapshotIInv, QuietIInv, ChangeIInv, PushIInv DEF Evaluate
<1> QED
  BY <1>1, <1>2, RecordIInv, SetRulesIInv, TickIInv, RestartIInv DEF Next

\* The inductive invariant holds in every reachable state.
THEOREM InvariantHolds == Spec => []IInv
BY InitIInv, NextIInv, PTL DEF Spec
-----------------------------------------------------------------------------
\* The types of the evaluator's state and of the cloud's alarms.
THEOREM TypeCorrect == Spec => []TypeOK
<1>1. IInv => TypeOK
  BY DEF IInv
<1> QED
  BY InvariantHolds, <1>1, PTL

\* Whatever rules and readings do during a push, evaluate_all_rules and the
\* cloud part on an alarm only by a push that is lost or a restart.
THEOREM CloudInStep == Spec => []CloudAgrees
<1>1. IInv => CloudAgrees
  BY DEF IInv
<1> QED
  BY InvariantHolds, <1>1, PTL

\* _evaluate_condition opens a communication loss only for a tag that was
\* silent for the threshold, or whose new reading the round does not see.
THEOREM LossFromSilence == Spec => LossMeansSilence
<1>1. ASSUME IInv, Next, NEW r \in Rules, r.kind = "communication_loss",
             Visiting, Rule = r, ~active[r.id], active'[r.id],
             readings[r.tag] = seen[r.tag]
      PROVE  clock - polled[r.tag] >= r.threshold
  <2>1. r.id \in RuleIds /\ r.tag \in Tags
    BY BooksAreRules
  <2>2. OpenAlarm
    BY <1>1, <2>1 DEF Next, Evaluate, RecordLatestReading, SetCurrentAlarmRules,
       Tick, SnapshotRules, SnapshotReadings, SkipUnread, RuleRaises, NoChange,
       CloseAlarm, PushArrives, PushLost, EndRound, Restart, Forgotten,
       evaluator, Visiting, IInv, TypeOK
  <2>3. readings[r.tag] # None /\ clock - readings[r.tag].at >= r.threshold
    BY <1>1, <2>2 DEF OpenAlarm, Hit, Triggered
  <2> QED
    BY <1>1, <2>1, <2>3 DEF IInv, TimesKept
<1>2. IInv /\ [Next]_vars =>
        [\A r \in Rules :
            /\ r.kind = "communication_loss"
            /\ Visiting /\ Rule = r /\ ~active[r.id] /\ active'[r.id]
            => \/ clock - polled[r.tag] >= r.threshold
               \/ readings[r.tag] # seen[r.tag]]_vars
  BY <1>1
<1> QED
  BY InvariantHolds, <1>2, PTL DEF Spec, LossMeansSilence
-----------------------------------------------------------------------------
(* Rounds over rules and readings that stand still.                        *)

\* What is left to visit is the end of the rules.
Left ==
    /\ Len(todo) <= Len(rules)
    /\ \A i \in 1..Len(todo) : todo[i] = rules[Len(rules) - Len(todo) + i]

\* The alarm of a reached rule is as its reading says.
Right(k) ==
    Reached(k) => (active[rules[k].id] <=> Triggered(rules[k], readings[rules[k].tag]))

\* The rules that the round has visited, with the one being pushed.
Visited == IF pc = "push" THEN Len(rules) - Len(todo) + 1 ELSE Len(rules) - Len(todo)

\* A round that began after the last change sees what there is, and leaves
\* right what it has visited.
RoundSees ==
    /\ pc = "readings" => todo = rules
    /\ pc \in {"rule", "push"} =>
          seen = readings /\ Left /\ \A k \in 1..Visited : Right(k)
    /\ pc = "asleep" => \A k \in DOMAIN rules : Right(k)

Settled == \A k \in DOMAIN rules : Right(k)

LEMMA RulesAreList ==
    ASSUME TypeOK
    PROVE  /\ rules \in Seq(Rules) /\ Len(rules) \in Nat /\ DOMAIN rules = 1..Len(rules)
           /\ \A k \in DOMAIN rules :
                 /\ rules[k] \in Rules /\ rules[k].id \in RuleIds /\ rules[k].tag \in Tags
                 /\ rules[k].kind \in Kinds
           /\ \A j, k \in DOMAIN rules : rules[j].id = rules[k].id => j = k
<1>1. rules \in Seq(Rules)
  BY BooksAreRules DEF TypeOK
<1>2. Len(rules) \in Nat /\ DOMAIN rules = 1..Len(rules)
  BY <1>1, LenProperties
<1>3. \A k \in DOMAIN rules : rules[k] \in Rules
  BY <1>1, <1>2, ElementOfSeq
<1>4. \A j, k \in DOMAIN rules : rules[j].id = rules[k].id => j = k
  BY AlarmsAssumption DEF TypeOK
<1> QED
  BY <1>1, <1>2, <1>3, <1>4, BooksAreRules, AlarmsAssumption

\* The rule at hand is the one after those that are visited, and the rules after
\* it are left when the loop moves on.
LEMMA RuleInPlace ==
    ASSUME TypeOK, Left, todo # <<>>
    PROVE  LET n == Len(rules) - Len(todo) + 1
           IN /\ n \in DOMAIN rules /\ Rule = rules[n]
              /\ Tail(todo) \in Seq(Rules) /\ Len(Tail(todo)) = Len(todo) - 1
              /\ \A i \in 1..Len(Tail(todo)) :
                    Tail(todo)[i] = rules[Len(rules) - Len(Tail(todo)) + i]
<1>1. todo \in Seq(Rules) /\ Len(todo) \in Nat /\ Len(todo) >= 1
  BY LenProperties, EmptySeq DEF TypeOK
<1>2. /\ Rule = todo[1] /\ Tail(todo) \in Seq(Rules)
      /\ Len(Tail(todo)) = Len(todo) - 1
      /\ \A i \in 1..Len(Tail(todo)) : Tail(todo)[i] = todo[i + 1]
  BY <1>1, HeadTailProperties DEF Rule
<1>3. Len(rules) \in Nat /\ DOMAIN rules = 1..Len(rules)
  BY RulesAreList
<1>4. Rule = rules[Len(rules) - Len(todo) + 1]
  BY <1>1, <1>2 DEF Left
<1>5. ASSUME NEW i \in 1..Len(Tail(todo))
      PROVE  Tail(todo)[i] = rules[Len(rules) - Len(Tail(todo)) + i]
  <2>1. Tail(todo)[i] = rules[Len(rules) - Len(todo) + (i + 1)]
    BY <1>1, <1>2, <1>5 DEF Left
  <2>2. Len(rules) - Len(todo) + (i + 1) = Len(rules) - Len(Tail(todo)) + i
    BY <1>1, <1>2, <1>3
  <2> QED
    BY <2>1, <2>2
<1> QED
  BY <1>1, <1>2, <1>3, <1>4, <1>5 DEF Left

Place == Len(rules) - Len(todo) + 1

\* A change is made at the rule at hand only, which it leaves right.
LEMMA ChangeRights ==
    ASSUME TypeOK, RoundSees, OpenAlarm \/ CloseAlarm
    PROVE  \A k \in DOMAIN rules :
               IF k = Place THEN Right(k)' ELSE Right(k) <=> Right(k)'
<1>1. /\ pc = "rule" /\ todo # <<>> /\ seen = readings /\ Left
      /\ UNCHANGED <<rules, readings, clock>>
      /\ active' = [active EXCEPT ![Rule.id] = Hit]
  BY DEF OpenAlarm, CloseAlarm, Visiting, Idle, RoundSees, Hit, Triggered
<1>2. Place \in DOMAIN rules /\ Rule = rules[Place]
  BY <1>1, RuleInPlace DEF Place
<1>3. \A k \in DOMAIN rules :
          /\ Reached(k) <=> Reached(k)'
          /\ Triggered(rules[k], readings[rules[k].tag])
                <=> Triggered(rules[k], readings[rules[k].tag])'
  BY <1>1 DEF Reached, Triggered
<1>4. \A k \in DOMAIN rules : k # Place => active'[rules[k].id] = active[rules[k].id]
  BY <1>1, <1>2, RulesAreList DEF TypeOK
<1>5. active'[rules[Place].id] = Hit
  BY <1>1, <1>2, RulesAreList DEF TypeOK
<1>6. ASSUME NEW k \in DOMAIN rules, k # Place PROVE Right(k) <=> Right(k)'
  BY <1>1, <1>3, <1>4, <1>6 DEF Right
<1>7. ASSUME NEW k \in DOMAIN rules, k = Place PROVE Right(k)'
  <2>1. Hit <=> Triggered(rules[k], readings[rules[k].tag])
    BY <1>1, <1>2, <1>7 DEF Hit
  <2>2. active'[rules'[k].id] = Hit
    BY <1>1, <1>5, <1>7
  <2> QED
    BY <1>3, <2>1, <2>2 DEF Right
<1> QED
  BY <1>6, <1>7

LEMMA EvaluateKeepsRound == ASSUME TypeOK, RoundSees, Evaluate PROVE RoundSees'
<1>1. /\ Len(rules) \in Nat /\ DOMAIN rules = 1..Len(rules)
      /\ todo \in Seq(Rules) /\ Len(todo) \in Nat
  BY RulesAreList, LenProperties DEF TypeOK
<1>2. CASE SnapshotRules
  BY <1>2 DEF SnapshotRules, RoundSees
<1>3. CASE SnapshotReadings
  <2>1. pc' = "rule" /\ seen' = readings' /\ todo' = rules' /\ rules' = rules
    BY <1>3 DEF SnapshotReadings, RoundSees
  <2>2. Left' /\ Visited' = 0
    BY <1>1, <2>1 DEF Left, Visited
  <2> QED
    BY <2>1, <2>2 DEF RoundSees
<1>4. CASE PushArrives \/ PushLost
  <2>1. /\ pc = "push" /\ pc' = "rule" /\ todo # <<>> /\ todo' = Tail(todo)
        /\ UNCHANGED <<rules, readings, active, seen, clock>>
    BY <1>4 DEF PushArrives, PushLost, TypeOK
  <2>2. Left /\ seen = readings
    BY <2>1 DEF RoundSees
  <2>3. Left' /\ Visited' = Visited
    BY <1>1, <2>1, <2>2, RuleInPlace DEF Left, Visited
  <2> QED
    BY <2>1, <2>2, <2>3 DEF RoundSees, Right, Reached, Triggered
<1>5. CASE SkipUnread \/ NoChange
  <2>1. /\ pc = "rule" /\ pc' = "rule" /\ todo # <<>> /\ todo' = Tail(todo)
        /\ UNCHANGED <<rules, readings, active, seen, clock>>
    BY <1>5 DEF SkipUnread, NoChange, Visiting, Idle
  <2>2. Left /\ seen = readings /\ \A k \in 1..(Place - 1) : Right(k)
    BY <1>1, <2>1 DEF RoundSees, Visited, Place
  <2>3. Place \in DOMAIN rules /\ Rule = rules[Place] /\ Left' /\ Visited' = Place
    BY <1>1, <2>1, <2>2, RuleInPlace DEF Left, Visited, Place
  <2>4. Right(Place)
    BY <1>5, <2>2, <2>3 DEF SkipUnread, NoChange, Hit, Right, Reached
  <2>5. \A k \in 1..Place : Right(k)
    BY <1>1, <2>2, <2>3, <2>4
  <2> QED
    BY <2>1, <2>2, <2>3, <2>5 DEF RoundSees, Right, Reached, Triggered
<1>6. CASE OpenAlarm \/ CloseAlarm
  <2>1. /\ pc = "rule" /\ todo # <<>> /\ Report
        /\ UNCHANGED <<rules, readings, seen, clock>>
    BY <1>6 DEF OpenAlarm, CloseAlarm, Visiting, Idle
  <2>2. Left /\ seen = readings /\ \A k \in 1..(Place - 1) : Right(k)
    BY <1>1, <2>1 DEF RoundSees, Visited, Place
  <2>3. Place \in DOMAIN rules /\ Left' /\ Visited' = Place /\ pc' \in {"rule", "push"}
    <3>1. CASE todo' = Tail(todo) /\ pc' = pc
      BY <1>1, <2>1, <2>2, <3>1, RuleInPlace DEF Left, Visited, Place
    <3>2. CASE todo' = todo /\ pc' = "push"
      BY <1>1, <2>1, <2>2, <3>2, RuleInPlace DEF Left, Visited, Place
    <3> QED
      BY <2>1, <3>1, <3>2 DEF Report
  <2>4. ASSUME NEW k \in 1..Place PROVE Right(k)'
    <3>1. k \in DOMAIN rules /\ (k # Place => k \in 1..(Place - 1))
      BY <1>1, <2>3, <2>4
    <3> QED
      BY <1>6, <2>2, <3>1, ChangeRights
  <2> QED
    BY <2>1, <2>2, <2>3, <2>4 DEF RoundSees
<1>7. CASE RuleRaises
  <2>1. /\ pc = "rule" /\ pc' = "asleep" /\ todo # <<>>
        /\ UNCHANGED <<rules, readings, active, clock>>
        /\ Rule.kind = "malformed" /\ seen[Rule.tag] # None
    BY <1>7 DEF RuleRaises, Visiting, Idle
  <2>2. Left /\ seen = readings /\ \A k \in 1..(Place - 1) : Right(k)
    BY <1>1, <2>1 DEF RoundSees, Visited, Place
  <2>3. Place \in DOMAIN rules /\ Rule = rules[Place]
    BY <2>1, <2>2, RuleInPlace DEF Place
  <2>4. ASSUME NEW k \in DOMAIN rules, k >= Place PROVE Right(k)
    BY <1>1, <2>1, <2>2, <2>3, <2>4 DEF Right, Reached
  <2>5. \A k \in DOMAIN rules : Right(k)
    BY <1>1, <2>2, <2>3, <2>4
  <2> QED
    BY <2>1, <2>5 DEF RoundSees, Right, Reached, Triggered
<1>8. CASE EndRound
  <2>1. /\ pc = "rule" /\ pc' = "asleep" /\ todo = <<>>
        /\ UNCHANGED <<rules, readings, active, clock>>
    BY <1>8 DEF EndRound, Idle
  <2>2. Visited = Len(rules)
    BY <1>1, <2>1 DEF Visited
  <2>3. \A k \in DOMAIN rules : Right(k)
    BY <1>1, <2>1, <2>2 DEF RoundSees
  <2> QED
    BY <2>1, <2>3 DEF RoundSees, Right, Reached, Triggered
<1> QED
  BY <1>2, <1>3, <1>4, <1>5, <1>6, <1>7, <1>8 DEF Evaluate

LEMMA EvaluateKeepsSettled ==
    ASSUME TypeOK, RoundSees, Settled, Evaluate
    PROVE  Settled'
<1>1. UNCHANGED <<rules, readings, clock>>
  BY DEF Evaluate, SnapshotRules, SnapshotReadings, SkipUnread, RuleRaises, NoChange,
     OpenAlarm, CloseAlarm, PushArrives, PushLost, EndRound, Idle
<1>2. CASE UNCHANGED active
  BY <1>1, <1>2 DEF Settled, Right, Reached, Triggered
<1>3. CASE OpenAlarm \/ CloseAlarm
  <2>1. \A k \in DOMAIN rules : Right(k)'
    BY <1>3, ChangeRights DEF Settled
  <2> QED
    BY <1>1, <2>1 DEF Settled
<1>4. ~(OpenAlarm \/ CloseAlarm) => UNCHANGED active
  BY DEF Evaluate, SnapshotRules, SnapshotReadings, SkipUnread, RuleRaises,
     NoChange, PushArrives, PushLost, EndRound
<1> QED
  BY <1>2, <1>3, <1>4

\* When nothing is recorded, configured or restarted any more and the clock stands
\* still, evaluate_all_rules, called for ever, leaves the alarm of every rule it
\* gets to as the rule's reading says.
THEOREM AlarmsComeRight ==
    Spec /\ []<><<SnapshotRules>>_vars /\ <>[][Evaluate]_vars => AlarmsSettle
<1>1. IInv /\ <<SnapshotRules>>_vars => RoundSees'
  BY DEF SnapshotRules, RoundSees
<1>2. IInv /\ RoundSees /\ [Evaluate]_vars => RoundSees'
  <2>1. CASE UNCHANGED vars
    BY <2>1 DEF vars, RoundSees, Left, Visited, Right, Reached, Triggered
  <2> QED
    BY <2>1, EvaluateKeepsRound DEF IInv
<1>3. RoundSees /\ <<SnapshotRules>>_vars => Settled'
  BY DEF SnapshotRules, RoundSees, Settled, Right, Reached, Triggered
<1>4. IInv /\ RoundSees /\ Settled /\ [Evaluate]_vars => Settled'
  <2>1. CASE UNCHANGED vars
    BY <2>1 DEF vars, Settled, Right, Reached, Triggered
  <2> QED
    BY <2>1, EvaluateKeepsSettled DEF IInv
<1>5. Settled <=> \A k \in DOMAIN rules : Reached(k) =>
                     (active[rules[k].id] <=>
                         Triggered(rules[k], readings[rules[k].tag]))
  BY DEF Settled, Right
<1>6. Spec /\ []<><<SnapshotRules>>_vars /\ <>[][Evaluate]_vars => <>[]Settled
  BY <1>1, <1>2, <1>3, <1>4, InvariantHolds, PTL DEF Spec
<1> QED
  BY <1>5, <1>6, PTL DEF AlarmsSettle
-----------------------------------------------------------------------------
(* Why the rounds go on. What is left of one: two steps a rule, a visit    *)
(* and a push, and the two that lead up to the first rule.                 *)

RoundWork ==
    CASE pc = "push" -> 2 * Len(todo)
      [] pc = "rule" -> 2 * Len(todo) + 1
      [] pc = "readings" -> 2 * Len(todo) + 2
      [] OTHER -> 0

\* evaluator_worker has a step to take, wherever it is.
StepsCanBeTaken == ENABLED <<Evaluate>>_vars

Asleep == pc = "asleep"
InRound(n) == ~Asleep /\ RoundWork = n
FurtherOn(n) == ~Asleep /\ RoundWork < n

\* A visit is followed by the push of the same rule or by the next rule.
LEMMA EvaluateLowers ==
    ASSUME IInv, Evaluate, ~Asleep
    PROVE  Asleep' \/ (RoundWork' < RoundWork /\ ~Asleep')
<1> USE DEF Asleep, RoundWork
<1>1. Len(todo) \in Nat
  BY LenProperties DEF IInv, TypeOK
<1>2. todo # <<>> => Len(Tail(todo)) = Len(todo) - 1 /\ Len(todo) > 0
  BY HeadTailProperties, EmptySeq, LenProperties DEF IInv, TypeOK
<1>3. CASE SnapshotRules \/ RuleRaises \/ EndRound
  BY <1>3 DEF SnapshotRules, RuleRaises, EndRound
<1>4. CASE SnapshotReadings
  BY <1>1, <1>4 DEF SnapshotReadings
<1>5. CASE SkipUnread \/ NoChange
  BY <1>1, <1>2, <1>5 DEF SkipUnread, NoChange, Visiting
<1>6. CASE OpenAlarm \/ CloseAlarm
  BY <1>1, <1>2, <1>6 DEF OpenAlarm, CloseAlarm, Visiting, Report
<1>7. CASE PushArrives \/ PushLost
  <2>1. todo # <<>>
    BY <1>7 DEF IInv, TypeOK, PushArrives, PushLost
  <2> QED
    BY <1>1, <1>2, <1>7, <2>1 DEF PushArrives, PushLost
<1> QED
  BY <1>3, <1>4, <1>5, <1>6, <1>7 DEF Evaluate

LEMMA OthersLeaveRound ==
    ASSUME IInv, [Next]_vars, ~Evaluate
    PROVE  Asleep' \/ UNCHANGED <<pc, todo>>
BY DEF Next, RecordLatestReading, SetCurrentAlarmRules, Tick, Restart, evaluator, vars,
   Asleep

\* The recurrence AlarmsComeRight asks for: a sleep is followed by a round, and a
\* round ends or has less left, whatever rules, readings, lost pushes and restarts do
\* to it meanwhile.
THEOREM RoundsGoOn ==
    FairSpec /\ []StepsCanBeTaken =>
        /\ []<>Asleep => []<><<SnapshotRules>>_vars
        /\ \A n \in Nat : InRound(n) ~> Asleep \/ FurtherOn(n)
<1>1. FairSpec /\ []StepsCanBeTaken => ([]<>Asleep => []<><<SnapshotRules>>_vars)
  <2>1. Asleep /\ <<Evaluate>>_vars => <<SnapshotRules>>_vars
    BY DEF Asleep, Evaluate, SnapshotReadings, SkipUnread, RuleRaises, NoChange,
       OpenAlarm, CloseAlarm, PushArrives, PushLost, EndRound, Visiting
  <2>2. IInv /\ [Next]_vars /\ Asleep => Asleep' \/ <<Evaluate>>_vars
    <3>1. CASE Evaluate /\ vars' = vars
      BY <3>1 DEF Asleep, vars
    <3>2. CASE Evaluate /\ vars' # vars
      BY <3>2
    <3>3. CASE ~Evaluate
      BY <3>3, OthersLeaveRound DEF Asleep
    <3> QED
      BY <3>1, <3>2, <3>3
  <2>3. FairSpec /\ []StepsCanBeTaken => [](Asleep => <><<SnapshotRules>>_vars)
    BY <2>1, <2>2, InvariantHolds, PTL DEF FairSpec, StepsCanBeTaken, Spec
  <2> QED
    BY <2>3, PTL
<1>2. ASSUME NEW n \in Nat
      PROVE  FairSpec /\ []StepsCanBeTaken => (InRound(n) ~> Asleep \/ FurtherOn(n))
  <2>1. IInv /\ [Next]_vars /\ InRound(n) => InRound(n)' \/ Asleep' \/ FurtherOn(n)'
    <3> SUFFICES ASSUME IInv, [Next]_vars, InRound(n), ~Asleep'
                 PROVE  InRound(n)' \/ FurtherOn(n)'
      OBVIOUS
    <3>1. CASE Evaluate
      BY <3>1, EvaluateLowers DEF InRound, FurtherOn
    <3>2. CASE ~Evaluate
      <4>1. UNCHANGED <<pc, todo>>
        BY <3>2, OthersLeaveRound
      <4>2. UNCHANGED RoundWork
        BY <4>1 DEF RoundWork
      <4> QED
        BY <4>2 DEF InRound
    <3> QED
      BY <3>1, <3>2
  <2>2. IInv /\ InRound(n) /\ <<Evaluate>>_vars => Asleep' \/ FurtherOn(n)'
    BY EvaluateLowers DEF InRound, FurtherOn
  <2> QED
    BY <2>1, <2>2, InvariantHolds, PTL DEF FairSpec, StepsCanBeTaken, Spec
<1> QED
  BY <1>1, <1>2

\* The rule by which the steps of RoundsGoOn make a round that ends, the induction on
\* the naturals: every behaviour has it, and the provers cannot show it.
RoundDescent ==
    (\A n \in Nat : InRound(n) ~> Asleep \/ \E m \in 0..(n - 1) : InRound(m))
    => ((\E n \in Nat : InRound(n)) ~> Asleep)

\* Alarms come right under fairness alone, once nothing but the evaluator moves.
COROLLARY AlarmsComeRightFairly ==
    FairSpec /\ []StepsCanBeTaken /\ RoundDescent /\ <>[][Evaluate]_vars => AlarmsSettle
<1>1. IInv => Asleep \/ RoundWork \in Nat
  BY LenProperties DEF IInv, TypeOK, Asleep, RoundWork
<1>2. ASSUME NEW n \in Nat
      PROVE  FairSpec /\ []StepsCanBeTaken =>
                (InRound(n) ~> Asleep \/ \E m \in 0..(n - 1) : InRound(m))
  <2>1. FairSpec /\ []StepsCanBeTaken => (InRound(n) ~> Asleep \/ FurtherOn(n))
    BY RoundsGoOn
  <2>2. IInv /\ FurtherOn(n) => \E m \in 0..(n - 1) : InRound(m)
    BY <1>1 DEF FurtherOn, InRound
  <2> QED
    BY <2>1, <2>2, InvariantHolds, PTL DEF FairSpec, Spec
<1>3. FairSpec /\ []StepsCanBeTaken =>
        \A n \in Nat : InRound(n) ~> Asleep \/ \E m \in 0..(n - 1) : InRound(m)
  BY <1>2
<1>4. IInv => Asleep \/ \E n \in Nat : InRound(n)
  BY <1>1 DEF InRound
<1>5. FairSpec /\ []StepsCanBeTaken => ([]<>Asleep => []<><<SnapshotRules>>_vars)
  BY RoundsGoOn
<1> QED
  BY <1>3, <1>4, <1>5, AlarmsComeRight, InvariantHolds, PTL
     DEF FairSpec, Spec, RoundDescent
=============================================================================
