-------------------------- MODULE DeviceStatusProofs --------------------------
(***************************************************************************)
(* DeviceStatus for any set of devices and any number of changes, failing  *)
(* reads and deaths.                                                       *)
(***************************************************************************)
EXTENDS DeviceStatus, FiniteSetTheorems, TLAPS

\* What this round's visits found is what DEVICE_STATUS says now.
FoundIsStatus ==
    \A d \in DOMAIN found : d \in DOMAIN status /\ status[d] = found[d]

IInv == TypeOK /\ FoundIsStatus

\* A dictionary of statuses with one entry more, or changed, is one.
LEMMA PutType ==
    \A s \in Statuses, d \in Devices, v \in {"connected", "failed"} :
        Put(s, d, v) \in Statuses
<1> SUFFICES ASSUME NEW s \in Statuses, NEW d \in Devices,
                    NEW v \in {"connected", "failed"}
             PROVE  Put(s, d, v) \in Statuses
  OBVIOUS
<1>1. PICK S \in SUBSET Devices : s \in [S -> {"connected", "failed"}]
  BY DEF Statuses
<1>2. Put(s, d, v) \in [S \cup {d} -> {"connected", "failed"}]
  BY <1>1 DEF Put
<1>3. S \cup {d} \in SUBSET Devices
  BY <1>1
<1> QED
  BY <1>2, <1>3 DEF Statuses

LEMMA NothingType == Nothing \in Statuses /\ DOMAIN Nothing = {}
<1>1. Nothing \in [{} -> {"connected", "failed"}]
  BY DEF Nothing
<1>2. {} \in SUBSET Devices
  OBVIOUS
<1> QED
  BY <1>1, <1>2 DEF Statuses

\* The counts of a snapshot are at most the number of devices.
LEMMA CountsType ==
    ASSUME NEW s \in Statuses
    PROVE  CountsOf(s) \in Pair
<1>1. \A v : With(s, v) \subseteq Devices
  BY DEF Statuses, With
<1>2. IsFiniteSet(Devices)
  BY StatusAssumption
<1>3. \A v : Cardinality(With(s, v)) \in 0..Cardinality(Devices)
  <2> SUFFICES ASSUME NEW v
               PROVE  Cardinality(With(s, v)) \in 0..Cardinality(Devices)
    OBVIOUS
  <2>1. IsFiniteSet(With(s, v)) /\ Cardinality(With(s, v)) <= Cardinality(Devices)
    BY <1>1, <1>2, FS_Subset
  <2>2. Cardinality(With(s, v)) \in Nat /\ Cardinality(Devices) \in Nat
    BY <1>2, <2>1, FS_CardinalityType
  <2> QED
    BY <2>1, <2>2
<1> QED
  BY <1>3 DEF CountsOf, Pair

LEMMA ZeroPair == <<0, 0>> \in Pair
<1>1. Cardinality(Devices) \in Nat
  BY StatusAssumption, FS_CardinalityType
<1> QED
  BY <1>1 DEF Pair
-----------------------------------------------------------------------------
LEMMA InitIInv == Init => IInv
BY StatusAssumption, NothingType, ZeroPair DEF Init, IInv, TypeOK, FoundIsStatus

\* A visit sets status and found together, or neither.
LEMMA VisitIInv ==
    ASSUME IInv, NEW d \in Devices,
           VisitConnects(d) \/ VisitFails(d) \/ VisitSkips(d)
    PROVE  IInv'
<1>1. /\ todo' = todo \ {d} /\ phase' = phase
      /\ UNCHANGED <<config, opens, file, health, faults>>
  BY DEF VisitConnects, VisitFails, VisitSkips, Visited
<1>2. CASE UNCHANGED <<status, found>>
  BY <1>1, <1>2 DEF IInv, TypeOK, FoundIsStatus, health
<1>3. ASSUME NEW v \in {"connected", "failed"},
             status' = Put(status, d, v), found' = Put(found, d, v)
      PROVE  IInv'
  <2>1. status \in Statuses /\ found \in Statuses
    BY DEF IInv, TypeOK
  <2>2. /\ status' \in Statuses /\ DOMAIN status' = DOMAIN status \cup {d}
        /\ \A e \in DOMAIN status \cup {d} :
              status'[e] = IF e = d THEN v ELSE status[e]
    <3>1. Put(status, d, v) \in Statuses
      BY <2>1, PutType
    <3>2. DOMAIN Put(status, d, v) = DOMAIN status \cup {d}
      BY DEF Put
    <3>3. \A e \in DOMAIN status \cup {d} :
            Put(status, d, v)[e] = IF e = d THEN v ELSE status[e]
      BY DEF Put
    <3> QED
      BY <1>3, <3>1, <3>2, <3>3
  <2>3. /\ found' \in Statuses /\ DOMAIN found' = DOMAIN found \cup {d}
        /\ \A e \in DOMAIN found \cup {d} :
              found'[e] = IF e = d THEN v ELSE found[e]
    <3>1. Put(found, d, v) \in Statuses
      BY <2>1, PutType
    <3>2. DOMAIN Put(found, d, v) = DOMAIN found \cup {d}
      BY DEF Put
    <3>3. \A e \in DOMAIN found \cup {d} :
            Put(found, d, v)[e] = IF e = d THEN v ELSE found[e]
      BY DEF Put
    <3> QED
      BY <1>3, <3>1, <3>2, <3>3
  <2>4. TypeOK'
    BY <1>1, <2>2, <2>3 DEF IInv, TypeOK, health
  <2>5. FoundIsStatus'
    <3> SUFFICES ASSUME NEW e \in DOMAIN found'
                 PROVE  e \in DOMAIN status' /\ status'[e] = found'[e]
      BY DEF FoundIsStatus
    <3>1. CASE e = d
      BY <2>2, <2>3, <3>1
    <3>2. CASE e # d
      <4>1. e \in DOMAIN found /\ found'[e] = found[e]
        BY <2>3, <3>2
      <4>2. e \in DOMAIN status /\ status[e] = found[e]
        BY <4>1 DEF IInv, FoundIsStatus
      <4> QED
        BY <2>2, <3>2, <4>1, <4>2
    <3> QED
      BY <3>1, <3>2
  <2> QED
    BY <2>4, <2>5 DEF IInv
<1> QED
  BY <1>2, <1>3 DEF VisitConnects, VisitFails, VisitSkips

\* The other steps of the main loop, and its death.
LEMMA RoundIInv ==
    ASSUME IInv, StartRound \/ WriteSnapshot \/ NoSnapshot \/ Crash
    PROVE  IInv'
<1>1. CASE StartRound
  BY <1>1 DEF StartRound, IInv, TypeOK, FoundIsStatus, health
<1>2. CASE WriteSnapshot \/ NoSnapshot
  BY <1>2, NothingType
     DEF WriteSnapshot, NoSnapshot, EndRound, IInv, TypeOK, FoundIsStatus, health
<1>3. CASE Crash
  BY <1>3, NothingType, StatusAssumption
     DEF Crash, IInv, TypeOK, FoundIsStatus, health
<1> QED
  BY <1>1, <1>2, <1>3

\* The reporter, and what happens around both.
LEMMA OthersIInv ==
    ASSUME IInv,
           \/ ReadCounts \/ ReadFails \/ PostHealth \/ PostFails
           \/ SetConfiguration \/ DeviceComesOrGoes \/ UNCHANGED vars
    PROVE  IInv'
<1>1. FoundIsStatus'
  BY DEF IInv, FoundIsStatus, ReadCounts, ReadFails, PostHealth, PostFails,
         SetConfiguration, DeviceComesOrGoes, vars, poller
<1>2. file # NoFile => CountsOf(file) \in Pair
  BY CountsType DEF IInv, TypeOK
<1>3. counts' \in Pair /\ cloud' \in Pair /\ reporter' \in {"sleep", "post"}
  BY <1>2, ZeroPair DEF IInv, TypeOK, ReadCounts, ReadFails, PostHealth, PostFails,
         SetConfiguration, DeviceComesOrGoes, vars, poller, health
<1>4. faults' \in [config : 0..MaxChanges, device : 0..MaxChanges,
                   fault : 0..MaxFaults]
  BY StatusAssumption DEF IInv, TypeOK, ReadCounts, ReadFails, PostHealth,
         PostFails, SetConfiguration, DeviceComesOrGoes, vars
<1>5. TypeOK'
  BY <1>3, <1>4 DEF IInv, TypeOK, ReadCounts, ReadFails, PostHealth, PostFails,
         SetConfiguration, DeviceComesOrGoes, vars, poller, health
<1> QED
  BY <1>1, <1>5 DEF IInv

LEMMA Inductive == IInv /\ [Next]_vars => IInv'
BY VisitIInv, RoundIInv, OthersIInv DEF Next

\* Types, for any set of devices.
THEOREM TypeCorrect == Spec => []TypeOK
<1>1. IInv => TypeOK
  BY DEF IInv
<1> QED
  BY InitIInv, Inductive, <1>1, PTL DEF Spec

\* Every snapshot says of a device what the round before it found.
THEOREM SnapshotsOfTheirRounds == Spec => SnapshotOfItsRound
<1>1. IInv /\ [Next]_vars =>
        [file' # file =>
            \A d \in DOMAIN found : d \in DOMAIN file' /\ file'[d] = found[d]]_vars
  <2> SUFFICES ASSUME IInv, Next, file' # file
               PROVE  \A d \in DOMAIN found :
                          d \in DOMAIN file' /\ file'[d] = found[d]
    BY DEF vars
  <2>1. file' = status
    BY DEF Next, StartRound, VisitConnects, VisitFails, VisitSkips, Visited,
           WriteSnapshot, NoSnapshot, Crash, ReadCounts, ReadFails, PostHealth,
           PostFails, SetConfiguration, DeviceComesOrGoes
  <2> QED
    BY <2>1 DEF IInv, FoundIsStatus
<1> QED
  BY InitIInv, Inductive, <1>1, PTL DEF Spec, SnapshotOfItsRound
-----------------------------------------------------------------------------
(* Rounds and reports over a configuration and devices that stand still.   *)

\* The steps of both processes when no command takes a device and nothing fails
\* but the write of a snapshot and the post of a report.
CalmStep ==
    \/ StartRound \/ \E d \in Devices : Visit(d)
    \/ WriteSnapshot \/ NoSnapshot
    \/ ReadCounts \/ PostHealth \/ PostFails

\* The status of a device is as a visit would find it.
Known(d) ==
    d \in DOMAIN status /\ status[d] = IF d \in opens THEN "connected" ELSE "failed"

\* A round over the configuration as it is, and what it has visited.
RoundKnows ==
    phase = "visit" => todo \subseteq config /\ \A d \in config \ todo : Known(d)

AllKnown == \A d \in config : Known(d)

\* The snapshot, the payload, and what the cloud holds, one after the other.
Written == AllKnown /\ file = status
Counted == Written /\ (reporter = "post" => counts = CountsOf(status))
Reported == Counted /\ cloud = CountsOf(status)

\* Nothing the reporter does touches what the poller knows.
LEMMA ReporterApart ==
    ASSUME ReadCounts \/ PostHealth \/ PostFails \/ UNCHANGED vars
    PROVE  UNCHANGED <<config, opens, status, phase, todo, file>>
BY DEF ReadCounts, PostHealth, PostFails, vars, poller

\* A visit makes its device known and leaves the others as they are.
LEMMA VisitKnows ==
    ASSUME NEW d \in Devices, Visit(d)
    PROVE  /\ UNCHANGED <<config, opens, phase, file, health>> /\ phase = "visit"
           /\ todo' = todo \ {d} /\ Known(d)'
           /\ \A e : Known(e) => Known(e)'
BY DEF Visit, VisitConnects, VisitFails, Visited, Put, Known

LEMMA CalmKeepsRound ==
    ASSUME RoundKnows, [CalmStep]_vars
    PROVE  RoundKnows'
<1>1. CASE \E d \in Devices : Visit(d)
  <2>1. PICK d \in Devices : Visit(d)
    BY <1>1
  <2>2. \A e \in config \ (todo \ {d}) : e = d \/ e \in config \ todo
    OBVIOUS
  <2> QED
    BY <2>1, <2>2, VisitKnows DEF RoundKnows
<1>2. CASE StartRound
  BY <1>2 DEF StartRound, RoundKnows
<1>3. CASE WriteSnapshot \/ NoSnapshot
  BY <1>3 DEF WriteSnapshot, NoSnapshot, EndRound, RoundKnows
<1>4. CASE ReadCounts \/ PostHealth \/ PostFails \/ UNCHANGED vars
  BY <1>4, ReporterApart DEF RoundKnows, Known
<1> QED
  BY <1>1, <1>2, <1>3, <1>4 DEF CalmStep

\* Once every device of the configuration is known, visits change nothing.
LEMMA CalmKeepsStatus ==
    ASSUME IInv, RoundKnows, AllKnown, [CalmStep]_vars
    PROVE  AllKnown' /\ status' = status
<1>1. CASE \E d \in Devices : Visit(d)
  <2>1. PICK d \in Devices : Visit(d)
    BY <1>1
  <2>2. AllKnown'
    BY <2>1, VisitKnows DEF AllKnown
  <2>3. status' = status
    <3>1. Known(d)
      BY <2>1 DEF AllKnown, RoundKnows, Visit, VisitConnects, VisitFails, Visited
    <3>2. status' = Put(status, d, status[d])
      BY <2>1, <3>1 DEF Visit, VisitConnects, VisitFails, Known
    <3>3. status = [e \in DOMAIN status |-> status[e]]
      BY DEF IInv, TypeOK, Statuses
    <3> QED
      BY <3>1, <3>2, <3>3 DEF Put, Known
  <2> QED
    BY <2>2, <2>3
<1>2. CASE StartRound \/ WriteSnapshot \/ NoSnapshot
  BY <1>2 DEF StartRound, WriteSnapshot, NoSnapshot, EndRound, AllKnown, Known
<1>3. CASE ReadCounts \/ PostHealth \/ PostFails \/ UNCHANGED vars
  BY <1>3, ReporterApart DEF AllKnown, Known
<1> QED
  BY <1>1, <1>2, <1>3 DEF CalmStep

\* The end of a round with a snapshot: the next round begins afresh, and when this
\* one knew all it visited, the snapshot says it.
LEMMA SnapshotSteps ==
    ASSUME WriteSnapshot
    PROVE  RoundKnows' /\ (RoundKnows => Written')
BY DEF WriteSnapshot, EndRound, RoundKnows, AllKnown, Known, Written

LEMMA CalmKeepsWritten ==
    ASSUME IInv, RoundKnows, Written, [CalmStep]_vars
    PROVE  Written' /\ status' = status
<1>1. AllKnown' /\ status' = status
  BY CalmKeepsStatus DEF Written
<1>2. file' = status
  BY DEF Written, CalmStep, StartRound, Visit, VisitConnects, VisitFails, Visited,
     WriteSnapshot, NoSnapshot, EndRound, ReadCounts, PostHealth, PostFails, vars
<1> QED
  BY <1>1, <1>2 DEF Written

\* A snapshot that is there, read and posted.
LEMMA ReportSteps ==
    ASSUME IInv, RoundKnows, Written, [CalmStep]_vars
    PROVE  /\ PostHealth => Counted' /\ (Counted => Reported')
           /\ Counted => Counted'
           /\ Reported => Reported'
<1>1. Written' /\ status' = status
  BY CalmKeepsWritten
<1>2. file # NoFile
  <2>1. PICK S \in SUBSET Devices : status \in [S -> {"connected", "failed"}]
    BY DEF IInv, TypeOK, Statuses
  <2> QED
    BY <2>1, StatusAssumption DEF Written
<1>3. CASE ReadCounts
  BY <1>1, <1>2, <1>3 DEF ReadCounts, PostHealth, Counted, Reported, Written
<1>4. CASE PostHealth
  BY <1>1, <1>4 DEF PostHealth, Counted, Reported
<1>5. CASE PostFails
  BY <1>1, <1>5 DEF PostFails, PostHealth, Counted, Reported
<1>6. CASE UNCHANGED health
  BY <1>1, <1>6 DEF PostHealth, Counted, Reported, health
<1> QED
  BY <1>3, <1>4, <1>5, <1>6 DEF CalmStep, StartRound, Visit, VisitConnects,
     VisitFails, Visited, WriteSnapshot, NoSnapshot, EndRound, vars

\* The numbers of a report, in terms of configuration and devices.
LEMMA ReportSays ==
    ASSUME Reported
    PROVE  cloud = <<Cardinality((config \cap opens)
                                 \cup (Ghosts \cap With(status, "connected"))),
                     Cardinality((config \ opens)
                                 \cup (Ghosts \cap With(status, "failed")))>>
<1>1. AllKnown /\ cloud = CountsOf(status)
  BY DEF Reported, Counted, Written
<1>2. With(status, "connected")
        = (config \cap opens) \cup (Ghosts \cap With(status, "connected"))
  BY <1>1 DEF AllKnown, Known, Ghosts, With
<1>3. With(status, "failed")
        = (config \ opens) \cup (Ghosts \cap With(status, "failed"))
  BY <1>1 DEF AllKnown, Known, Ghosts, With
<1> QED
  BY <1>1, <1>2, <1>3 DEF CountsOf

\* A poller that writes its snapshot again and again and a reporter whose posts
\* arrive again and again bring the real device counts to the cloud, and keep
\* them there, once configuration and devices stand still, no command takes a
\* device, the snapshot can be read and the poller does not die any more.
THEOREM CountsComeRight ==
    /\ Spec
    /\ []<><<WriteSnapshot>>_vars /\ []<><<PostHealth>>_vars
    /\ <>[][CalmStep]_vars
    => ReportsSettle
<1>1. <<WriteSnapshot>>_vars => RoundKnows' /\ (RoundKnows => Written')
  BY SnapshotSteps
<1>2. RoundKnows /\ [CalmStep]_vars => RoundKnows'
  BY CalmKeepsRound
<1>3. IInv /\ RoundKnows /\ Written /\ [CalmStep]_vars => Written'
  BY CalmKeepsWritten
<1>4. IInv /\ RoundKnows /\ Written /\ <<PostHealth>>_vars /\ [CalmStep]_vars
        => Counted' /\ (Counted => Reported')
  BY ReportSteps
<1>5. IInv /\ RoundKnows /\ Written /\ [CalmStep]_vars
        => (Counted => Counted') /\ (Reported => Reported')
  BY ReportSteps
<1>6. /\ Spec
      /\ []<><<WriteSnapshot>>_vars /\ []<><<PostHealth>>_vars
      /\ <>[][CalmStep]_vars
      => <>[]Reported
  BY <1>1, <1>2, <1>3, <1>4, <1>5, InitIInv, Inductive, PTL DEF Spec
<1> QED
  BY <1>6, ReportSays, PTL DEF ReportsSettle
-----------------------------------------------------------------------------
(* Why snapshots are written and reports posted again and again.           *)

VisitOne == \E d \in Devices : Visit(d) \/ VisitSkips(d)

\* The steps fairness speaks of can be taken where their process is.
StepsCanBeTaken ==
    /\ phase = "sleep" => ENABLED <<StartRound>>_vars
    /\ phase = "visit" /\ todo # {} => ENABLED <<VisitOne>>_vars
    /\ phase = "visit" /\ todo = {} => ENABLED <<WriteSnapshot>>_vars
    /\ reporter = "sleep" => ENABLED <<ReadCounts>>_vars
    /\ reporter = "post" => ENABLED <<PostHealth>>_vars

Asleep == phase = "sleep"
RoundOver == phase = "visit" /\ todo = {}
VisitsLeft(n) == phase = "visit" /\ todo # {} /\ Cardinality(todo) = n
FewerLeft(n) == phase = "visit" /\ todo # {} /\ Cardinality(todo) < n
Posting == reporter = "post"

\* What a step leaves of a round; a visit leaves one device less.
LEMMA RoundSteps ==
    ASSUME IInv, Next, ~Crash, NEW n \in Nat, VisitsLeft(n)
    PROVE  /\ VisitsLeft(n)' \/ RoundOver' \/ FewerLeft(n)'
           /\ VisitOne => RoundOver' \/ FewerLeft(n)'
<1>1. ASSUME NEW d \in Devices, Visited(d) PROVE RoundOver' \/ FewerLeft(n)'
  <2>1. IsFiniteSet(todo)
    BY StatusAssumption, FS_Subset DEF IInv, TypeOK
  <2>2. Cardinality(todo \ {d}) = Cardinality(todo) - 1
    BY <1>1, <2>1, FS_RemoveElement DEF Visited
  <2> QED
    BY <1>1, <2>2 DEF Visited, VisitsLeft, RoundOver, FewerLeft
<1>2. VisitOne => \E d \in Devices : Visited(d)
  BY DEF VisitOne, Visit, VisitConnects, VisitFails, VisitSkips
<1>3. CASE UNCHANGED <<phase, todo>>
  BY <1>1, <1>2, <1>3 DEF VisitsLeft
<1> QED
  BY <1>1, <1>2, <1>3
     DEF Next, StartRound, VisitConnects, VisitFails, VisitSkips, WriteSnapshot,
     NoSnapshot, EndRound, ReadCounts, ReadFails, PostHealth, PostFails,
     SetConfiguration, DeviceComesOrGoes, poller, VisitsLeft

\* The recurrences CountsComeRight asks for. Reports arrive again and again. The
\* poller begins round after round; from the moment it dies no more, a round ends or
\* has fewer visits left, whatever commands skip and devices do; and rounds that end
\* again and again write a snapshot again and again.
THEOREM RoundsAndReportsGoOn ==
    FairSpec /\ []StepsCanBeTaken =>
        /\ []<><<PostHealth>>_vars
        /\ Asleep ~> ~Asleep
        /\ \A n \in Nat :
              []([][~Crash]_vars => (VisitsLeft(n) ~> RoundOver \/ FewerLeft(n)))
        /\ []<>RoundOver => []<><<WriteSnapshot>>_vars
<1>1. FairSpec /\ []StepsCanBeTaken => []<><<PostHealth>>_vars
  <2>1. IInv => Posting \/ reporter = "sleep"
    BY DEF IInv, TypeOK, Posting
  <2>2. <<ReadCounts>>_vars => Posting'
    BY DEF ReadCounts, Posting
  <2>3. StepsCanBeTaken =>
            /\ Posting => ENABLED <<PostHealth>>_vars
            /\ reporter = "sleep" => ENABLED <<ReadCounts>>_vars
    BY DEF StepsCanBeTaken, Posting
  <2> QED
    BY <2>1, <2>2, <2>3, InitIInv, Inductive, PTL DEF FairSpec, Fairness, Spec
<1>2. FairSpec /\ []StepsCanBeTaken => (Asleep ~> ~Asleep)
  <2>1. <<StartRound>>_vars => ~Asleep'
    BY DEF StartRound, Asleep
  <2>2. StepsCanBeTaken /\ Asleep => ENABLED <<StartRound>>_vars
    BY DEF StepsCanBeTaken, Asleep
  <2> QED
    BY <2>1, <2>2, PTL DEF FairSpec, Fairness
<1>3. FairSpec /\ []StepsCanBeTaken /\ []<>RoundOver => []<><<WriteSnapshot>>_vars
  <2>1. StepsCanBeTaken /\ RoundOver => ENABLED <<WriteSnapshot>>_vars
    BY DEF StepsCanBeTaken, RoundOver
  <2> QED
    BY <2>1, PTL DEF FairSpec, Fairness
<1>4. ASSUME NEW n \in Nat
      PROVE  FairSpec /\ []StepsCanBeTaken =>
                []([][~Crash]_vars => (VisitsLeft(n) ~> RoundOver \/ FewerLeft(n)))
  <2>1. IInv /\ [Next]_vars /\ [~Crash]_vars /\ VisitsLeft(n)
          => VisitsLeft(n)' \/ RoundOver' \/ FewerLeft(n)'
    <3>1. UNCHANGED vars => (VisitsLeft(n) => VisitsLeft(n)')
      BY DEF vars, poller, VisitsLeft
    <3> QED
      BY <3>1, RoundSteps
  <2>2. IInv /\ [~Crash]_vars /\ VisitsLeft(n) /\ <<VisitOne>>_vars
          => RoundOver' \/ FewerLeft(n)'
    <3>1. VisitOne => Next
      BY DEF VisitOne, Visit, Next
    <3> QED
      BY <3>1, RoundSteps
  <2>3. StepsCanBeTaken /\ VisitsLeft(n) => ENABLED <<VisitOne>>_vars
    BY DEF StepsCanBeTaken, VisitsLeft
  <2>4. FairSpec => WF_vars(VisitOne)
    BY PTL DEF FairSpec, Fairness, VisitOne
  <2> QED
    BY <2>1, <2>2, <2>3, <2>4, InitIInv, Inductive, PTL DEF FairSpec, Spec
<1> QED
  BY <1>1, <1>2, <1>3, <1>4

\* The rule by which the visits of a round lead to its end, the induction on the
\* naturals, from a moment the poller dies no more: every behaviour has it, and the
\* provers cannot show it.
Undying(n) == [][~Crash]_vars /\ VisitsLeft(n)
RoundDescent ==
    (\A n \in Nat : Undying(n) ~> RoundOver \/ \E m \in 0..(n - 1) : VisitsLeft(m))
    => ((\E n \in Nat : Undying(n)) ~> RoundOver)

\* The real device counts reach the cloud under fairness alone, once the calm has come.
COROLLARY CountsComeRightFairly ==
    FairSpec /\ []StepsCanBeTaken /\ RoundDescent /\ <>[][CalmStep]_vars => ReportsSettle
<1>1. IInv => Cardinality(todo) \in Nat
  BY StatusAssumption, FS_Subset, FS_CardinalityType DEF IInv, TypeOK
<1>2. ASSUME NEW n \in Nat
      PROVE  FairSpec /\ []StepsCanBeTaken =>
                (Undying(n) ~> RoundOver \/ \E m \in 0..(n - 1) : VisitsLeft(m))
  <2>1. FairSpec /\ []StepsCanBeTaken =>
            []([][~Crash]_vars => (VisitsLeft(n) ~> RoundOver \/ FewerLeft(n)))
    BY RoundsAndReportsGoOn
  <2>2. IInv /\ FewerLeft(n) => \E m \in 0..(n - 1) : VisitsLeft(m)
    BY <1>1 DEF FewerLeft, VisitsLeft
  <2> QED
    BY <2>1, <2>2, InitIInv, Inductive, PTL DEF FairSpec, Spec, Undying
<1>3. FairSpec /\ []StepsCanBeTaken =>
        \A n \in Nat : Undying(n) ~> RoundOver \/ \E m \in 0..(n - 1) : VisitsLeft(m)
  BY <1>2
<1>4. IInv => Asleep \/ RoundOver \/ \E n \in Nat : VisitsLeft(n)
  BY <1>1 DEF IInv, TypeOK, Asleep, RoundOver, VisitsLeft
<1>5. [][~Crash]_vars /\ (\E n \in Nat : VisitsLeft(n)) => \E n \in Nat : Undying(n)
  BY DEF Undying
<1>6. IInv /\ [CalmStep]_vars => [~Crash]_vars
  <2>1. ASSUME IInv, Crash PROVE faults' # faults
    <3>1. faults.fault \in Nat /\ faults'.fault = faults.fault + 1
      BY <2>1, StatusAssumption DEF IInv, TypeOK, Crash
    <3> QED
      BY <3>1
  <2> QED
    BY <2>1 DEF CalmStep, StartRound, Visit, VisitConnects, VisitFails, Visited,
       WriteSnapshot, NoSnapshot, EndRound, ReadCounts, PostHealth, PostFails, vars
<1>7. FairSpec /\ []StepsCanBeTaken =>
        /\ []<><<PostHealth>>_vars /\ (Asleep ~> ~Asleep)
        /\ []<>RoundOver => []<><<WriteSnapshot>>_vars
  BY RoundsAndReportsGoOn
<1> QED
  BY <1>3, <1>4, <1>5, <1>6, <1>7, CountsComeRight, InitIInv, Inductive, PTL
     DEF FairSpec, Spec, RoundDescent
=============================================================================
