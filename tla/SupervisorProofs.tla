--------------------------- MODULE SupervisorProofs ---------------------------
(***************************************************************************)
(* Proofs about Supervisor, for any number of components and any number of *)
(* stop signals, nested to any depth.                                      *)
(***************************************************************************)
EXTENDS Supervisor, TLAPS, SequenceTheorems, WellFoundedInduction

States == {"alive", "dying", "wedged", "exited"}
Frames == [loop : {"terminate", "wait"}, at : Components]

\* component["process"] is the newest process, except inside start_process.
ChildIsNewest ==
    \A c \in Components :
        child[c] = Newest(c) \/ (pc = "record" /\ c = index /\ Newest(c) # 0)

OlderExited ==
    \A c \in Components : \A n \in 1..Newest(c) : n < Newest(c) => Exited(c, n)

\* Popen has returned before its process is stored.
RecordedLater == pc = "record" => Newest(index) # 0

\* start_process is reached with no process of the component left ...
SpawnsAlone == pc = "spawn" => \A n \in 1..Newest(index) : Exited(index, n)

\* ... since the first loop meets only components that were never started.
FirstLoop ==
    ~watching /\ pc \in {"start", "spawn", "record"} =>
        \A c \in Components :
            c > index \/ (c = index /\ pc # "record") => Newest(c) = 0

\* The child of c needs no more attention.
Covered(c) ==
    \A n \in 1..Newest(c) : Exited(c, n) \/ <<c, n>> \in alerted \cup late

\* A frame in its second loop has covered the components before its own.
FramesCover ==
    \A k \in 1..Len(handlers) : handlers[k].loop = "wait" =>
        \A c \in Components : c < handlers[k].at => Covered(c)

StopCovers ==
    /\ handlers # <<>> => ~running
    /\ ~running /\ handlers = <<>> => \A c \in Components : Covered(c)
    /\ ~running /\ pc = "record" => <<index, Newest(index)>> \in late
    /\ pc = "stopped" => ~running /\ handlers = <<>>

IInv ==
    /\ TypeOK /\ ChildIsNewest /\ OlderExited /\ RecordedLater
    /\ SpawnsAlone /\ FirstLoop
    /\ FramesCover /\ StopCovers
-----------------------------------------------------------------------------
LEMMA InProcesses ==
    ASSUME NEW c \in Components, NEW n \in 1..Newest(c)
    PROVE  <<c, n>> \in Processes
BY DEF Processes

LEMMA ProcessesAre ==
    ASSUME NEW p \in Processes
    PROVE  /\ p = <<p[1], p[2]>>
           /\ p[1] \in Components /\ p[2] \in 1..Newest(p[1])
BY DEF Processes

LEMMA InitIInv == Init => IInv
<1> SUFFICES ASSUME Init PROVE IInv
  OBVIOUS
<1> USE SupervisorAssumption DEF Init, Components, Newest
<1>1. procs \in [Components -> Seq(States)] /\ handlers \in Seq(Frames)
  BY EmptySeq
<1>2. TypeOK
  <2>1. child \in [Components -> Nat] /\ \A c \in Components : child[c] <= Newest(c)
    OBVIOUS
  <2>2. signals \in 0..MaxSignals /\ index \in Components
    OBVIOUS
  <2> QED
    BY <1>1, <2>1, <2>2 DEF TypeOK, States, Frames
<1> QED
  BY <1>2 DEF IInv, ChildIsNewest, OlderExited, RecordedLater, SpawnsAlone,
     FirstLoop, FramesCover, StopCovers, Covered

(* What happens to processes that exist: none is added or lost, and one that *)
(* has exited stays so.                                                      *)
Age ==
    /\ procs' \in [Components -> Seq(States)]
    /\ \A c \in Components :
          /\ Len(procs'[c]) = Len(procs[c])
          /\ \A n \in 1..Len(procs[c]) :
                procs[c][n] = "exited" => procs'[c][n] = "exited"

LEMMA OneProcessChanges ==
    ASSUME TypeOK, NEW c \in Components, NEW n \in 1..Newest(c), NEW x \in States,
           procs[c][n] # "exited",
           procs' = [procs EXCEPT ![c] = [procs[c] EXCEPT ![n] = x]]
    PROVE  Age
<1>1. procs[c] \in Seq(States) /\ procs \in [Components -> Seq(States)]
  BY DEF TypeOK, States
<1>2. /\ [procs[c] EXCEPT ![n] = x] \in Seq(States)
      /\ Len([procs[c] EXCEPT ![n] = x]) = Len(procs[c])
      /\ \A m \in 1..Len(procs[c]) :
            m # n => [procs[c] EXCEPT ![n] = x][m] = procs[c][m]
  BY <1>1, ExceptSeq DEF Newest
<1> QED
  BY <1>1, <1>2 DEF Age

LEMMA AgeKeeps ==
    ASSUME IInv, Age, UNCHANGED <<child, pc, index, watching, alerted, late>>
    PROVE  /\ ChildIsNewest' /\ OlderExited' /\ RecordedLater'
           /\ SpawnsAlone' /\ FirstLoop'
           /\ Processes' = Processes
           /\ \A c \in Components : Covered(c) => Covered(c)'
           /\ \A c \in Components : Newest(c)' = Newest(c)
<1> USE DEF IInv, Age, Newest, Exited
<1>1. \A c \in Components : Newest(c)' = Newest(c)
  OBVIOUS
<1>2. ChildIsNewest' /\ FirstLoop'
  BY <1>1 DEF ChildIsNewest, FirstLoop
<1>3. OlderExited' /\ RecordedLater'
  BY <1>1 DEF OlderExited, RecordedLater, TypeOK
<1>4. SpawnsAlone'
  BY <1>1 DEF SpawnsAlone, TypeOK
<1>5. Processes' = Processes
  BY <1>1 DEF Processes
<1>6. \A c \in Components : Covered(c) => Covered(c)'
  BY <1>1 DEF Covered
<1> QED
  BY <1>1, <1>2, <1>3, <1>4, <1>5, <1>6

LEMMA ChildIInv == ASSUME IInv, Age, UNCHANGED mainVars PROVE IInv'
<1> USE DEF mainVars, IInv
<1>1. TypeOK'
  BY AgeKeeps DEF TypeOK, Age, States
<1>2. FramesCover'
  BY AgeKeeps DEF FramesCover
<1>3. StopCovers'
  BY AgeKeeps DEF StopCovers, TypeOK
<1> QED
  BY <1>1, <1>2, <1>3, AgeKeeps
-----------------------------------------------------------------------------
(* main().                                                                 *)

\* A step of main() between the components, in which no process changes.
LEMMA MovesOn ==
    ASSUME IInv, InMain, NextComponent, pc \in {"start", "spawn", "record"},
           UNCHANGED <<running, procs, watching, handlers, signals, alerted, late>>,
           child' \in [Components -> Nat],
           \A c \in Components : child'[c] = Newest(c),
           ~watching /\ pc # "record" => Newest(index) = 0
    PROVE  IInv'
<1> USE SupervisorAssumption DEF IInv, InMain, NextComponent, Newest, Exited,
        Components
<1>1. TypeOK'
  BY DEF TypeOK, Processes
<1>2. ChildIsNewest' /\ OlderExited' /\ RecordedLater' /\ SpawnsAlone'
  BY DEF ChildIsNewest, OlderExited, RecordedLater, SpawnsAlone
<1>3. FirstLoop'
  BY DEF FirstLoop, TypeOK
<1>4. FramesCover' /\ StopCovers'
  BY DEF FramesCover, StopCovers, Covered, TypeOK
<1> QED
  BY <1>1, <1>2, <1>3, <1>4

LEMMA VisitIInv == ASSUME IInv, VisitComponent PROVE IInv'
<1> USE SupervisorAssumption DEF IInv, InMain
<1>1. pc = "start" /\ \A c \in Components : child[c] = Newest(c)
  BY DEF VisitComponent, ChildIsNewest
<1>2. CASE ~watching \/ (child[index] # 0 /\ Exited(index, child[index]))
  <2>1. /\ pc' = "spawn"
        /\ UNCHANGED <<running, child, procs, index, watching, handlers,
                       signals, alerted, late>>
    BY <1>2 DEF VisitComponent
  <2>2. \A n \in 1..Newest(index) : Exited(index, n)
    BY <1>1, <1>2 DEF TypeOK, FirstLoop, OlderExited, Exited, Newest
  <2>3. TypeOK' /\ ChildIsNewest' /\ OlderExited' /\ RecordedLater'
    BY <1>1, <2>1 DEF RecordedLater, TypeOK, Processes, ChildIsNewest,
       OlderExited, Exited, Newest
  <2>4. SpawnsAlone' /\ FirstLoop'
    BY <1>1, <2>1, <2>2 DEF SpawnsAlone, FirstLoop, Exited, Newest
  <2>5. FramesCover' /\ StopCovers'
    BY <1>1, <2>1 DEF FramesCover, StopCovers, Covered, Exited, Newest
  <2> QED
    BY <2>3, <2>4, <2>5
<1>3. CASE ~(~watching \/ (child[index] # 0 /\ Exited(index, child[index])))
  <2>1. NextComponent
    BY <1>3 DEF VisitComponent
  <2> QED
    BY <1>1, <1>3, <2>1, MovesOn DEF VisitComponent, TypeOK, Newest
<1> QED
  BY <1>2, <1>3

LEMMA SpawnIInv == ASSUME IInv, Spawn PROVE IInv'
<1> USE SupervisorAssumption DEF IInv, InMain, Newest
<1> DEFINE s == Append(procs[index], "alive")
<1>1. /\ procs \in [Components -> Seq(States)] /\ index \in Components
      /\ procs[index] \in Seq(States)
  BY DEF TypeOK, States
<1>2. /\ s \in Seq(States) /\ Len(s) = Newest(index) + 1
      /\ \A n \in 1..Newest(index) : s[n] = procs[index][n]
  BY <1>1, AppendProperties DEF States, Newest
<1>3. /\ procs' = [procs EXCEPT ![index] = s] /\ pc' = "record" /\ pc = "spawn"
      /\ UNCHANGED <<running, child, index, watching, handlers, signals, alerted>>
  BY DEF Spawn
<1>4. /\ procs' \in [Components -> Seq(States)]
      /\ procs'[index] = s
      /\ \A c \in Components : c # index => procs'[c] = procs[c]
      /\ \A c \in Components : c # index => Len(procs'[c]) = Len(procs[c])
      /\ Len(procs'[index]) = Len(procs[index]) + 1
  BY <1>1, <1>2, <1>3 DEF Newest
<1>5. \A c \in Components : Newest(c) \in Nat
  BY <1>1, LenProperties DEF Newest
<1>6. Processes \subseteq Processes' /\ <<index, Newest(index) + 1>> \in Processes'
  <2>1. \A c \in Components : Len(procs[c]) <= Len(procs'[c])
    BY <1>4, <1>5
  <2>2. Len(procs[index]) + 1 \in 1..Len(procs'[index])
    BY <1>1, <1>4, <1>5
  <2>3. \A c \in Components : 1..Len(procs[c]) \subseteq 1..Len(procs'[c])
    BY <2>1, <1>5
  <2> QED
    BY <1>1, <2>2, <2>3 DEF Processes
<1>7. late' = IF running THEN late ELSE late \cup {<<index, Newest(index) + 1>>}
  BY DEF Spawn
<1>8. TypeOK'
  <2>1. alerted' \subseteq Processes' /\ late' \subseteq Processes'
    BY <1>3, <1>6, <1>7 DEF TypeOK
  <2>2. \A c \in Components : child'[c] <= Len(procs'[c])
    BY <1>1, <1>3, <1>4, <1>5 DEF TypeOK
  <2> QED
    BY <1>3, <1>4, <2>1, <2>2 DEF TypeOK, States
<1>9. ChildIsNewest'
  BY <1>1, <1>3, <1>4, <1>5 DEF ChildIsNewest
<1>10. OlderExited' /\ RecordedLater'
  BY <1>1, <1>2, <1>3, <1>4, <1>5 DEF OlderExited, RecordedLater, SpawnsAlone,
     Exited
<1>11. SpawnsAlone' /\ FirstLoop'
  <2>1. SpawnsAlone'
    BY <1>3 DEF SpawnsAlone
  <2>2. ASSUME ~watching, NEW c \in Components, c > index
        PROVE  Len(procs'[c]) = 0
    BY <1>1, <1>3, <1>4, <2>2 DEF FirstLoop, Components
  <2> QED
    BY <1>3, <2>1, <2>2 DEF FirstLoop
<1>12. FramesCover' /\ StopCovers'
  <2>1. handlers = <<>> /\ handlers' = <<>>
    BY <1>3 DEF Spawn
  <2>2. FramesCover'
    BY <2>1 DEF FramesCover
  <2>3. ~running => \A c \in Components : Covered(c)'
    <3> SUFFICES ASSUME ~running, NEW c \in Components, NEW n \in 1..Len(procs'[c])
                 PROVE  Exited(c, n)' \/ <<c, n>> \in (alerted \cup late)'
      BY DEF Covered
    <3>1. CASE n \in 1..Newest(c)
      <4>1. Exited(c, n) \/ <<c, n>> \in alerted \cup late
        BY <2>1, <3>1 DEF StopCovers, Covered
      <4>2. Exited(c, n) => Exited(c, n)'
        BY <1>2, <1>4, <3>1 DEF Exited
      <4> QED
        BY <1>3, <1>7, <4>1, <4>2
    <3>2. CASE n \notin 1..Newest(c)
      <4>1. c = index /\ n = Newest(index) + 1
        BY <1>1, <1>4, <1>5, <3>2
      <4> QED
        BY <1>7, <4>1
    <3> QED
      BY <3>1, <3>2
  <2>4. ~running => <<index, Len(procs'[index])>> \in late'
    BY <1>4, <1>7
  <2> QED
    BY <1>3, <2>1, <2>2, <2>3, <2>4 DEF StopCovers
<1> QED
  BY <1>8, <1>9, <1>10, <1>11, <1>12

LEMMA RecordIInv == ASSUME IInv, Record PROVE IInv'
<1>1. child' = [child EXCEPT ![index] = Newest(index)] /\ pc = "record"
  BY DEF Record
<1>2. child' \in [Components -> Nat] /\ index \in Components
  BY <1>1, LenProperties DEF IInv, TypeOK, Newest
<1>3. \A c \in Components : child'[c] = Newest(c)
  BY <1>1, <1>2 DEF IInv, TypeOK, ChildIsNewest
<1> QED
  BY <1>1, <1>2, <1>3, MovesOn DEF Record

LEMMA ScriptMissingIInv == ASSUME IInv, ScriptMissing PROVE IInv'
<1>1. /\ child' \in [Components -> Nat]
      /\ \A c \in Components : child'[c] = Newest(c)
  BY DEF IInv, TypeOK, ScriptMissing, ChildIsNewest
<1>2. ~watching => Newest(index) = 0
  BY DEF IInv, TypeOK, ScriptMissing, FirstLoop
<1> QED
  BY <1>1, <1>2, MovesOn DEF ScriptMissing

LEMMA PauseIInv == ASSUME IInv, SpawnRaises \/ WakeUp PROVE IInv'
<1> USE SupervisorAssumption DEF IInv, InMain, SpawnRaises, WakeUp
<1>1. /\ TypeOK' /\ ChildIsNewest' /\ OlderExited' /\ RecordedLater'
      /\ SpawnsAlone' /\ FirstLoop'
  BY DEF TypeOK, Processes, ChildIsNewest, OlderExited, RecordedLater, SpawnsAlone,
     FirstLoop,
     Exited, Newest
<1>2. FramesCover' /\ StopCovers'
  BY DEF FramesCover, StopCovers, Covered, Exited, Newest
<1> QED
  BY <1>1, <1>2
-----------------------------------------------------------------------------
(* stop_handler.                                                           *)

LEMMA SignalIInv == ASSUME IInv, Signal PROVE IInv'
<1> USE SupervisorAssumption DEF IInv, Signal
<1> DEFINE f == [loop |-> "terminate", at |-> 1]
<1>1. f \in Frames
  BY DEF Frames, Components
<1>2. handlers \in Seq(Frames)
  BY DEF TypeOK, Frames
<1>3. /\ handlers' = Append(handlers, f) /\ handlers' \in Seq(Frames)
      /\ handlers' # <<>> /\ Len(handlers') = Len(handlers) + 1
      /\ handlers'[Len(handlers) + 1] = f
      /\ \A k \in 1..Len(handlers) : handlers'[k] = handlers[k]
  BY <1>1, <1>2, AppendProperties
<1>4. /\ UNCHANGED <<child, procs, pc, index, watching, alerted>> /\ ~running'
      /\ late \subseteq late'
      /\ pc = "record" => <<index, Newest(index)>> \in late'
  OBVIOUS
<1>5. ChildIsNewest' /\ OlderExited' /\ RecordedLater' /\ SpawnsAlone' /\ FirstLoop'
  BY <1>4 DEF ChildIsNewest, OlderExited, RecordedLater, SpawnsAlone, FirstLoop,
     Exited, Newest
<1>6. TypeOK'
  <2>1. Processes' = Processes
    BY <1>4 DEF Processes, Newest
  <2>2. pc = "record" => <<index, Newest(index)>> \in Processes
    <3>1. pc = "record" => Newest(index) \in 1..Newest(index)
      BY LenProperties DEF RecordedLater, TypeOK, Newest, States
    <3> QED
      BY <3>1, InProcesses DEF TypeOK
  <2>3. late' \subseteq Processes'
    BY <2>1, <2>2 DEF TypeOK
  <2>4. signals' \in 0..MaxSignals /\ running' \in BOOLEAN
    <3>1. signals \in 0..MaxSignals /\ signals < MaxSignals /\ signals' = signals + 1
      BY DEF TypeOK
    <3>2. signals' \in 0..MaxSignals
      BY <3>1
    <3>3. running' = FALSE
      OBVIOUS
    <3> QED
      BY <3>2, <3>3
  <2> QED
    BY <1>3, <1>4, <2>1, <2>3, <2>4 DEF TypeOK, Frames, Newest
<1>7. FramesCover'
  BY <1>2, <1>3, <1>4, LenProperties DEF FramesCover, Covered, Exited, Newest
<1>8. StopCovers'
  BY <1>3, <1>4 DEF StopCovers, Newest
<1> QED
  BY <1>5, <1>6, <1>7, <1>8

LEMMA FrameTypes ==
    ASSUME TypeOK, handlers # <<>>
    PROVE  /\ handlers \in Seq(Frames) /\ Len(handlers) \in Nat \ {0}
           /\ Frame \in Frames /\ Frame.at \in Components
           /\ Frame = handlers[Len(handlers)]
<1>1. handlers \in Seq(Frames) /\ Len(handlers) \in Nat \ {0}
  BY EmptySeq, LenProperties DEF TypeOK, Frames
<1>2. handlers[Len(handlers)] \in Frames
  BY <1>1, ElementOfSeq
<1> QED
  BY <1>1, <1>2 DEF Frame, Frames

LEMMA FrameSet ==
    ASSUME TypeOK, handlers # <<>>, NEW f \in Frames, SetFrame(f)
    PROVE  /\ handlers' \in Seq(Frames) /\ handlers' # <<>>
           /\ Len(handlers') = Len(handlers)
           /\ \A k \in 1..Len(handlers) :
                 handlers'[k] = IF k = Len(handlers) THEN f ELSE handlers[k]
<1>1. Len(handlers) \in 1..Len(handlers)
  BY FrameTypes
<1>2. /\ handlers' \in Seq(Frames) /\ Len(handlers') = Len(handlers)
      /\ \A k \in 1..Len(handlers) :
            handlers'[k] = IF k = Len(handlers) THEN f ELSE handlers[k]
  BY <1>1, FrameTypes, ExceptSeq DEF SetFrame
<1> QED
  BY <1>1, <1>2, EmptySeq

LEMMA TerminateIInv == ASSUME IInv, Terminate PROVE IInv'
<1> USE SupervisorAssumption DEF IInv
<1> DEFINE c == Frame.at
<1> DEFINE n == child[Frame.at]
<1>1. /\ handlers # <<>> /\ Frame.loop = "terminate"
      /\ c \in Components /\ n \in 0..Newest(c)
  <2>1. handlers # <<>> /\ Frame.loop = "terminate"
    BY DEF Terminate
  <2>2. c \in Components
    BY <2>1, FrameTypes
  <2> QED
    BY <2>1, <2>2 DEF TypeOK, Newest
<1>2. Age
  <2>1. CASE n # 0 /\ procs[c][n] = "alive"
    <3>1. procs' = [procs EXCEPT ![c] = [procs[c] EXCEPT ![n] = "dying"]]
      BY <2>1 DEF Terminate
    <3>2. n \in 1..Newest(c) /\ "dying" \in States /\ procs[c][n] # "exited"
      BY <1>1, <2>1 DEF States
    <3> QED
      BY <1>1, <3>1, <3>2, OneProcessChanges
  <2>2. CASE ~(n # 0 /\ procs[c][n] = "alive")
    <3>1. procs' = procs
      BY <2>2 DEF Terminate
    <3> QED
      BY <3>1 DEF Age, TypeOK, States
  <2> QED
    BY <2>1, <2>2
<1>3. UNCHANGED <<running, child, pc, index, watching, signals, alerted, late>>
  BY DEF Terminate
<1>4. PICK f \in Frames : SetFrame(f) /\ (f.loop = "wait" => f.at = 1)
  <2>1. CASE c < NumComponents
    <3>1. [Frame EXCEPT !.at = @ + 1] \in Frames
      BY <1>1, <2>1, FrameTypes DEF Frames, Components
    <3>2. [Frame EXCEPT !.at = @ + 1].loop = "terminate"
      BY <1>1, FrameTypes DEF Frames
    <3> QED
      BY <2>1, <3>1, <3>2 DEF Terminate, AdvanceTerminate
  <2>2. CASE ~(c < NumComponents)
    <3>1. [loop |-> "wait", at |-> 1] \in Frames
      BY DEF Frames, Components
    <3> QED
      BY <2>2, <3>1 DEF Terminate, AdvanceTerminate
  <2> QED
    BY <2>1, <2>2
<1>5. /\ handlers' \in Seq(Frames) /\ handlers' # <<>>
      /\ Len(handlers') = Len(handlers)
      /\ \A k \in 1..Len(handlers) :
            handlers'[k] = IF k = Len(handlers) THEN f ELSE handlers[k]
  BY <1>1, <1>4, FrameSet
<1>6. TypeOK'
  BY <1>2, <1>3, <1>5, AgeKeeps DEF TypeOK, Age, States, Frames
<1>7. FramesCover'
  <2> SUFFICES ASSUME NEW k \in 1..Len(handlers), handlers'[k].loop = "wait",
                      NEW d \in Components, d < handlers'[k].at
               PROVE  Covered(d)'
    BY <1>5 DEF FramesCover
  <2>1. k # Len(handlers)
    BY <1>4, <1>5 DEF Components
  <2>2. Covered(d)
    BY <1>5, <2>1 DEF FramesCover
  <2> QED
    BY <1>2, <1>3, <2>2, AgeKeeps
<1>8. StopCovers'
  BY <1>1, <1>2, <1>3, <1>5, AgeKeeps DEF StopCovers, TypeOK
<1> QED
  BY <1>2, <1>3, <1>6, <1>7, <1>8, AgeKeeps

\* Both ways out of a wait() cover the component that was waited for.
LEMMA WaitIInv ==
    ASSUME IInv, handlers # <<>>, Frame.loop = "wait", AdvanceWait,
           UNCHANGED <<running, child, procs, pc, index, watching, signals, late>>,
           alerted \subseteq alerted', alerted' \subseteq Processes,
           child[Frame.at] = 0 \/ Exited(Frame.at, child[Frame.at])
               \/ <<Frame.at, child[Frame.at]>> \in alerted'
    PROVE  IInv'
<1> USE SupervisorAssumption DEF IInv
<1>0. PICK c \in Components : c = Frame.at
  BY FrameTypes
<1>1. /\ ChildIsNewest' /\ OlderExited' /\ RecordedLater' /\ SpawnsAlone'
      /\ FirstLoop'
  BY DEF ChildIsNewest, OlderExited, RecordedLater, SpawnsAlone, FirstLoop,
     Exited, Newest
<1>2. \A d \in Components : Covered(d) => Covered(d)'
  BY DEF Covered, Exited, Newest
<1>3. Covered(c)'
  <2> SUFFICES ASSUME NEW m \in 1..Newest(c)
               PROVE  Exited(c, m) \/ <<c, m>> \in alerted' \cup late
    BY DEF Covered, Exited, Newest
  <2>1. CASE m < Newest(c)
    BY <1>0, <2>1 DEF OlderExited
  <2>2. CASE m = Newest(c) /\ child[c] = Newest(c)
    BY <1>0, <2>2
  <2>3. CASE m = Newest(c) /\ pc = "record" /\ c = index
    BY <1>0, <2>3 DEF StopCovers
  <2> QED
    BY <1>0, <2>1, <2>2, <2>3 DEF ChildIsNewest, TypeOK, Newest
<1>4. Processes' = Processes
  BY DEF Processes, Newest
<1>5. CASE c < NumComponents
  <2> DEFINE f == [Frame EXCEPT !.at = @ + 1]
  <2>0. Frame \in Frames /\ Frame.at = c /\ c + 1 \in Components
    BY <1>0, <1>5, FrameTypes DEF Components
  <2>1. /\ f \in Frames /\ f.loop = "wait" /\ f.at = c + 1
    BY <2>0 DEF Frames
  <2>2. /\ handlers' \in Seq(Frames) /\ handlers' # <<>>
        /\ Len(handlers') = Len(handlers)
        /\ \A k \in 1..Len(handlers) :
              handlers'[k] = IF k = Len(handlers) THEN f ELSE handlers[k]
    BY <1>0, <1>5, <2>1, FrameSet DEF AdvanceWait
  <2>3. TypeOK'
    BY <1>4, <2>2 DEF TypeOK, Frames, Newest
  <2>4. FramesCover'
    <3> SUFFICES ASSUME NEW k \in 1..Len(handlers), handlers'[k].loop = "wait",
                        NEW d \in Components, d < handlers'[k].at
                 PROVE  Covered(d)'
      BY <2>2 DEF FramesCover
    <3>1. CASE k # Len(handlers)
      BY <1>2, <2>2, <3>1 DEF FramesCover
    <3>2. CASE k = Len(handlers) /\ d = c
      BY <1>3, <3>2
    <3>3. CASE k = Len(handlers) /\ d # c
      <4>0. handlers'[k] = f
        BY <2>2, <3>3
      <4>1. d < c
        BY <2>1, <3>3, <4>0 DEF Components
      <4>2. Covered(d)
        BY <1>0, <4>1, FrameTypes DEF FramesCover
      <4> QED
        BY <1>2, <4>2
    <3> QED
      BY <3>1, <3>2, <3>3
  <2>5. StopCovers'
    BY <2>2 DEF StopCovers, Newest
  <2> QED
    BY <1>1, <2>3, <2>4, <2>5
<1>6. CASE ~(c < NumComponents)
  <2>1. handlers' = SubSeq(handlers, 1, Len(handlers) - 1)
    BY <1>0, <1>6 DEF AdvanceWait, Return
  <2>2. /\ handlers' \in Seq(Frames) /\ Len(handlers') = Len(handlers) - 1
        /\ \A k \in 1..(Len(handlers) - 1) : handlers'[k] = handlers[k]
    <3> DEFINE m == Len(handlers) - 1
    <3>1. m \in Nat /\ \A i \in 1..m : handlers[i] \in Frames
      BY FrameTypes, ElementOfSeq
    <3>2. /\ SubSeq(handlers, 1, m) \in Seq(Frames)
          /\ Len(SubSeq(handlers, 1, m)) = m
          /\ \A i \in 1..m : SubSeq(handlers, 1, m)[i] = handlers[i]
      <4>1. /\ SubSeq(handlers, 1, m) \in Seq(Frames)
            /\ Len(SubSeq(handlers, 1, m)) = IF 1 <= m THEN m - 1 + 1 ELSE 0
            /\ \A i \in 1..(m - 1 + 1) :
                  SubSeq(handlers, 1, m)[i] = handlers[1 + i - 1]
        BY <3>1, SubSeqProperties
      <4>2. m - 1 + 1 = m /\ \A i \in 1..m : 1 + i - 1 = i
        BY <3>1
      <4> HIDE DEF m
      <4> QED
        BY <3>1, <4>1, <4>2
    <3> QED
      BY <2>1, <3>2
  <2>3. \A d \in Components : Covered(d)'
    <3> TAKE d \in Components
    <3>1. d = c \/ d < c
      BY <1>0, <1>6 DEF Components
    <3>2. d < c => Covered(d)
      BY <1>0, FrameTypes DEF FramesCover
    <3> QED
      BY <1>2, <1>3, <3>1, <3>2
  <2>4. TypeOK'
    BY <1>4, <2>2 DEF TypeOK, Frames, Newest
  <2>5. FramesCover' /\ StopCovers'
    BY <2>3 DEF FramesCover, StopCovers, Newest
  <2> QED
    BY <1>1, <2>4, <2>5
<1> QED
  BY <1>5, <1>6

LEMMA WaitReturnsIInv == ASSUME IInv, WaitReturns PROVE IInv'
<1>1. alerted' \subseteq Processes
  BY DEF IInv, TypeOK, WaitReturns
<1> QED
  BY <1>1, WaitIInv DEF WaitReturns

LEMMA WaitTimesOutIInv == ASSUME IInv, WaitTimesOut PROVE IInv'
<1>1. alerted' = alerted \cup {<<Frame.at, child[Frame.at]>>} /\ handlers # <<>>
  BY DEF WaitTimesOut
<1>2. Frame.at \in Components /\ child[Frame.at] \in 1..Newest(Frame.at)
  BY <1>1, FrameTypes DEF IInv, TypeOK, WaitTimesOut, Newest
<1>3. alerted' \subseteq Processes
  BY <1>1, <1>2, InProcesses DEF IInv, TypeOK
<1> QED
  BY <1>1, <1>3, WaitIInv DEF WaitTimesOut
-----------------------------------------------------------------------------
LEMMA ChildStepIInv ==
    ASSUME IInv, NEW c \in Components,
           \/ ChildDies(c) \/ ChildWedges(c)
           \/ \E n \in DOMAIN procs[c] : ChildEnds(c, n)
    PROVE  IInv'
<1>1. PICK n \in 1..Newest(c), x \in {"exited", "wedged"} :
        /\ procs[c][n] # "exited"
        /\ procs' = [procs EXCEPT ![c] = [procs[c] EXCEPT ![n] = x]]
        /\ UNCHANGED mainVars
  <2>1. procs[c] \in Seq(States)
    BY DEF IInv, TypeOK, States
  <2>2. CASE ChildDies(c)
    <3>1. Newest(c) \in 1..Newest(c)
      BY <2>1, <2>2, EmptySeq, LenProperties DEF ChildDies, Newest
    <3> QED
      BY <2>2, <3>1 DEF ChildDies
  <2>3. CASE ChildWedges(c)
    <3>1. Newest(c) \in 1..Newest(c)
      BY <2>1, <2>3, EmptySeq, LenProperties DEF ChildWedges, Newest
    <3> QED
      BY <2>3, <3>1 DEF ChildWedges
  <2>4. CASE \E n \in DOMAIN procs[c] : ChildEnds(c, n)
    BY <2>1, <2>4, LenProperties DEF ChildEnds, Newest
  <2> QED
    BY <2>2, <2>3, <2>4
<1>2. Age
  BY <1>1, OneProcessChanges DEF IInv, States
<1> QED
  BY <1>1, <1>2, ChildIInv

LEMMA StutterIInv == ASSUME IInv, UNCHANGED vars PROVE IInv'
BY DEF vars, IInv, TypeOK, ChildIsNewest, OlderExited, RecordedLater,
   SpawnsAlone, FirstLoop, FramesCover, StopCovers, Covered, Exited, Newest,
   Processes

LEMMA NextIInv == IInv /\ [Next]_vars => IInv'
<1> SUFFICES ASSUME IInv, [Next]_vars PROVE IInv'
  OBVIOUS
<1> QED
  BY ChildStepIInv, VisitIInv, SpawnIInv, RecordIInv, ScriptMissingIInv,
     PauseIInv, SignalIInv, TerminateIInv, WaitReturnsIInv, WaitTimesOutIInv,
     StutterIInv
     DEF Next, MainStep, HandlerStep

THEOREM InvariantHolds == Spec => []IInv
BY InitIInv, NextIInv, PTL DEF Spec
-----------------------------------------------------------------------------
(* What follows.                                                           *)

\* Types of the supervisor, its stack of handlers and its processes.
THEOREM TypeCorrect == Spec => []TypeOK
<1>1. IInv => TypeOK
  BY DEF IInv
<1> QED
  BY <1>1, InvariantHolds, PTL

\* The watchdog never runs two processes of one component at once.
THEOREM OneProcess == Spec => []OneProcessPerComponent
<1>1. IInv => OneProcessPerComponent
  <2> SUFFICES ASSUME IInv, NEW p \in Survivors, NEW q \in Survivors, p[1] = q[1]
               PROVE  p = q
    BY DEF OneProcessPerComponent
  <2>1. /\ p = <<p[1], p[2]>> /\ q = <<q[1], q[2]>>
        /\ p[1] \in Components
        /\ p[2] \in 1..Newest(p[1]) /\ q[2] \in 1..Newest(p[1])
        /\ ~Exited(p[1], p[2]) /\ ~Exited(p[1], q[2])
    BY ProcessesAre DEF Survivors
  <2>2. p[2] = Newest(p[1]) /\ q[2] = Newest(p[1])
    BY <2>1 DEF IInv, OlderExited, TypeOK, Newest
  <2> QED
    BY <2>1, <2>2
<1> QED
  BY <1>1, InvariantHolds, PTL

\* A child left at the end without a report was started in an interrupted loop.
THEOREM OrphansLateOnly == Spec => []OrphansOnlyFromInterruptedStart
<1>1. IInv => OrphansOnlyFromInterruptedStart
  <2> SUFFICES ASSUME IInv, pc = "stopped", NEW p \in Survivors
               PROVE  p \in alerted \cup late
    BY DEF OrphansOnlyFromInterruptedStart
  <2>1. /\ p = <<p[1], p[2]>> /\ p[1] \in Components
        /\ p[2] \in 1..Newest(p[1]) /\ ~Exited(p[1], p[2])
    BY ProcessesAre DEF Survivors
  <2>2. Covered(p[1])
    BY <2>1 DEF IInv, StopCovers
  <2> QED
    BY <2>1, <2>2 DEF Covered
<1> QED
  BY <1>1, InvariantHolds, PTL
-----------------------------------------------------------------------------
(* The end of a stop: a measure that every step of the supervisor lowers.   *)

LEMMA LowerFrom ==
    ASSUME NEW a \in Int, NEW b \in Int, NEW c \in Int, NEW d \in Int,
           NEW p \in Int, NEW q \in Int, NEW r \in Int, NEW s \in Int,
           \/ p < a
           \/ p = a /\ q < b
           \/ p = a /\ q = b /\ r < c
           \/ p = a /\ q = b /\ r = c /\ s < d
    PROVE  Lower(<<p, q, r, s>>, <<a, b, c, d>>)
<1> DEFINE v == <<p, q, r, s>>
           w == <<a, b, c, d>>
<1>1. CASE p < a
  <2>1. v[1] < w[1] /\ \A j \in 1..(1 - 1) : v[j] = w[j]
    BY <1>1
  <2> QED
    BY <2>1 DEF Lower
<1>2. CASE p = a /\ q < b
  <2>1. v[2] < w[2] /\ \A j \in 1..(2 - 1) : v[j] = w[j]
    BY <1>2
  <2> QED
    BY <2>1 DEF Lower
<1>3. CASE p = a /\ q = b /\ r < c
  <2>1. v[3] < w[3] /\ \A j \in 1..(3 - 1) : v[j] = w[j]
    BY <1>3
  <2> QED
    BY <2>1 DEF Lower
<1>4. CASE p = a /\ q = b /\ r = c /\ s < d
  <2>1. v[4] < w[4] /\ \A j \in 1..(4 - 1) : v[j] = w[j]
    BY <1>4
  <2> QED
    BY <2>1 DEF Lower
<1> QED
  BY <1>1, <1>2, <1>3, <1>4

NaturalWork ==
    /\ MaxSignals - signals \in Nat /\ MainWork \in Nat
    /\ Len(handlers) \in Nat /\ FrameWork \in Nat

LEMMA WorkIsNatural ==
    ASSUME TypeOK
    PROVE  NaturalWork
<1> USE SupervisorAssumption DEF Components, NaturalWork
<1>1. MaxSignals - signals \in Nat
  BY DEF TypeOK
<1>2. MainWork \in Nat
  BY DEF TypeOK, MainWork
<1>3. Len(handlers) \in Nat
  BY LenProperties DEF TypeOK
<1>4. FrameWork \in Nat
  BY FrameTypes DEF FrameWork
<1> QED
  BY <1>1, <1>2, <1>3, <1>4

LEMMA WorkStaysNatural == TypeOK' => NaturalWork'
<1>1. TypeOK => NaturalWork
  BY WorkIsNatural
<1> QED
  BY <1>1, PTL

\* With the handlers returned, main() goes forward only: no loop starts anew.
LEMMA MainWorkLowers ==
    ASSUME IInv, ~running, MainStep
    PROVE  MainWork' < MainWork /\ UNCHANGED signals
<1> USE SupervisorAssumption DEF IInv, TypeOK, Components, MainWork
<1>1. CASE VisitComponent
  BY <1>1 DEF VisitComponent, NextComponent
<1>2. CASE Spawn
  BY <1>2 DEF Spawn
<1>3. CASE Record
  BY <1>3 DEF Record, NextComponent
<1>4. CASE ScriptMissing
  BY <1>4 DEF ScriptMissing, NextComponent
<1>5. CASE SpawnRaises \/ WakeUp
  BY <1>5 DEF SpawnRaises, WakeUp
<1> QED
  BY <1>1, <1>2, <1>3, <1>4, <1>5 DEF MainStep

\* A step of the running handler brings its frame on, or takes it off the stack.
LEMMA FrameSetLowers ==
    ASSUME TypeOK, handlers # <<>>, NEW f \in Frames, SetFrame(f),
           (NumComponents - f.at) + 1
               + (IF f.loop = "terminate" THEN NumComponents ELSE 0) < FrameWork
    PROVE  FrameWork' < FrameWork /\ UNCHANGED Len(handlers)
<1>1. /\ handlers' # <<>> /\ Len(handlers') = Len(handlers)
      /\ handlers'[Len(handlers')] = f
  BY FrameSet, FrameTypes
<1> QED
  BY <1>1 DEF FrameWork, Frame

LEMMA HandlerWorkLowers ==
    ASSUME IInv, HandlerStep
    PROVE  /\ UNCHANGED <<pc, index, signals>>
           /\ \/ Len(handlers)' < Len(handlers)
              \/ UNCHANGED Len(handlers) /\ FrameWork' < FrameWork
<1> USE SupervisorAssumption DEF IInv
<1>1. handlers # <<>> /\ UNCHANGED <<pc, index, signals>>
  BY DEF HandlerStep, Terminate, WaitReturns, WaitTimesOut
<1>2. /\ Frame \in Frames /\ Frame.at \in Components /\ Len(handlers) \in Nat \ {0}
      /\ handlers \in Seq(Frames)
      /\ FrameWork = (NumComponents - Frame.at) + 1
                         + (IF Frame.loop = "terminate" THEN NumComponents ELSE 0)
  BY <1>1, FrameTypes DEF FrameWork
<1>3. CASE Frame.at < NumComponents /\ SetFrame([Frame EXCEPT !.at = @ + 1])
  <2> DEFINE f == [Frame EXCEPT !.at = @ + 1]
  <2>1. f \in Frames /\ f.at = Frame.at + 1 /\ f.loop = Frame.loop
    BY <1>2, <1>3 DEF Frames, Components
  <2> HIDE DEF f
  <2>2. (NumComponents - f.at) + 1
            + (IF f.loop = "terminate" THEN NumComponents ELSE 0) < FrameWork
    BY <1>2, <2>1 DEF Components
  <2>3. SetFrame(f)
    BY <1>3 DEF f
  <2> QED
    BY <1>1, <2>1, <2>2, <2>3, FrameSetLowers
<1>4. CASE /\ Frame.loop = "terminate" /\ Frame.at = NumComponents
           /\ SetFrame([loop |-> "wait", at |-> 1])
  <2> DEFINE f == [loop |-> "wait", at |-> 1]
  <2>1. f \in Frames /\ f.at = 1 /\ f.loop = "wait"
    BY DEF Frames, Components
  <2>2. (NumComponents - f.at) + 1
            + (IF f.loop = "terminate" THEN NumComponents ELSE 0) < FrameWork
    BY <1>2, <1>4, <2>1
  <2> QED
    BY <1>1, <1>4, <2>1, <2>2, FrameSetLowers
<1>5. CASE handlers' = Return
  <2> DEFINE m == Len(handlers) - 1
  <2>1. m \in Nat /\ \A i \in 1..m : handlers[i] \in Frames
    BY <1>2, ElementOfSeq
  <2>2. Len(SubSeq(handlers, 1, m)) = IF 1 <= m THEN m - 1 + 1 ELSE 0
    BY <2>1, SubSeqProperties
  <2> QED
    BY <1>1, <1>2, <1>5, <2>1, <2>2 DEF Return
<1> QED
  BY <1>1, <1>2, <1>3, <1>4, <1>5
     DEF HandlerStep, Terminate, WaitReturns, WaitTimesOut, AdvanceTerminate, AdvanceWait,
     Components

\* After a stop signal, a step that moves main() or a handler, or is one more signal,
\* leaves less to do.
LEMMA StopStepLowers ==
    ASSUME IInv, [Next]_vars, ~running,
           <<pc, index, handlers, signals>>' # <<pc, index, handlers, signals>>
    PROVE  Lower(StopWork', StopWork)
<1>1. TypeOK' /\ TypeOK
  BY NextIInv DEF IInv
<1>2. /\ MaxSignals - signals \in Int /\ MainWork \in Int /\ Len(handlers) \in Int
      /\ FrameWork \in Int
  BY <1>1, WorkIsNatural DEF NaturalWork
<1>3. /\ (MaxSignals - signals)' \in Int /\ MainWork' \in Int
      /\ Len(handlers)' \in Int /\ FrameWork' \in Int
  BY <1>1, WorkStaysNatural DEF NaturalWork
<1>4. \/ (MaxSignals - signals)' < MaxSignals - signals
      \/ UNCHANGED signals /\ MainWork' < MainWork
      \/ UNCHANGED signals /\ UNCHANGED MainWork /\ Len(handlers)' < Len(handlers)
      \/ /\ UNCHANGED signals /\ UNCHANGED MainWork /\ UNCHANGED Len(handlers)
         /\ FrameWork' < FrameWork
  <2>1. CASE Signal
    BY <1>1, <2>1, SupervisorAssumption DEF Signal, TypeOK
  <2>2. CASE MainStep
    BY <2>2, MainWorkLowers
  <2>3. CASE HandlerStep
    BY <2>3, HandlerWorkLowers DEF MainWork
  <2> QED
    BY <2>1, <2>2, <2>3 DEF Next, ChildDies, ChildWedges, ChildEnds, mainVars, vars
<1> DEFINE a == MaxSignals - signals
           b == MainWork
           c == Len(handlers)
           d == FrameWork
<1>5. StopWork' = <<a', b', c', d'>> /\ StopWork = <<a, b, c, d>>
  BY DEF StopWork
<1>6. Lower(<<a', b', c', d'>>, <<a, b, c, d>>)
  BY <1>2, <1>3, <1>4, LowerFrom
<1> QED
  BY <1>5, <1>6

\* However many children are wedged and however deep the handlers nest, the steps of
\* the supervisor after a stop signal are bounded: each one lowers a tuple of naturals.
THEOREM StopBounded ==
    Spec => StopIsBounded /\ [](StopWork \in Nat \X Nat \X Nat \X Nat)
<1>1. IInv => StopWork \in Nat \X Nat \X Nat \X Nat
  BY WorkIsNatural DEF IInv, NaturalWork, StopWork
<1>2. IInv /\ [Next]_vars =>
          [~running /\ <<pc, index, handlers, signals>>' # <<pc, index, handlers, signals>>
              => Lower(StopWork', StopWork)]_vars
  BY StopStepLowers
<1> QED
  BY <1>1, <1>2, InvariantHolds, PTL DEF Spec, StopIsBounded
-----------------------------------------------------------------------------
(* The watchdog's rounds. main() visits the components in one order: what  *)
(* dies behind its back is met by the next round.                          *)

\* main() goes round: it comes to its sleep, and out of it, until it ends.
Sleeping == pc = "sleep"
GoesRound == []<>(Sleeping \/ Ended) /\ []<>(~Sleeping \/ Ended)

\* A round that has the dead process n of c still before it, or is replacing it.
Before(c, n) ==
    /\ Dead(c, n) /\ watching /\ pc \in {"start", "spawn", "record"}
    /\ index <= c /\ (pc = "record" /\ index = c => n < Newest(c))

\* Sleep is between two rounds.
SleepsBetween == pc = "sleep" => index = 1

\* A process that has exited stays so, and is in the list.
LEMMA DeadStays ==
    ASSUME IInv, [Next]_vars, NEW c \in Components, NEW n \in Nat \ {0}, Dead(c, n)
    PROVE  /\ Dead(c, n)' \/ child'[c] # n \/ ~running'
           /\ procs'[c][n] = "exited" /\ n \in 1..Newest(c) /\ Newest(c)' >= Newest(c)
<1>1. /\ procs[c] \in Seq(States) /\ Newest(c) \in Nat /\ n \in 1..Newest(c)
      /\ procs[c][n] = "exited"
  BY LenProperties DEF IInv, TypeOK, States, Dead, Exited, Newest
<1>2. procs'[c][n] = "exited" /\ Newest(c)' >= Newest(c)
  <2>1. CASE UNCHANGED procs
    BY <1>1, <2>1 DEF Newest
  <2>2. ASSUME NEW d \in Components, NEW m \in 1..Newest(d), NEW x \in States,
               procs[d][m] # "exited",
               procs' = [procs EXCEPT ![d] = [procs[d] EXCEPT ![m] = x]]
        PROVE  procs'[c][n] = "exited" /\ Newest(c)' >= Newest(c)
    <3>1. Age
      BY <2>2, OneProcessChanges DEF IInv
    <3> QED
      BY <1>1, <3>1 DEF Age, Newest
  <2>3. CASE Spawn
    <3>1. procs' = [procs EXCEPT ![index] = Append(procs[index], "alive")]
      BY <2>3 DEF Spawn
    <3>2. index \in Components /\ procs[index] \in Seq(States)
      BY DEF IInv, TypeOK, States
    <3>3. /\ Len(Append(procs[index], "alive")) = Len(procs[index]) + 1
          /\ \A k \in 1..Len(procs[index]) :
                Append(procs[index], "alive")[k] = procs[index][k]
      BY <3>2, AppendProperties DEF States
    <3> QED
      BY <1>1, <3>1, <3>2, <3>3 DEF IInv, TypeOK, Newest
  <2>4. \A d \in Components : procs[d] # <<>> =>
            Newest(d) \in 1..Newest(d) /\ DOMAIN procs[d] = 1..Newest(d)
    BY LenProperties, EmptySeq DEF IInv, TypeOK, Newest
  <2>5. ASSUME NEW d \in Components, ChildDies(d) \/ ChildWedges(d)
        PROVE  procs'[c][n] = "exited" /\ Newest(c)' >= Newest(c)
    BY <2>2, <2>4, <2>5 DEF ChildDies, ChildWedges, States
  <2>6. ASSUME NEW d \in Components, NEW m \in DOMAIN procs[d], ChildEnds(d, m)
        PROVE  procs'[c][n] = "exited" /\ Newest(c)' >= Newest(c)
    <3>1. m \in 1..Newest(d)
      BY LenProperties DEF IInv, TypeOK, Newest
    <3> QED
      BY <2>2, <2>6, <3>1 DEF ChildEnds, States
  <2>7. CASE HandlerStep
    BY <2>7 DEF HandlerStep, Dead, IInv, StopCovers, Terminate, WaitReturns, WaitTimesOut
  <2> QED
    BY <2>1, <2>3, <2>5, <2>6, <2>7
       DEF Next, MainStep, VisitComponent, Record, ScriptMissing, SpawnRaises, WakeUp,
       Signal, vars
<1> QED
  BY <1>1, <1>2 DEF Dead, Exited

LEMMA SleepsBetweenStays == SleepsBetween /\ [Next]_vars => SleepsBetween'
BY DEF SleepsBetween, Next, MainStep, VisitComponent, Spawn, Record, NextComponent,
   ScriptMissing, SpawnRaises, WakeUp, Signal, HandlerStep, Terminate, WaitReturns,
   WaitTimesOut, ChildDies, ChildWedges, ChildEnds, mainVars, vars

\* What a step leaves of a round that has the dead process still before it.
LEMMA RoundMeetsDead ==
    ASSUME IInv, [Next]_vars, NEW c \in Components, NEW n \in Nat \ {0}, Before(c, n),
           ~ScriptMissing
    PROVE  Before(c, n)' \/ child'[c] # n \/ Ended'
<1>1. /\ Dead(c, n)' \/ child'[c] # n \/ ~running'
      /\ n \in 1..Newest(c) /\ Newest(c) \in Nat /\ Newest(c)' >= Newest(c)
      /\ procs[c] \in Seq(States) /\ Exited(c, n) /\ child[c] = n
  BY DeadStays, LenProperties DEF Before, Dead, IInv, TypeOK, States, Newest
<1>2. index \in 1..NumComponents /\ c \in 1..NumComponents /\ NumComponents \in Nat
  BY SupervisorAssumption DEF IInv, TypeOK, Components
<1>3. CASE UNCHANGED <<pc, index, watching>>
  <2>1. Newest(c)' \in Nat
    BY NextIInv, LenProperties DEF IInv, TypeOK, Newest
  <2> QED
    BY <1>1, <1>2, <1>3, <2>1 DEF Before, Ended
<1>4. CASE VisitComponent
  <2>1. pc = "start" /\ UNCHANGED watching /\ watching
    BY <1>4 DEF VisitComponent, Before
  <2>2. CASE index = c
    <3>1. pc' = "spawn" /\ UNCHANGED index
      BY <1>1, <1>4, <2>1, <2>2 DEF VisitComponent
    <3> QED
      BY <1>1, <2>1, <2>2, <3>1 DEF Before, Ended
  <2>3. CASE index < c
    <3>1. pc' \in {"start", "spawn"} /\ index' <= c
      BY <1>2, <1>4, <2>3 DEF VisitComponent, NextComponent
    <3> QED
      BY <1>1, <2>1, <3>1 DEF Before, Ended
  <2> QED
    BY <1>2, <2>2, <2>3 DEF Before
<1>5. CASE Spawn
  <2>1. pc' = "record" /\ UNCHANGED <<index, watching, child>>
    BY <1>5 DEF Spawn
  <2>2. index = c => n < Newest(c)'
    <3>1. index = c => procs'[c] = Append(procs[c], "alive")
      BY <1>5 DEF Spawn, IInv, TypeOK
    <3>2. Len(Append(procs[c], "alive")) = Len(procs[c]) + 1
      BY <1>1, AppendProperties DEF States
    <3> QED
      BY <1>1, <3>1, <3>2 DEF Newest
  <2> QED
    BY <1>1, <2>1, <2>2 DEF Before, Ended
<1>6. CASE Record
  <2>1. CASE index = c
    BY <1>1, <1>6, <2>1 DEF Record, Before, IInv, TypeOK
  <2>2. CASE index < c
    <3>1. pc' = "start" /\ index' <= c /\ UNCHANGED watching
      BY <1>2, <1>6, <2>2 DEF Record, NextComponent
    <3> QED
      BY <1>1, <3>1 DEF Before, Ended
  <2> QED
    BY <1>2, <2>1, <2>2 DEF Before
<1>7. CASE SpawnRaises
  BY <1>7 DEF SpawnRaises, Ended
<1>8. ~WakeUp
  BY DEF WakeUp, Before
<1> QED
  BY <1>3, <1>4, <1>5, <1>6, <1>7, <1>8 DEF Next, MainStep, Signal, HandlerStep,
     Terminate, WaitReturns, WaitTimesOut, ChildDies, ChildWedges, ChildEnds, mainVars,
     vars

\* While main() goes round and the script is there, a component whose process is
\* dead gets a new one, whatever state the others are in: the round that follows
\* the death meets it, wherever in the list it is.
THEOREM DeadAreReplaced ==
    Spec /\ GoesRound /\ <>[][~ScriptMissing]_vars => WatchdogRestarts
<1>1. ASSUME NEW c \in Components, NEW n \in 1..MaxSpawns
      PROVE  Spec /\ GoesRound /\ <>[][~ScriptMissing]_vars => Replaced(c, n)
  <2>1. n \in Nat \ {0}
    BY SupervisorAssumption
  <2>2. IInv /\ [Next]_vars /\ Dead(c, n) => Dead(c, n)' \/ Mended(c, n)'
    BY <2>1, DeadStays DEF Mended, Ended
  <2>3. IInv /\ SleepsBetween /\ [Next]_vars /\ Dead(c, n) /\ Sleeping
          => Sleeping' \/ Before(c, n)' \/ Mended(c, n)'
    <3> SUFFICES ASSUME IInv, SleepsBetween, [Next]_vars, Dead(c, n),
                        Sleeping, ~Mended(c, n)'
                 PROVE  Sleeping' \/ Before(c, n)'
      OBVIOUS
    <3>1. Dead(c, n)'
      BY <2>2
    <3>2. CASE WakeUp
      <4>1. pc' = "start" /\ watching' /\ index' = 1
        BY <3>2 DEF WakeUp, SleepsBetween, Dead, Sleeping
      <4>2. 1 <= c
        BY DEF Components
      <4> QED
        BY <3>1, <4>1, <4>2 DEF Before
    <3>3. CASE UNCHANGED pc
      BY <3>3 DEF Sleeping
    <3> QED
      BY <3>2, <3>3 DEF Sleeping, Next, MainStep, VisitComponent, Spawn, Record, ScriptMissing,
         SpawnRaises, Signal, HandlerStep, Terminate, WaitReturns, WaitTimesOut,
         ChildDies, ChildWedges, ChildEnds, mainVars, vars
  <2>4. IInv /\ [Next]_vars /\ [~ScriptMissing]_vars /\ Before(c, n)
          => Before(c, n)' \/ Mended(c, n)'
    <3>1. UNCHANGED vars => UNCHANGED <<pc, index, watching, child, running, procs>>
      BY DEF vars
    <3> QED
      BY <2>1, <3>1, RoundMeetsDead DEF Before, Dead, Exited, Newest, Mended
  <2>5. Before(c, n) => ~Sleeping /\ Dead(c, n)
    BY DEF Before, Sleeping
  <2>6. Ended => Mended(c, n)
    BY DEF Mended
  <2>7. Init => SleepsBetween
    BY DEF Init, SleepsBetween
  <2> QED
    BY <2>2, <2>3, <2>4, <2>5, <2>6, <2>7, SleepsBetweenStays, InvariantHolds, PTL
       DEF Spec, GoesRound, Replaced
<1> QED
  BY <1>1 DEF WatchdogRestarts
-----------------------------------------------------------------------------
(* The end of a stop, up to the rule that a chain of falling values of a   *)
(* well-founded order is finite: the order is one, and the value falls.    *)

Less == {ss \in Nat \X Nat : ss[1] < ss[2]}

LEMMA LeastNatural ==
    ASSUME NEW S \in SUBSET Nat, S # {}
    PROVE  \E m \in S : \A k \in S : m <= k
<1>1. IsWellFoundedOn(Less, Nat)
  BY NatLessThanWellFounded, Zenon DEF OpToRel, Less
<1>2. PICK m \in S : \A k \in S : ~ (<<k, m>> \in Less)
  BY <1>1, WFMin
<1>3. \A k \in S : ~ (k < m)
  BY <1>2 DEF Less
<1> QED
  BY <1>3

Work == Nat \X Nat \X Nat \X Nat
LowerWork == {p \in Work \X Work : Lower(p[1], p[2])}

LEMMA LowerMeans ==
    ASSUME NEW v \in Work, NEW w \in Work, Lower(v, w)
    PROVE  \/ v[1] < w[1]
           \/ v[1] = w[1] /\ v[2] < w[2]
           \/ v[1] = w[1] /\ v[2] = w[2] /\ v[3] < w[3]
           \/ v[1] = w[1] /\ v[2] = w[2] /\ v[3] = w[3] /\ v[4] < w[4]
<1>1. PICK k \in 1..4 : v[k] < w[k] /\ \A j \in 1..(k - 1) : v[j] = w[j]
  BY DEF Lower
<1>2. k = 1 \/ k = 2 \/ k = 3 \/ k = 4
  OBVIOUS
<1> QED
  BY <1>1, <1>2

\* What is left of a stop cannot fall without end: the order of StopIsBounded is
\* well-founded, for any number of components, signals and nested handlers.
THEOREM WorkIsFounded == IsWellFoundedOn(LowerWork, Work)
<1>1. ASSUME NEW f \in [Nat -> Work], \A n \in Nat : <<f[n + 1], f[n]>> \in LowerWork
      PROVE  FALSE
  <2>1. \A n \in Nat :
            /\ f[n] \in Work /\ f[n + 1] \in Work
            /\ f[n][1] \in Nat /\ f[n][2] \in Nat /\ f[n][3] \in Nat /\ f[n][4] \in Nat
    <3>1. \A w \in Work : w[1] \in Nat /\ w[2] \in Nat /\ w[3] \in Nat /\ w[4] \in Nat
      BY DEF Work
    <3>2. \A n \in Nat : f[n] \in Work /\ f[n + 1] \in Work
      OBVIOUS
    <3> QED
      BY <3>1, <3>2
  <2>2. ASSUME NEW n \in Nat
        PROVE  \/ f[n + 1][1] < f[n][1]
               \/ f[n + 1][1] = f[n][1] /\ f[n + 1][2] < f[n][2]
               \/ /\ f[n + 1][1] = f[n][1] /\ f[n + 1][2] = f[n][2]
                  /\ f[n + 1][3] < f[n][3]
               \/ /\ f[n + 1][1] = f[n][1] /\ f[n + 1][2] = f[n][2]
                  /\ f[n + 1][3] = f[n][3] /\ f[n + 1][4] < f[n][4]
    <3>1. Lower(f[n + 1], f[n])
      BY <1>1 DEF LowerWork
    <3> QED
      BY <2>1, <3>1, LowerMeans
  <2>3. PICK a \in Nat : /\ \E n \in Nat : f[n][1] = a
                         /\ \A n \in Nat : a <= f[n][1]
    <3> DEFINE S == {f[n][1] : n \in Nat}
    <3>1. S \in SUBSET Nat /\ S # {}
      BY <2>1
    <3>2. PICK m \in S : \A k \in S : m <= k
      BY <3>1, LeastNatural
    <3> QED
      BY <3>1, <3>2
  <2>4. PICK b \in Nat : /\ \E n \in Nat : f[n][1] = a /\ f[n][2] = b
                         /\ \A n \in Nat : f[n][1] = a => b <= f[n][2]
    <3> DEFINE S == {f[n][2] : n \in {k \in Nat : f[k][1] = a}}
    <3>1. S \in SUBSET Nat /\ S # {}
      BY <2>1, <2>3
    <3>2. PICK m \in S : \A k \in S : m <= k
      BY <3>1, LeastNatural
    <3> QED
      BY <3>1, <3>2
  <2>5. PICK c \in Nat :
            /\ \E n \in Nat : f[n][1] = a /\ f[n][2] = b /\ f[n][3] = c
            /\ \A n \in Nat : f[n][1] = a /\ f[n][2] = b => c <= f[n][3]
    <3> DEFINE S == {f[n][3] : n \in {k \in Nat : f[k][1] = a /\ f[k][2] = b}}
    <3>1. S \in SUBSET Nat /\ S # {}
      BY <2>1, <2>4
    <3>2. PICK m \in S : \A k \in S : m <= k
      BY <3>1, LeastNatural
    <3> QED
      BY <3>1, <3>2
  <2>6. PICK n \in Nat :
            /\ f[n][1] = a /\ f[n][2] = b /\ f[n][3] = c
            /\ \A k \in Nat :
                  f[k][1] = a /\ f[k][2] = b /\ f[k][3] = c => f[n][4] <= f[k][4]
    <3> DEFINE N == {k \in Nat : f[k][1] = a /\ f[k][2] = b /\ f[k][3] = c}
               S == {f[n][4] : n \in N}
    <3>1. S \in SUBSET Nat /\ S # {}
      BY <2>1, <2>5
    <3>2. PICK m \in S : \A k \in S : m <= k
      BY <3>1, LeastNatural
    <3> QED
      BY <3>1, <3>2
  <2> DEFINE g == f[n + 1]
  <2>7. /\ g[1] \in Nat /\ g[2] \in Nat /\ g[3] \in Nat /\ g[4] \in Nat
        /\ f[n][4] \in Nat
    BY <2>1
  <2>8. \/ g[1] < a
        \/ g[1] = a /\ g[2] < b
        \/ g[1] = a /\ g[2] = b /\ g[3] < c
        \/ g[1] = a /\ g[2] = b /\ g[3] = c /\ g[4] < f[n][4]
    BY <2>2, <2>6
  <2>9. n + 1 \in Nat
    OBVIOUS
  <2>10. a <= g[1]
    BY <2>3, <2>9
  <2>11. g[1] = a => b <= g[2]
    BY <2>4, <2>9
  <2>12. g[1] = a /\ g[2] = b => c <= g[3]
    BY <2>5, <2>9
  <2>13. g[1] = a /\ g[2] = b /\ g[3] = c => f[n][4] <= g[4]
    BY <2>6, <2>9
  <2> HIDE DEF g
  <2> QED
    BY <2>7, <2>8, <2>10, <2>11, <2>12, <2>13
<1> QED
  BY <1>1 DEF IsWellFoundedOn

\* The steps fairness speaks of can be taken until the supervisor is gone.
StepsCanBeTaken ==
    pc \notin {"stopped", "crashed"} => ENABLED <<MainStep \/ HandlerStep>>_vars

Gone == pc \in {"stopped", "crashed"}
Left(w) == ~running /\ ~Gone /\ StopWork = w
LessLeft(w) == ~running /\ ~Gone /\ StopWork \in Work /\ Lower(StopWork, w)

\* A step that moves neither main() nor a handler leaves all the work there is.
LEMMA WorkStays ==
    ASSUME UNCHANGED <<pc, index, handlers, signals>>
    PROVE  UNCHANGED StopWork
BY DEF StopWork, MainWork, FrameWork, Frame

LEMMA StopIsFinal == ~running /\ [Next]_vars => ~running'
BY DEF Next, MainStep, VisitComponent, Spawn, Record, ScriptMissing, SpawnRaises, WakeUp,
   Signal, HandlerStep, Terminate, WaitReturns, WaitTimesOut, ChildDies, ChildWedges,
   ChildEnds, mainVars, vars

\* The induction step of StopCompletes: a supervisor that was told to stop comes to
\* its end, or to less work than before, however stuck the children are.
THEOREM StopAdvances ==
    FairSpec /\ []StepsCanBeTaken => \A w \in Work : Left(w) ~> Gone \/ LessLeft(w)
<1>1. ASSUME NEW w \in Work
      PROVE  FairSpec /\ []StepsCanBeTaken => (Left(w) ~> Gone \/ LessLeft(w))
  <2>1. IInv /\ [Next]_vars /\ Left(w) => Left(w)' \/ Gone' \/ LessLeft(w)'
    <3> SUFFICES ASSUME IInv, [Next]_vars, Left(w), ~Gone'
                 PROVE  Left(w)' \/ LessLeft(w)'
      OBVIOUS
    <3>1. ~running'
      BY StopIsFinal DEF Left
    <3>2. CASE UNCHANGED <<pc, index, handlers, signals>>
      BY <3>1, <3>2, WorkStays DEF Left
    <3>3. CASE <<pc, index, handlers, signals>>' # <<pc, index, handlers, signals>>
      <4>1. Lower(StopWork', StopWork)
        BY <3>3, StopStepLowers DEF Left
      <4>2. StopWork' \in Work
        BY NextIInv, WorkStaysNatural DEF IInv, NaturalWork, StopWork, Work
      <4> QED
        BY <3>1, <4>1, <4>2 DEF Left, LessLeft
    <3> QED
      BY <3>2, <3>3
  <2>2. IInv /\ Left(w) /\ <<MainStep \/ HandlerStep>>_vars => Gone' \/ LessLeft(w)'
    <3> SUFFICES ASSUME IInv, Left(w), MainStep \/ HandlerStep, ~Gone'
                 PROVE  LessLeft(w)'
      OBVIOUS
    <3>1. Next
      BY DEF Next
    <3>2. <<pc, index, handlers, signals>>' # <<pc, index, handlers, signals>>
      <4>1. CASE MainStep
        <5>1. MainWork' < MainWork /\ MainWork \in Nat
          BY <4>1, MainWorkLowers, WorkIsNatural DEF Left, IInv, NaturalWork
        <5>2. UNCHANGED <<pc, index>> => UNCHANGED MainWork
          BY DEF MainWork
        <5>3. ~UNCHANGED <<pc, index>>
          BY <5>1, <5>2
        <5> QED
          BY <5>3
      <4>2. CASE HandlerStep
        <5>1. /\ Len(handlers)' < Len(handlers) \/ FrameWork' < FrameWork
              /\ Len(handlers) \in Nat /\ FrameWork \in Nat
          BY <4>2, HandlerWorkLowers, WorkIsNatural DEF IInv, NaturalWork
        <5>2. UNCHANGED handlers => UNCHANGED Len(handlers) /\ UNCHANGED FrameWork
          BY DEF FrameWork, Frame
        <5>3. ~UNCHANGED handlers
          BY <5>1, <5>2
        <5> QED
          BY <5>3
      <4> QED
        BY <4>1, <4>2
    <3>3. Lower(StopWork', StopWork)
      BY <3>1, <3>2, StopStepLowers DEF Left
    <3>4. StopWork' \in Work
      BY <3>1, NextIInv, WorkStaysNatural DEF IInv, NaturalWork, StopWork, Work
    <3>5. ~running'
      BY <3>1, StopIsFinal DEF Left
    <3> QED
      BY <3>3, <3>4, <3>5 DEF Left, LessLeft
  <2>3. StepsCanBeTaken /\ Left(w) => ENABLED <<MainStep \/ HandlerStep>>_vars
    BY DEF StepsCanBeTaken, Left, Gone
  <2> QED
    BY <2>1, <2>2, <2>3, InvariantHolds, PTL DEF FairSpec, Spec
<1> QED
  BY <1>1

\* The rule by which the steps of StopAdvances make a stop that ends, the induction on
\* a well-founded order (WorkIsFounded): every behaviour has it, and the provers
\* cannot show it.
StopDescent ==
    (\A w \in Work : Left(w) ~> Gone \/ \E v \in Work : Lower(v, w) /\ Left(v))
    => ((\E w \in Work : Left(w)) ~> Gone)

\* However stuck the children are, a stop signal ends the supervisor, with any number
\* of components, of stop signals and of handlers one in the other.
THEOREM StopEnds ==
    FairSpec /\ []StepsCanBeTaken /\ StopDescent => StopCompletes
<1>1. ASSUME NEW w \in Work
      PROVE  FairSpec /\ []StepsCanBeTaken =>
                (Left(w) ~> Gone \/ \E v \in Work : Lower(v, w) /\ Left(v))
  <2>1. FairSpec /\ []StepsCanBeTaken => (Left(w) ~> Gone \/ LessLeft(w))
    BY StopAdvances
  <2>2. LessLeft(w) => \E v \in Work : Lower(v, w) /\ Left(v)
    BY DEF LessLeft, Left
  <2> QED
    BY <2>1, <2>2, PTL
<1>2. FairSpec /\ []StepsCanBeTaken =>
        \A w \in Work : Left(w) ~> Gone \/ \E v \in Work : Lower(v, w) /\ Left(v)
  BY <1>1
<1>3. IInv /\ ~running => Gone \/ \E w \in Work : Left(w)
  BY WorkIsNatural DEF IInv, NaturalWork, StopWork, Work, Left
<1>4. Gone <=> pc \in {"stopped", "crashed"}
  BY DEF Gone
<1> QED
  BY <1>2, <1>3, <1>4, InvariantHolds, PTL DEF FairSpec, Spec, StopDescent, StopCompletes
-----------------------------------------------------------------------------
(* The watchdog's rounds, up to the same rule.                             *)

InRound(n) == ~Sleeping /\ ~Ended /\ MainWork = n
FurtherOn(n) == ~Sleeping /\ ~Ended /\ MainWork \in Nat /\ MainWork < n

\* Without a stop signal, a step of the watchdog brings its round on, or ends it.
LEMMA RoundGoesOn ==
    ASSUME IInv, ~Sleeping, ~Ended, MainStep \/ HandlerStep
    PROVE  Sleeping' \/ Ended' \/ MainWork' < MainWork
<1> USE SupervisorAssumption
    DEF IInv, TypeOK, StopCovers, Components, MainWork, Sleeping, Ended
<1>1. ~HandlerStep
  BY DEF HandlerStep, Terminate, WaitReturns, WaitTimesOut
<1>2. CASE VisitComponent
  BY <1>2 DEF VisitComponent, NextComponent
<1>3. CASE Spawn
  BY <1>3 DEF Spawn
<1>4. CASE Record
  BY <1>4 DEF Record, NextComponent
<1>5. CASE ScriptMissing
  BY <1>5 DEF ScriptMissing, NextComponent
<1>6. CASE SpawnRaises \/ WakeUp
  BY <1>6 DEF SpawnRaises, WakeUp
<1> QED
  BY <1>1, <1>2, <1>3, <1>4, <1>5, <1>6 DEF MainStep

LEMMA OthersLeaveMain ==
    ASSUME IInv, [Next]_vars, ~(MainStep \/ HandlerStep)
    PROVE  UNCHANGED <<pc, index>>
BY DEF Next, ChildDies, ChildWedges, ChildEnds, Signal, mainVars, vars

\* The induction step of the rounds DeadAreReplaced asks for: the watchdog wakes from
\* every sleep, and a round that is under way ends or has less before it, whatever
\* the processes do.
THEOREM WatchAdvances ==
    FairSpec /\ []StepsCanBeTaken =>
        /\ Sleeping ~> ~Sleeping \/ Ended
        /\ \A n \in Nat : InRound(n) ~> Sleeping \/ Ended \/ FurtherOn(n)
<1>1. FairSpec /\ []StepsCanBeTaken => (Sleeping ~> ~Sleeping \/ Ended)
  <2>1. IInv /\ Sleeping /\ <<MainStep \/ HandlerStep>>_vars => ~Sleeping' \/ Ended'
    BY DEF IInv, StopCovers, Sleeping, Ended, MainStep, VisitComponent, Spawn, Record,
       ScriptMissing, SpawnRaises, WakeUp, HandlerStep, Terminate, WaitReturns,
       WaitTimesOut
  <2>2. StepsCanBeTaken /\ Sleeping => ENABLED <<MainStep \/ HandlerStep>>_vars
    BY DEF StepsCanBeTaken, Sleeping
  <2> QED
    BY <2>1, <2>2, InvariantHolds, PTL DEF FairSpec, Spec
<1>2. ASSUME NEW n \in Nat
      PROVE  FairSpec /\ []StepsCanBeTaken
                 => (InRound(n) ~> Sleeping \/ Ended \/ FurtherOn(n))
  <2>1. IInv /\ <<MainStep \/ HandlerStep>>_vars /\ InRound(n)
          => Sleeping' \/ Ended' \/ FurtherOn(n)'
    <3>1. IInv /\ (MainStep \/ HandlerStep) => MainWork' \in Nat
      BY NextIInv, WorkStaysNatural DEF IInv, NaturalWork, Next
    <3> QED
      BY <3>1, RoundGoesOn DEF InRound, FurtherOn
  <2>2. IInv /\ [Next]_vars /\ InRound(n)
          => InRound(n)' \/ Sleeping' \/ Ended' \/ FurtherOn(n)'
    <3> SUFFICES ASSUME IInv, [Next]_vars, InRound(n), ~Sleeping', ~Ended'
                 PROVE  InRound(n)' \/ FurtherOn(n)'
      OBVIOUS
    <3>1. CASE MainStep \/ HandlerStep
      <4>1. MainWork' \in Nat
        BY NextIInv, WorkStaysNatural DEF IInv, NaturalWork
      <4> QED
        BY <3>1, <4>1, RoundGoesOn DEF InRound, FurtherOn
    <3>2. CASE ~(MainStep \/ HandlerStep)
      <4>1. UNCHANGED <<pc, index>>
        BY <3>2, OthersLeaveMain
      <4>2. UNCHANGED MainWork
        BY <4>1 DEF MainWork
      <4> QED
        BY <4>2 DEF InRound
    <3> QED
      BY <3>1, <3>2
  <2>3. IInv /\ StepsCanBeTaken /\ InRound(n)
          => ENABLED <<MainStep \/ HandlerStep>>_vars
    <3>1. IInv /\ InRound(n) => pc \notin {"stopped", "crashed"}
      BY DEF IInv, StopCovers, InRound, Ended
    <3> QED
      BY <3>1 DEF StepsCanBeTaken
  <2> QED
    BY <2>1, <2>2, <2>3, InvariantHolds, PTL DEF FairSpec, Spec
<1> QED
  BY <1>1, <1>2

\* The same rule for the steps of WatchAdvances.
RoundDescent ==
    (\A n \in Nat : InRound(n) ~> Sleeping \/ Ended \/ \E m \in 0..(n - 1) : InRound(m))
    => ((\E n \in Nat : InRound(n)) ~> Sleeping \/ Ended)

\* A child that dies is replaced, unless the gateway is being stopped or Popen raises:
\* the rounds that DeadAreReplaced asks for come.
THEOREM DeadAreReplacedFairly ==
    FairSpec /\ []StepsCanBeTaken /\ RoundDescent /\ <>[][~ScriptMissing]_vars
        => WatchdogRestarts
<1>1. ASSUME NEW n \in Nat
      PROVE  FairSpec /\ []StepsCanBeTaken =>
                (InRound(n) ~> Sleeping \/ Ended \/ \E m \in 0..(n - 1) : InRound(m))
  <2>1. FairSpec /\ []StepsCanBeTaken
            => (InRound(n) ~> Sleeping \/ Ended \/ FurtherOn(n))
    BY WatchAdvances
  <2>2. FurtherOn(n) => \E m \in 0..(n - 1) : InRound(m)
    BY DEF FurtherOn, InRound
  <2> QED
    BY <2>1, <2>2, PTL
<1>2. FairSpec /\ []StepsCanBeTaken =>
        \A n \in Nat :
            InRound(n) ~> Sleeping \/ Ended \/ \E m \in 0..(n - 1) : InRound(m)
  BY <1>1
<1>3. IInv => Sleeping \/ Ended \/ \E n \in Nat : InRound(n)
  BY WorkIsNatural DEF IInv, NaturalWork, InRound
<1>4. FairSpec /\ []StepsCanBeTaken => (Sleeping ~> ~Sleeping \/ Ended)
  BY WatchAdvances
<1>5. FairSpec /\ []StepsCanBeTaken /\ RoundDescent => GoesRound
  BY <1>2, <1>3, <1>4, InvariantHolds, PTL DEF FairSpec, Spec, RoundDescent, GoesRound
<1> QED
  BY <1>5, DeadAreReplaced, PTL DEF FairSpec
=============================================================================
