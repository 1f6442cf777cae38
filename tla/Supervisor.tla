----------------------------- MODULE Supervisor -----------------------------
(***************************************************************************)
(* start_gateway.py: the watchdog that starts the poller and the health    *)
(* reporter, starts them again when they die, and stops them on a signal.  *)
(*                                                                         *)
(* stop_handler is a Python signal handler: it runs on the main thread,    *)
(* between two of its steps, and main() then goes on where it was. A stop  *)
(* that is signalled twice nests a second handler in the first.            *)
(***************************************************************************)
EXTENDS Naturals, Sequences

CONSTANTS
    NumComponents,  \* length of the list `components`
    MaxSignals,     \* bound on the stop signals delivered
    MaxSpawns       \* bound: a component dies by itself before this process

ASSUME SupervisorAssumption ==
    /\ NumComponents \in Nat \ {0}
    /\ MaxSignals \in Nat
    /\ MaxSpawns \in Nat \ {0}

Components == 1..NumComponents

VARIABLES
    running,    \* the global `running`
    child,      \* component["process"]: the number of the process, 0 is None
    procs,      \* each component: the state of each process it ever had
    pc,         \* where main() is
    index,      \* the component that its current `for` loop is at
    watching,   \* main() is in check_components, not in its first loop
    handlers,   \* the stack of stop_handler frames, the running one last
    signals,    \* stop signals delivered so far
    alerted,    \* the processes the critical message was logged for
    late        \* history: processes started, or stored, after a stop signal

vars == <<running, child, procs, pc, index, watching, handlers, signals,
          alerted, late>>

\* "alive"; "dying": terminate() was called; "wedged": in a wait of a driver
\* that terminate() does not end; "exited".
Exited(c, n) == procs[c][n] = "exited"
Newest(c) == Len(procs[c])

Init ==
    /\ running = TRUE
    /\ child = [c \in Components |-> 0]
    /\ procs = [c \in Components |-> <<>>]
    /\ pc = "start" /\ index = 1 /\ watching = FALSE
    /\ handlers = <<>> /\ signals = 0
    /\ alerted = {} /\ late = {}
-----------------------------------------------------------------------------
(* The children.                                                           *)

mainVars == <<running, child, pc, index, watching, handlers,
              signals, alerted, late>>

\* A process dies by itself.
ChildDies(c) ==
    /\ procs[c] # <<>> /\ procs[c][Newest(c)] = "alive"
    /\ Newest(c) < MaxSpawns
    /\ procs' = [procs EXCEPT ![c][Newest(c)] = "exited"]
    /\ UNCHANGED mainVars

\* A process enters a wait in a driver that nothing cancels.
ChildWedges(c) ==
    /\ procs[c] # <<>> /\ procs[c][Newest(c)] = "alive"
    /\ procs' = [procs EXCEPT ![c][Newest(c)] = "wedged"]
    /\ UNCHANGED mainVars

\* A process that was told to terminate exits.
ChildEnds(c, n) ==
    /\ procs[c][n] = "dying"
    /\ procs' = [procs EXCEPT ![c][n] = "exited"]
    /\ UNCHANGED mainVars
-----------------------------------------------------------------------------
(* main(). It stands still while a handler runs.                           *)
(*   "start"   the head of a loop over the components                      *)
(*   "spawn"   in start_process, before Popen                              *)
(*   "record"  Popen has returned, component["process"] is not yet set     *)
(*   "sleep"   in the watchdog's sleep                                     *)

InMain == handlers = <<>>

\* Mutant of NextComponent: `while True`, and the signal only ends the sleep.
NextComponentUnasked ==
    IF index < NumComponents
      THEN pc' = "start" /\ index' = index + 1
      ELSE pc' = "sleep" /\ index' = 1
\* The end of a loop over the components leads to `while running`.
NextComponent ==
    IF index < NumComponents
      THEN pc' = "start" /\ index' = index + 1
      ELSE pc' = (IF running THEN "sleep" ELSE "stopped") /\ index' = 1

\* Mutant of VisitComponent: poll() is not asked before a restart.
VisitComponentUnasked ==
    /\ InMain /\ pc = "start"
    /\ pc' = "spawn"
    /\ UNCHANGED <<running, child, procs, index, watching, handlers, signals,
                   alerted, late>>
\* Mutant of VisitComponent: `break` where check_components says `continue`.
VisitComponentBreaks ==
    /\ InMain /\ pc = "start"
    /\ LET n == child[index] IN
       IF ~watching \/ (n # 0 /\ Exited(index, n))
         THEN pc' = "spawn" /\ UNCHANGED index
         ELSE pc' = (IF running THEN "sleep" ELSE "stopped") /\ index' = 1
    /\ UNCHANGED <<running, child, procs, watching, handlers, signals, alerted,
                   late>>
\* The body of either loop, up to start_process. The first loop starts every
\* component; check_components passes one that was never started, or that
\* poll() reports as running.
VisitComponent ==
    /\ InMain /\ pc = "start"
    /\ LET n == child[index] IN
       IF ~watching \/ (n # 0 /\ Exited(index, n))
         THEN pc' = "spawn" /\ UNCHANGED index
         ELSE NextComponent
    /\ UNCHANGED <<running, child, procs, watching, handlers, signals, alerted,
                   late>>

\* Popen starts the process.
Spawn ==
    /\ InMain /\ pc = "spawn"
    /\ procs' = [procs EXCEPT ![index] = Append(@, "alive")]
    /\ late' = IF running THEN late ELSE late \cup {<<index, Newest(index) + 1>>}
    /\ pc' = "record"
    /\ UNCHANGED <<running, child, index, watching, handlers, signals,
                   alerted>>

\* component["process"] = process
Record ==
    /\ InMain /\ pc = "record"
    /\ child' = [child EXCEPT ![index] = Newest(index)]
    /\ NextComponent
    /\ UNCHANGED <<running, procs, watching, handlers, signals, alerted,
                   late>>

\* The script is not there: logged, and the component is passed by.
ScriptMissing ==
    /\ InMain /\ pc = "spawn"
    /\ NextComponent
    /\ UNCHANGED <<running, child, procs, watching, handlers, signals, alerted,
                   late>>

\* Popen raises. Nothing catches it: the supervisor is gone.
SpawnRaises ==
    /\ InMain /\ pc = "spawn"
    /\ pc' = "crashed"
    /\ UNCHANGED <<running, child, procs, index, watching, handlers, signals,
                   alerted, late>>

\* The sleep ends; check_components only runs if no stop came meanwhile.
WakeUp ==
    /\ InMain /\ pc = "sleep"
    /\ IF running THEN pc' = "start" /\ watching' = TRUE
                  ELSE pc' = "stopped" /\ UNCHANGED watching
    /\ UNCHANGED <<running, child, procs, index, handlers, signals, alerted, late>>
-----------------------------------------------------------------------------
(* stop_handler: a frame is the loop it is in and the component it is at.  *)

\* SIGTERM or SIGINT, at any step of main() or of a handler.
Signal ==
    /\ pc \notin {"stopped", "crashed"}
    /\ signals < MaxSignals /\ signals' = signals + 1
    /\ running' = FALSE
    /\ handlers' = Append(handlers, [loop |-> "terminate", at |-> 1])
    /\ late' = IF pc = "record" THEN late \cup {<<index, Newest(index)>>} ELSE late
    /\ UNCHANGED <<child, procs, pc, index, watching, alerted>>

Frame == handlers[Len(handlers)]
Return == SubSeq(handlers, 1, Len(handlers) - 1)
SetFrame(f) == handlers' = [handlers EXCEPT ![Len(handlers)] = f]

AdvanceTerminate ==
    SetFrame(IF Frame.at < NumComponents
               THEN [Frame EXCEPT !.at = @ + 1]
               ELSE [loop |-> "wait", at |-> 1])

AdvanceWait ==
    IF Frame.at < NumComponents THEN SetFrame([Frame EXCEPT !.at = @ + 1])
                                ELSE handlers' = Return

\* process.terminate(): no use on a process that is wedged or has exited.
Terminate ==
    LET n == child[Frame.at] IN
    /\ handlers # <<>> /\ Frame.loop = "terminate"
    /\ procs' = IF n # 0 /\ procs[Frame.at][n] = "alive"
                  THEN [procs EXCEPT ![Frame.at][n] = "dying"]
                  ELSE procs
    /\ AdvanceTerminate
    /\ UNCHANGED <<running, child, pc, index, watching, signals, alerted,
                   late>>

\* process.wait(timeout): the process has exited (or never was) ...
WaitReturns ==
    LET n == child[Frame.at] IN
    /\ handlers # <<>> /\ Frame.loop = "wait"
    /\ n # 0 => Exited(Frame.at, n)
    /\ AdvanceWait
    /\ UNCHANGED <<running, child, procs, pc, index, watching, signals, alerted,
                   late>>

\* Mutant of WaitTimesOut: TimeoutExpired is passed over in silence.
WaitTimesOutSilently ==
    LET n == child[Frame.at] IN
    /\ handlers # <<>> /\ Frame.loop = "wait"
    /\ n # 0 /\ ~Exited(Frame.at, n)
    /\ AdvanceWait
    /\ UNCHANGED <<running, child, procs, pc, index, watching, signals, alerted,
                   late>>
\* Mutant of WaitTimesOut: wait() without a timeout.
WaitForever == FALSE /\ UNCHANGED vars
\* ... or CHILD_STOP_TIMEOUT_SECONDS pass, and the critical message is logged.
WaitTimesOut ==
    LET n == child[Frame.at] IN
    /\ handlers # <<>> /\ Frame.loop = "wait"
    /\ n # 0 /\ ~Exited(Frame.at, n)
    /\ alerted' = alerted \cup {<<Frame.at, n>>}
    /\ AdvanceWait
    /\ UNCHANGED <<running, child, procs, pc, index, watching, signals, late>>
-----------------------------------------------------------------------------
MainStep ==
    VisitComponent \/ Spawn \/ Record \/ ScriptMissing \/ SpawnRaises \/ WakeUp

HandlerStep == Terminate \/ WaitReturns \/ WaitTimesOut

Next ==
    \/ \E c \in Components : ChildDies(c) \/ ChildWedges(c)
    \/ \E c \in Components : \E n \in DOMAIN procs[c] : ChildEnds(c, n)
    \/ MainStep
    \/ Signal
    \/ HandlerStep

Spec == Init /\ [][Next]_vars

\* The main thread is always scheduled, and the script is not missing each
\* time it is looked for. Nothing is asked of the children.
FairSpec == Spec /\ WF_vars(MainStep \/ HandlerStep) /\ SF_vars(Spawn)
-----------------------------------------------------------------------------
(* Properties.                                                             *)

Processes == UNION {{c} \X (1..Newest(c)) : c \in Components}
Survivors == {p \in Processes : ~Exited(p[1], p[2])}

\* Types.
TypeOK ==
    /\ running \in BOOLEAN /\ watching \in BOOLEAN
    /\ procs \in [Components -> Seq({"alive", "dying", "wedged", "exited"})]
    /\ child \in [Components -> Nat]
    /\ \A c \in Components : child[c] <= Newest(c)
    /\ pc \in {"start", "spawn", "record", "sleep", "stopped", "crashed"}
    /\ index \in Components
    /\ handlers \in Seq([loop : {"terminate", "wait"}, at : Components])
    /\ signals \in 0..MaxSignals
    /\ alerted \subseteq Processes /\ late \subseteq Processes

\* The watchdog never runs two processes of one component at once, which
\* would be two pollers on one queue and one serial bus.
OneProcessPerComponent ==
    \A p, q \in Survivors : p[1] = q[1] => p = q

\* "Wait for each child to actually exit before this process is considered
\* complete": when the supervisor has stopped, a child that is still there
\* was reported as stuck by the critical message.
NoSilentOrphan == pc = "stopped" => Survivors \subseteq alerted

\* The one exception: a start_process that was under way when the stop was
\* signalled, or that followed it in the loop the signal interrupted.
OrphansOnlyFromInterruptedStart ==
    pc = "stopped" => Survivors \subseteq alerted \cup late

Dead(c, n) == running /\ child[c] = n /\ Exited(c, n)
Ended == ~running \/ pc = "crashed"
Mended(c, n) == child[c] # n \/ Ended
Replaced(c, n) == Dead(c, n) ~> Mended(c, n)

\* A child that dies is replaced, unless the gateway is being stopped or
\* Popen raises; the state of the other component does not matter.
WatchdogRestarts == \A c \in Components, n \in 1..MaxSpawns : Replaced(c, n)

\* What main() has left to do once `running` is false, what the running handler
\* has, and both with the frames below it and the signals that may still come.
MainWork ==
    CASE pc \in {"stopped", "crashed"} -> 0
      [] pc = "sleep" -> 1
      [] pc = "record" -> 3 * (NumComponents - index) + 1
      [] pc = "spawn" -> 3 * (NumComponents - index) + 2
      [] pc = "start" -> 3 * (NumComponents - index) + 3

FrameWork ==
    IF handlers = <<>> THEN 0
    ELSE (NumComponents - Frame.at) + 1
             + (IF Frame.loop = "terminate" THEN NumComponents ELSE 0)

StopWork == <<MaxSignals - signals, MainWork, Len(handlers), FrameWork>>

Lower(v, w) == \E k \in 1..4 : v[k] < w[k] /\ \A j \in 1..(k - 1) : v[j] = w[j]

\* After a stop signal no step of the supervisor is in vain: whatever the children
\* do, and however deep the handlers nest, each one leaves less to do than before,
\* main() after the handlers included.
StopIsBounded ==
    [][~running /\ <<pc, index, handlers, signals>>' # <<pc, index, handlers, signals>>
          => Lower(StopWork', StopWork)]_vars

\* However stuck the children are, a stop signal ends the supervisor.
StopCompletes == ~running ~> pc \in {"stopped", "crashed"}
=============================================================================
