------------------------------ MODULE ModbusBus ------------------------------
(***************************************************************************)
(* The poll loop and the command thread of dynamic_modbus_poller.py at     *)
(* work on the same devices: the per-device locks, the one lock of the     *)
(* serial bus, and client.close() run on a thread of its own that may hang *)
(* in the driver for ever (run_device, execute_command,                    *)
(* close_client_with_timeout, reap_pending_close_threads).                 *)
(*                                                                         *)
(* What is read or written is left out: a poll or a write ends well or     *)
(* with an exception. So is DEVICE_STATUS, on which none of this depends:  *)
(* DeviceStatus models it. Commands that the gate rejects before any lock  *)
(* is taken are left out too: they touch nothing modelled here.            *)
(***************************************************************************)
EXTENDS Naturals, Sequences, FiniteSets

CONSTANTS
    DeviceList,     \* the configured devices, in the order they are polled
    Serial,         \* those on the RTU bus
    Unsupported,    \* those of an unknown communication type; the rest are TCP
    Clients,        \* bound: Modbus clients that can exist at once
    NoClient,       \* `client = None`
    NoDevice        \* no call under way

Devices == {DeviceList[k] : k \in DOMAIN DeviceList}

ASSUME BusAssumption ==
    /\ DeviceList \in Seq(Devices) /\ DeviceList # <<>>
    /\ Serial \subseteq Devices
    /\ Unsupported \subseteq Devices \ Serial
    /\ NoClient \notin Clients /\ NoDevice \notin Devices

Threads == {"poller", "commands"}

VARIABLES
    devLock,    \* DEVICE_LOCKS: the thread that holds each, or "free"
    busLock,    \* MODBUS_SERIAL_LOCK
    pc,         \* where each thread is
    device,     \* the device each thread works on
    client,     \* the local `client` of each thread
    cycle,      \* devices the poll loop has still to visit in this round
    handle,     \* each client: "closed", "open", or "closing" on its thread
    target,     \* the device each handle is held on, if it may be
    tracked     \* _PENDING_CLOSE_THREADS, by the client they close

vars == <<devLock, busLock, pc, device, client, cycle, handle, target,
          tracked>>

Busy(k) == handle[k] # "closed"     \* the OS may still hold its handle
Spare(k) == ~Busy(k) /\ k \notin tracked /\ \A t \in Threads : client[t] # k

Goto(t, l) == pc' = [pc EXCEPT ![t] = l]

Init ==
    /\ devLock = [d \in Devices |-> "free"]
    /\ busLock = "free"
    /\ pc = [t \in Threads |-> IF t = "poller" THEN "sleep" ELSE "idle"]
    /\ device = [t \in Threads |-> NoDevice]
    /\ client = [t \in Threads |-> NoClient]
    /\ cycle = <<>>
    /\ handle = [k \in Clients |-> "closed"]
    /\ target = [k \in Clients |-> NoDevice]
    /\ tracked = {}
-----------------------------------------------------------------------------
(* Steps the two threads share. A thread t with its device lock goes        *)
(* "bus" -> "reap" -> "connect", or to "connect" at once off the bus.       *)

\* Mutant of TakeBus: the serial device is opened without the bus lock.
TakeBusUnlocked(t) ==
    /\ pc[t] = "bus"
    /\ Goto(t, "reap")
    /\ UNCHANGED <<devLock, busLock, device, client, cycle, handle, target,
                   tracked>>
TakeBus(t) ==
    /\ pc[t] = "bus"
    /\ busLock = "free"
    /\ busLock' = t
    /\ Goto(t, "reap")
    /\ UNCHANGED <<devLock, device, client, cycle, handle, target, tracked>>

\* Mutant of StillAlive: the list keeps the threads that have finished.
StillAliveInverted == {k \in tracked : ~Busy(k)}
\* reap_pending_close_threads: forget the threads that have finished.
StillAlive == {k \in tracked : Busy(k)}

LogsWarning == StillAlive # {}

Reap(t) ==
    /\ pc[t] = "reap"
    /\ tracked' = StillAlive
    /\ Goto(t, "connect")
    /\ UNCHANGED <<devLock, busLock, device, client, cycle, handle, target>>

ReleaseBus(t) == busLock' = IF busLock = t THEN "free" ELSE busLock

\* create_modbus_client and connect() succeed; l is what comes next.
Connected(t, l) ==
    \E k \in {j \in Clients : Spare(j)} :
        /\ pc[t] = "connect"
        /\ client' = [client EXCEPT ![t] = k]
        /\ handle' = [handle EXCEPT ![k] = "open"]
        /\ target' = [target EXCEPT ![k] = device[t]]
        /\ Goto(t, l)
        /\ UNCHANGED <<devLock, busLock, device, cycle, tracked>>

\* close_client_with_timeout, up to the start of the closing thread.
StartClose(t) ==
    /\ pc[t] = "close"
    /\ tracked' = StillAlive
    /\ handle' = IF client[t] = NoClient THEN handle
                 ELSE [handle EXCEPT ![client[t]] = "closing"]
    /\ Goto(t, "join")
    /\ UNCHANGED <<devLock, busLock, device, client, cycle, target>>

\* Mutant of Join: join() without a timeout.
JoinWaits(t) ==
    /\ pc[t] = "join"
    /\ client[t] \notin {k \in Clients : Busy(k)}
    /\ client' = [client EXCEPT ![t] = NoClient]
    /\ ReleaseBus(t)
    /\ Goto(t, "release")
    /\ UNCHANGED <<devLock, device, cycle, handle, target, tracked>>
\* Mutant of Join: the abandoned thread is not appended to the list.
JoinForgets(t) ==
    /\ pc[t] = "join"
    /\ client' = [client EXCEPT ![t] = NoClient]
    /\ ReleaseBus(t)
    /\ Goto(t, "release")
    /\ UNCHANGED <<devLock, device, cycle, handle, target, tracked>>
\* ... and from the end of join(): a close that has not returned within
\* CLIENT_CLOSE_TIMEOUT_SECONDS is abandoned, but tracked. The poll loop
\* holds the bus lock so far, the command thread does not any more.
Join(t) ==
    LET k == client[t] IN
    /\ pc[t] = "join"
    /\ tracked' = IF k # NoClient /\ Busy(k) THEN tracked \cup {k} ELSE tracked
    /\ client' = [client EXCEPT ![t] = NoClient]
    /\ ReleaseBus(t)
    /\ Goto(t, "release")
    /\ UNCHANGED <<devLock, device, cycle, handle, target>>

\* The driver lets a close() return. It may never do so.
CloseReturns(k) ==
    /\ handle[k] = "closing"
    /\ handle' = [handle EXCEPT ![k] = "closed"]
    /\ target' = [target EXCEPT ![k] = NoDevice]
    /\ UNCHANGED <<devLock, busLock, pc, device, client, cycle, tracked>>
-----------------------------------------------------------------------------
(* The poll loop of main(): "sleep" -> "next" for each device, and          *)
(* run_device: ... "connect" -> "poll" -> "close" -> "join" -> "release".   *)

StartCycle ==
    /\ pc["poller"] = "sleep"
    /\ cycle' = DeviceList
    /\ Goto("poller", "next")
    /\ UNCHANGED <<devLock, busLock, device, client, handle, target, tracked>>

EndCycle ==
    /\ pc["poller"] = "next"
    /\ cycle = <<>>
    /\ Goto("poller", "sleep")
    /\ UNCHANGED <<devLock, busLock, device, client, cycle, handle, target,
                   tracked>>

\* The device lock is busy: a command is under way, this round is skipped.
SkipDevice ==
    /\ pc["poller"] = "next"
    /\ cycle # <<>>
    /\ devLock[Head(cycle)] # "free"
    /\ cycle' = Tail(cycle)
    /\ UNCHANGED <<devLock, busLock, pc, device, client, handle, target, tracked>>

\* The lock is taken and let go: the type of the device is not known.
SkipUnsupported ==
    /\ pc["poller"] = "next"
    /\ cycle # <<>>
    /\ devLock[Head(cycle)] = "free"
    /\ Head(cycle) \in Unsupported
    /\ cycle' = Tail(cycle)
    /\ UNCHANGED <<devLock, busLock, pc, device, client, handle, target, tracked>>

TakeDevice ==
    LET d == Head(cycle) IN
    /\ pc["poller"] = "next"
    /\ cycle # <<>>
    /\ devLock[d] = "free"
    /\ d \notin Unsupported
    /\ devLock' = [devLock EXCEPT ![d] = "poller"]
    /\ device' = [device EXCEPT !["poller"] = d]
    /\ cycle' = Tail(cycle)
    /\ Goto("poller", IF d \in Serial THEN "bus" ELSE "connect")
    /\ UNCHANGED <<busLock, client, handle, target, tracked>>

PollerConnected == Connected("poller", "poll")

\* Mutant of PollerNotConnected: no `finally` around the device lock.
PollerNotConnectedKeepsLock ==
    /\ pc["poller"] = "connect"
    /\ ReleaseBus("poller")
    /\ Goto("poller", "next")
    /\ UNCHANGED <<devLock, device, client, cycle, handle, target, tracked>>
\* Any exception before the tags are read; connect() leaves no open handle.
PollerNotConnected ==
    /\ pc["poller"] = "connect"
    /\ ReleaseBus("poller")
    /\ Goto("poller", "release")
    /\ UNCHANGED <<devLock, device, client, cycle, handle, target, tracked>>

\* The tags are read; an exception in one is logged and stays inside.
PollTags ==
    /\ pc["poller"] = "poll"
    /\ Goto("poller", "close")
    /\ UNCHANGED <<devLock, busLock, device, client, cycle, handle, target,
                   tracked>>

ReleaseDevice ==
    /\ pc["poller"] = "release"
    /\ devLock' = [devLock EXCEPT ![device["poller"]] = "free"]
    /\ device' = [device EXCEPT !["poller"] = NoDevice]
    /\ Goto("poller", "next")
    /\ UNCHANGED <<busLock, client, cycle, handle, target, tracked>>
-----------------------------------------------------------------------------
(* execute_command: "idle" -> "device" -> ... "connect" -> "write" ->       *)
(* "close" -> "join" -> "release" -> "idle". A failure goes through "nack", *)
(* the report to the cloud, before its client is closed.                    *)

ReceiveCommand(d) ==
    /\ pc["commands"] = "idle"
    /\ device' = [device EXCEPT !["commands"] = d]
    /\ Goto("commands", "device")
    /\ UNCHANGED <<devLock, busLock, client, cycle, handle, target, tracked>>

CommandTakesDevice ==
    LET d == device["commands"] IN
    /\ pc["commands"] = "device"
    /\ devLock[d] = "free"
    /\ devLock' = [devLock EXCEPT ![d] = "commands"]
    /\ Goto("commands", IF d \in Serial THEN "bus" ELSE "connect")
    /\ UNCHANGED <<busLock, device, client, cycle, handle, target, tracked>>

CommandConnected ==
    /\ device["commands"] \notin Unsupported
    /\ Connected("commands", "write")

\* Mutant of CommandNotConnected: the bus is let go after a success only.
CommandNotConnectedKeepsBus ==
    /\ pc["commands"] = "connect"
    /\ \E l \in {"nack", "nackNoClient"} : Goto("commands", l)
    /\ UNCHANGED <<devLock, busLock, device, client, cycle, handle, target, tracked>>
\* create_modbus_client raises and there is no client to close, or connect()
\* fails and leaves a client without a handle.
CommandNotConnected ==
    /\ pc["commands"] = "connect"
    /\ ReleaseBus("commands")
    /\ \E l \in {"nack", "nackNoClient"} : Goto("commands", l)
    /\ UNCHANGED <<devLock, device, client, cycle, handle, target, tracked>>

\* write_command_value, and the end of the `with bus_lock` block.
CommandWrites ==
    /\ pc["commands"] = "write"
    /\ ReleaseBus("commands")
    /\ \E l \in {"close", "nack"} : Goto("commands", l)
    /\ UNCHANGED <<devLock, device, client, cycle, handle, target, tracked>>

\* ack_command(..., "failed") is posted from inside the device lock, and
\* before the `finally` that closes the client.
ReportFailure ==
    /\ pc["commands"] \in {"nack", "nackNoClient"}
    /\ Goto("commands", IF pc["commands"] = "nack" THEN "close" ELSE "release")
    /\ UNCHANGED <<devLock, busLock, device, client, cycle, handle, target,
                   tracked>>

\* The command ends. A success is reported after this, with nothing held.
CommandReleasesDevice ==
    /\ pc["commands"] = "release"
    /\ devLock' = [devLock EXCEPT ![device["commands"]] = "free"]
    /\ device' = [device EXCEPT !["commands"] = NoDevice]
    /\ Goto("commands", "idle")
    /\ UNCHANGED <<busLock, client, cycle, handle, target, tracked>>

-----------------------------------------------------------------------------
Shared(t) == TakeBus(t) \/ Reap(t) \/ StartClose(t) \/ Join(t)

PollerStep ==
    \/ StartCycle \/ EndCycle \/ SkipDevice \/ SkipUnsupported \/ TakeDevice
    \/ PollerConnected \/ PollerNotConnected \/ PollTags \/ ReleaseDevice

CommandStep ==
    \/ CommandTakesDevice \/ CommandConnected \/ CommandNotConnected
    \/ CommandWrites \/ ReportFailure \/ CommandReleasesDevice

Next ==
    \/ \E t \in Threads : Shared(t)
    \/ PollerStep
    \/ \E d \in Devices : ReceiveCommand(d)
    \/ CommandStep
    \/ \E k \in Clients : CloseReturns(k)

Spec == Init /\ [][Next]_vars

(* Both threads run for ever. A thread blocked on a lock that is let go     *)
(* again and again gets it at last: the other one sleeps 0.25 s between two *)
(* rounds. Nothing is asked of CloseReturns, or of commands arriving.       *)
Fairness ==
    /\ WF_vars(PollerStep \/ Shared("poller"))
    /\ WF_vars(CommandStep \/ Shared("commands"))
    /\ SF_vars(TakeBus("poller")) /\ SF_vars(TakeBus("commands"))
    /\ SF_vars(CommandTakesDevice)

FairSpec == Spec /\ Fairness
-----------------------------------------------------------------------------
(* Properties.                                                             *)

PollerPoints == {"sleep", "next", "bus", "reap", "connect", "poll", "close",
                 "join", "release"}
CommandPoints == {"idle", "device", "bus", "reap", "connect", "write", "nack",
                  "nackNoClient", "close", "join", "release"}

\* Types; a client belongs to one thread, or to the list of abandoned ones.
TypeOK ==
    /\ devLock \in [Devices -> Threads \cup {"free"}]
    /\ busLock \in Threads \cup {"free"}
    /\ pc \in [Threads -> PollerPoints \cup CommandPoints]
    /\ pc["poller"] \in PollerPoints /\ pc["commands"] \in CommandPoints
    /\ device \in [Threads -> Devices \cup {NoDevice}]
    /\ client \in [Threads -> Clients \cup {NoClient}]
    /\ cycle \in Seq(Devices)
    /\ handle \in [Clients -> {"closed", "open", "closing"}]
    /\ target \in [Clients -> Devices \cup {NoDevice}]
    /\ tracked \subseteq Clients
    /\ \A t \in Threads : client[t] \notin tracked

OnTheWire(t) == pc[t] \in {"connect", "poll", "write"}

\* A poll and a command never talk to one device at once, nor to two devices
\* of the serial bus.
NoCrossTalk ==
    OnTheWire("poller") /\ OnTheWire("commands") =>
        /\ device["poller"] # device["commands"]
        /\ \E t \in Threads : device[t] \notin Serial

\* "abandoned threads are at least tracked (not leaked)": a client whose
\* handle may still be held is in use by a thread or in the list.
NoHandleForgotten ==
    \A k \in Clients : Busy(k) => k \in tracked \/ \E t \in Threads : client[t] = k

\* A thread that takes the serial bus, as it goes on to open its connection.
OpensBus(t) == pc[t] = "reap" /\ pc'[t] = "connect"
BusyOnBus(k) == Busy(k) /\ target[k] \in Serial

\* Whenever the bus is opened while a former handle on it may still be held,
\* the warning is logged, or the handle is that of a command whose bus lock
\* has been released and whose client is still to be closed.
SilentOverlapOnlyWithCommand ==
    [][\A t \in Threads, k \in Clients :
         OpensBus(t) /\ BusyOnBus(k) => LogsWarning \/ k = client["commands"]]_vars

\* "... so the race is visible instead of silent": the warning is always
\* logged when the bus is opened over a handle that may still be held.
OverlapVisible ==
    [][\A t \in Threads, k \in Clients :
         OpensBus(t) /\ BusyOnBus(k) => LogsWarning]_vars

\* A thread waits for the bus only while the other one works on it, and a command
\* for its device only while that one visits it, and then the bus is not kept from
\* the visit: the locks are always taken in one order, and nothing is left locked.
WaitsForRunning ==
    /\ \A t \in Threads : pc[t] = "bus" /\ busLock # "free" =>
          pc[busLock] \in {"reap", "connect", "poll", "write", "close", "join"}
    /\ \A d \in Devices :
          pc["commands"] = "device" /\ device["commands"] = d /\ devLock[d] # "free" =>
              /\ devLock[d] = "poller" /\ device["poller"] = d
              /\ pc["poller"] = "bus" => busLock = "free"

\* What Fairness is about can be done where its thread is: one that waits for no
\* lock can go on, and one that waits for a free lock can take it.
StepsCanBeTaken ==
    /\ pc["poller"] # "bus" => ENABLED <<PollerStep \/ Shared("poller")>>_vars
    /\ pc["commands"] \notin {"idle", "device", "bus"} =>
          ENABLED <<CommandStep \/ Shared("commands")>>_vars
    /\ pc["poller"] = "bus" /\ busLock = "free" => ENABLED <<TakeBus("poller")>>_vars
    /\ pc["commands"] = "bus" /\ busLock = "free" =>
          ENABLED <<TakeBus("commands")>>_vars
    /\ pc["commands"] = "device" /\ devLock[device["commands"]] = "free" =>
          ENABLED <<CommandTakesDevice>>_vars

NobodyStuck == WaitsForRunning /\ StepsCanBeTaken

\* A driver that never returns from close() does not freeze the poll loop,
\* and neither do commands: every round over the devices ends.
PollerNeverFrozen == []<>(pc["poller"] = "sleep")

\* No lock is left behind: every command gets its locks and comes to an end.
CommandsServed == pc["commands"] = "device" ~> pc["commands"] = "idle"
=============================================================================
