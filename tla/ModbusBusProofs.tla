--------------------------- MODULE ModbusBusProofs ---------------------------
(***************************************************************************)
(* Proofs about ModbusBus, for any devices and any number of clients.      *)
(* The two locks are locals of run_device and execute_command in disguise: *)
(* IInv says which are held at each point of each thread.                  *)
(***************************************************************************)
EXTENDS ModbusBus, TLAPS, SequenceTheorems

\* Where a thread is inside its `with lock`, and inside its `with bus_lock`.
HoldsDevice(t) ==
    pc[t] \in {"bus", "reap", "connect", "poll", "write", "nack",
               "nackNoClient", "close", "join", "release"}
HoldsBus(t) ==
    \/ pc[t] \in {"reap", "connect", "poll", "write"}
    \/ t = "poller" /\ pc[t] \in {"close", "join"}

\* A thread inside its `with lock` holds the lock of the device it works on.
DeviceLocked ==
    \A t \in Threads :
        /\ HoldsDevice(t) => device[t] \in Devices /\ devLock[device[t]] = t
        /\ pc[t] = "device" => device[t] \in Devices

BusLocked ==
    \A t \in Threads :
        /\ pc[t] \in {"bus", "reap"} => device[t] \in Serial
        /\ HoldsBus(t) /\ device[t] \in Serial => busLock = t

\* A thread has a client only from connect() to the end of join(), open until
\* close_client_with_timeout starts to close it.
ClientInUse ==
    \A t \in Threads : client[t] # NoClient =>
        /\ pc[t] \in {"poll", "write", "nack", "close", "join"}
        /\ pc[t] # "join" => handle[client[t]] = "open"
        /\ Busy(client[t]) => target[client[t]] = device[t]

ClientsApart ==
    client["poller"] = client["commands"] => client["poller"] = NoClient

IInv ==
    /\ TypeOK /\ DeviceLocked /\ BusLocked /\ ClientInUse /\ ClientsApart
    /\ NoHandleForgotten
-----------------------------------------------------------------------------
LEMMA DevicesOfList == \A k \in 1..Len(DeviceList) : DeviceList[k] \in Devices
BY BusAssumption, ElementOfSeq

LEMMA InitIInv == Init => IInv
<1> SUFFICES ASSUME Init PROVE IInv
  OBVIOUS
<1> USE BusAssumption DEF Init, Threads
<1>1. TypeOK
  BY EmptySeq DEF TypeOK, PollerPoints, CommandPoints
<1> QED
  BY <1>1 DEF IInv, DeviceLocked, BusLocked, ClientInUse, ClientsApart,
     NoHandleForgotten, HoldsDevice, HoldsBus, Busy

(* One lemma for each step, or for steps that disturb the same conjuncts.  *)

LEMMA TakeBusIInv ==
    ASSUME IInv, NEW t \in Threads, TakeBus(t) \/ Reap(t)
    PROVE  IInv'
<1> USE BusAssumption DEF IInv, TakeBus, Reap, Goto, Threads, StillAlive
<1>1. TypeOK'
  BY DEF TypeOK, PollerPoints, CommandPoints
<1>2. DeviceLocked' /\ BusLocked'
  BY DEF TypeOK, DeviceLocked, BusLocked, HoldsDevice, HoldsBus
<1>3. UNCHANGED <<client, handle, target, device>>
  OBVIOUS
<1>4. ClientInUse'
  BY <1>3 DEF TypeOK, ClientInUse, Busy
<1>5. \A k \in tracked : Busy(k) => k \in tracked'
  OBVIOUS
<1>6. ClientsApart' /\ NoHandleForgotten'
  BY <1>3, <1>5 DEF ClientsApart, NoHandleForgotten, Busy
<1> QED
  BY <1>1, <1>2, <1>4, <1>6

LEMMA StartCloseIInv ==
    ASSUME IInv, NEW t \in Threads, StartClose(t)
    PROVE  IInv'
<1> USE BusAssumption DEF IInv, StartClose, Goto, Threads, StillAlive
<1>1. TypeOK'
  <2>1. handle' \in [Clients -> {"closed", "open", "closing"}]
    BY DEF TypeOK
  <2>2. tracked' \subseteq Clients /\ \A u \in Threads : client[u] \notin tracked'
    BY DEF TypeOK
  <2>3. /\ pc' \in [Threads -> PollerPoints \cup CommandPoints]
        /\ pc'["poller"] \in PollerPoints /\ pc'["commands"] \in CommandPoints
    BY DEF TypeOK, PollerPoints, CommandPoints
  <2> QED
    BY <2>1, <2>2, <2>3 DEF TypeOK
<1>2. DeviceLocked' /\ BusLocked'
  BY DEF TypeOK, DeviceLocked, BusLocked, HoldsDevice, HoldsBus
<1>3. /\ UNCHANGED <<client, target, device>>
      /\ pc' = [pc EXCEPT ![t] = "join"]
      /\ pc \in [Threads -> PollerPoints \cup CommandPoints]
  BY DEF TypeOK
<1>4. \A k \in Clients : Busy(k)' => Busy(k) \/ \E u \in Threads : client[u] = k
  BY DEF TypeOK, Busy
<1>5. \A k \in tracked : Busy(k)' => k \in tracked'
  BY DEF TypeOK, Busy
<1>6. ClientInUse'
  <2> SUFFICES ASSUME NEW u \in Threads, client[u] # NoClient
               PROVE  /\ pc'[u] \in {"poll", "write", "nack", "close", "join"}
                      /\ pc'[u] # "join" => handle'[client[u]] = "open"
                      /\ handle'[client[u]] # "closed" => target[client[u]] = device[u]
    BY <1>3 DEF ClientInUse, Busy
  <2>1. CASE u = t
    BY <1>3, <2>1 DEF TypeOK, ClientInUse, Busy
  <2>2. CASE u # t
    <3>1. client[u] # client[t]
      BY <2>2 DEF ClientsApart
    <3>2. handle'[client[u]] = handle[client[u]]
      BY <3>1 DEF TypeOK
    <3> QED
      BY <1>3, <2>2, <3>2 DEF ClientInUse, Busy
  <2> QED
    BY <2>1, <2>2
<1>7. ClientsApart' /\ NoHandleForgotten'
  BY <1>3, <1>4, <1>5 DEF ClientsApart, NoHandleForgotten
<1> QED
  BY <1>1, <1>2, <1>6, <1>7

LEMMA JoinIInv ==
    ASSUME IInv, NEW t \in Threads, Join(t)
    PROVE  IInv'
<1> USE BusAssumption DEF IInv, Join, Goto, Threads, ReleaseBus
<1>1. TypeOK'
  <2>1. /\ client' \in [Threads -> Clients \cup {NoClient}]
        /\ client'[t] = NoClient
        /\ \A u \in Threads \ {t} : client'[u] = client[u]
    BY DEF TypeOK
  <2>2. tracked' \subseteq tracked \cup {client[t]} /\ tracked' \subseteq Clients
    BY DEF TypeOK
  <2>3. NoClient \notin tracked'
    BY <2>2
  <2>4. ASSUME NEW u \in Threads \ {t} PROVE client'[u] \notin tracked'
    <3>1. client[u] \notin tracked
      BY DEF TypeOK
    <3>2. client[u] # client[t] \/ client[u] = NoClient
      BY <2>4 DEF ClientsApart
    <3> QED
      BY <2>1, <2>2, <2>3, <3>1, <3>2
  <2>5. /\ pc' \in [Threads -> PollerPoints \cup CommandPoints]
        /\ pc'["poller"] \in PollerPoints /\ pc'["commands"] \in CommandPoints
    BY DEF TypeOK, PollerPoints, CommandPoints
  <2>6. busLock' \in Threads \cup {"free"}
    BY DEF TypeOK
  <2> QED
    BY <2>1, <2>2, <2>3, <2>4, <2>5, <2>6 DEF TypeOK
<1>2. DeviceLocked' /\ BusLocked'
  BY DEF TypeOK, DeviceLocked, BusLocked, HoldsDevice, HoldsBus
<1>3. ClientInUse' /\ ClientsApart' /\ NoHandleForgotten'
  BY DEF TypeOK, ClientInUse, ClientsApart, NoHandleForgotten, Busy
<1> QED
  BY <1>1, <1>2, <1>3

LEMMA ConnectedIInv ==
    ASSUME IInv, PollerConnected \/ CommandConnected
    PROVE  IInv'
<1> USE BusAssumption DEF IInv, PollerConnected, CommandConnected, Connected,
        Goto, Threads, Spare
<1>1. TypeOK'
  <2>1. PICK t \in Threads, k \in Clients :
              /\ Spare(k) /\ pc[t] = "connect"
              /\ client' = [client EXCEPT ![t] = k]
              /\ handle' = [handle EXCEPT ![k] = "open"]
              /\ target' = [target EXCEPT ![k] = device[t]]
              /\ UNCHANGED <<devLock, busLock, device, cycle, tracked>>
    OBVIOUS
  <2>2. /\ client' \in [Threads -> Clients \cup {NoClient}]
        /\ \A u \in Threads : client'[u] \notin tracked
        /\ handle' \in [Clients -> {"closed", "open", "closing"}]
        /\ target' \in [Clients -> Devices \cup {NoDevice}]
    BY <2>1 DEF TypeOK
  <2>3. /\ pc' \in [Threads -> PollerPoints \cup CommandPoints]
        /\ pc'["poller"] \in PollerPoints /\ pc'["commands"] \in CommandPoints
    BY DEF TypeOK, PollerPoints, CommandPoints
  <2> QED
    BY <2>1, <2>2, <2>3 DEF TypeOK
<1>2. DeviceLocked' /\ BusLocked'
  BY DEF TypeOK, DeviceLocked, BusLocked, HoldsDevice, HoldsBus
<1>3. ClientInUse' /\ ClientsApart' /\ NoHandleForgotten'
  BY DEF TypeOK, ClientInUse, ClientsApart, NoHandleForgotten, Busy
<1> QED
  BY <1>1, <1>2, <1>3

LEMMA NotConnectedIInv ==
    ASSUME IInv, PollerNotConnected \/ CommandNotConnected
    PROVE  IInv'
<1> USE BusAssumption DEF IInv, PollerNotConnected, CommandNotConnected, Goto,
        Threads, ReleaseBus
<1>1. TypeOK'
  <2>1. /\ pc' \in [Threads -> PollerPoints \cup CommandPoints]
        /\ pc'["poller"] \in PollerPoints /\ pc'["commands"] \in CommandPoints
    BY DEF TypeOK, PollerPoints, CommandPoints
  <2>2. busLock' \in Threads \cup {"free"}
    BY DEF TypeOK
  <2> QED
    BY <2>1, <2>2 DEF TypeOK
<1>2. DeviceLocked'
  BY DEF TypeOK, DeviceLocked, HoldsDevice
<1>4. ASSUME PollerNotConnected PROVE BusLocked'
  BY <1>4 DEF TypeOK, BusLocked, HoldsBus
<1>5. ASSUME CommandNotConnected PROVE BusLocked'
  BY <1>5 DEF TypeOK, BusLocked, HoldsBus
<1>3. ClientInUse' /\ ClientsApart' /\ NoHandleForgotten'
  BY DEF TypeOK, ClientInUse, ClientsApart, NoHandleForgotten, Busy
<1> QED
  BY <1>1, <1>2, <1>3, <1>4, <1>5

\* The rounds of the poll loop, outside the device lock or at its edges.
LEMMA RoundIInv ==
    ASSUME IInv, \/ StartCycle \/ EndCycle \/ SkipDevice \/ SkipUnsupported
                 \/ TakeDevice \/ PollTags \/ ReleaseDevice
    PROVE  IInv'
<1> USE BusAssumption DEF IInv, StartCycle, EndCycle, SkipDevice,
        SkipUnsupported, TakeDevice, PollTags, ReleaseDevice, Goto, Threads
<1>0. cycle # <<>> => Head(cycle) \in Devices /\ Tail(cycle) \in Seq(Devices)
  BY HeadTailProperties DEF TypeOK
<1>1. TypeOK'
  <2>1. /\ pc' \in [Threads -> PollerPoints \cup CommandPoints]
        /\ pc'["poller"] \in PollerPoints /\ pc'["commands"] \in CommandPoints
    BY DEF TypeOK, PollerPoints, CommandPoints
  <2>2. cycle' \in Seq(Devices)
    BY <1>0 DEF TypeOK
  <2>3. devLock' \in [Devices -> Threads \cup {"free"}]
    BY DEF TypeOK
  <2>4. device' \in [Threads -> Devices \cup {NoDevice}]
    BY <1>0 DEF TypeOK
  <2>5. UNCHANGED <<busLock, client, handle, target, tracked>>
    OBVIOUS
  <2> QED
    BY <2>1, <2>2, <2>3, <2>4, <2>5 DEF TypeOK
<1>2. DeviceLocked' /\ BusLocked'
  BY <1>0 DEF TypeOK, DeviceLocked, BusLocked, HoldsDevice, HoldsBus
<1>3. ClientInUse' /\ ClientsApart' /\ NoHandleForgotten'
  BY DEF TypeOK, ClientInUse, ClientsApart, NoHandleForgotten, Busy
<1> QED
  BY <1>1, <1>2, <1>3

LEMMA CommandIInv ==
    ASSUME IInv, \/ \E d \in Devices : ReceiveCommand(d)
                 \/ CommandTakesDevice \/ CommandWrites \/ ReportFailure
                 \/ CommandReleasesDevice
    PROVE  IInv'
<1> USE BusAssumption DEF IInv, Goto, Threads
<1>1. TypeOK'
  BY DEF TypeOK, PollerPoints, CommandPoints, ReceiveCommand,
     CommandTakesDevice, CommandWrites, ReportFailure, CommandReleasesDevice,
     ReleaseBus
<1>2. DeviceLocked' /\ BusLocked'
  <2> USE DEF TypeOK, DeviceLocked, BusLocked, HoldsDevice, HoldsBus
  <2>1. CASE \E d \in Devices : ReceiveCommand(d)
    BY <2>1 DEF ReceiveCommand
  <2>2. CASE CommandTakesDevice
    BY <2>2 DEF CommandTakesDevice
  <2>3. CASE CommandWrites
    <3>1. /\ pc["commands"] = "write" /\ pc'["commands"] \in {"close", "nack"}
          /\ pc'["poller"] = pc["poller"]
          /\ busLock' = IF busLock = "commands" THEN "free" ELSE busLock
          /\ UNCHANGED <<device, devLock>>
      BY <2>3 DEF CommandWrites, ReleaseBus
    <3>2. DeviceLocked'
      BY <3>1
    <3>3. BusLocked'
      BY <3>1
    <3> QED
      BY <3>2, <3>3
  <2>4. CASE ReportFailure
    BY <2>4 DEF ReportFailure
  <2>5. CASE CommandReleasesDevice
    BY <2>5 DEF CommandReleasesDevice
  <2> QED
    BY <2>1, <2>2, <2>3, <2>4, <2>5
<1>3. ClientInUse' /\ ClientsApart' /\ NoHandleForgotten'
  BY DEF TypeOK, ClientInUse, ClientsApart, NoHandleForgotten, Busy,
     ReceiveCommand, CommandTakesDevice, CommandWrites, ReportFailure,
     CommandReleasesDevice, ReleaseBus
<1> QED
  BY <1>1, <1>2, <1>3

LEMMA CloseReturnsIInv ==
    ASSUME IInv, NEW k \in Clients, CloseReturns(k)
    PROVE  IInv'
<1> USE BusAssumption DEF IInv, CloseReturns, Threads
<1>1. TypeOK'
  BY DEF TypeOK
<1>2. DeviceLocked' /\ BusLocked'
  BY DEF DeviceLocked, BusLocked, HoldsDevice, HoldsBus
<1>3. ClientInUse' /\ ClientsApart' /\ NoHandleForgotten'
  BY DEF TypeOK, ClientInUse, ClientsApart, NoHandleForgotten, Busy
<1> QED
  BY <1>1, <1>2, <1>3

LEMMA StutterIInv == ASSUME IInv, UNCHANGED vars PROVE IInv'
BY DEF vars, IInv, TypeOK, DeviceLocked, BusLocked, ClientInUse, ClientsApart,
   NoHandleForgotten, HoldsDevice, HoldsBus, Busy

LEMMA NextIInv == IInv /\ [Next]_vars => IInv'
<1> SUFFICES ASSUME IInv, [Next]_vars PROVE IInv'
  OBVIOUS
<1> QED
  BY TakeBusIInv, StartCloseIInv, JoinIInv, ConnectedIInv, NotConnectedIInv,
     RoundIInv, CommandIInv, CloseReturnsIInv, StutterIInv
     DEF Next, Shared, PollerStep, CommandStep

THEOREM InvariantHolds == Spec => []IInv
BY InitIInv, NextIInv, PTL DEF Spec
-----------------------------------------------------------------------------
(* What follows.                                                           *)

\* Types, with every client in one place only.
THEOREM TypeCorrect == Spec => []TypeOK
<1>1. IInv => TypeOK
  BY DEF IInv
<1> QED
  BY <1>1, InvariantHolds, PTL

\* A poll and a command never use one device, or the serial bus, at once.
THEOREM TransactionsApart == Spec => []NoCrossTalk
<1>1. IInv => NoCrossTalk
  <2> SUFFICES ASSUME IInv, OnTheWire("poller"), OnTheWire("commands")
               PROVE  /\ device["poller"] # device["commands"]
                      /\ \E t \in Threads : device[t] \notin Serial
    BY DEF NoCrossTalk
  <2>1. HoldsDevice("poller") /\ HoldsDevice("commands")
    BY DEF OnTheWire, HoldsDevice
  <2>2. device["poller"] # device["commands"]
    BY <2>1 DEF IInv, DeviceLocked, Threads
  <2>3. HoldsBus("poller") /\ HoldsBus("commands")
    BY DEF OnTheWire, HoldsBus
  <2>4. ~(device["poller"] \in Serial /\ device["commands"] \in Serial)
    BY <2>3 DEF IInv, BusLocked, Threads
  <2> QED
    BY <2>2, <2>4 DEF Threads
<1> QED
  BY <1>1, InvariantHolds, PTL

\* A handle that may still be held is in use or tracked.
THEOREM HandlesTracked == Spec => []NoHandleForgotten
<1>1. IInv => NoHandleForgotten
  BY DEF IInv
<1> QED
  BY <1>1, InvariantHolds, PTL

\* The bus is opened over a handle in silence only when it is a command's.
THEOREM SilentOnlyWithCommand == Spec => SilentOverlapOnlyWithCommand
<1>1. ASSUME IInv, NEW t \in Threads, NEW k \in Clients, OpensBus(t), BusyOnBus(k)
      PROVE  LogsWarning \/ k = client["commands"]
  <2>1. pc[t] = "reap" /\ Busy(k) /\ target[k] \in Serial
    BY <1>1 DEF OpensBus, BusyOnBus
  <2>2. CASE k \in tracked
    BY <2>1, <2>2 DEF LogsWarning, StillAlive
  <2>3. CASE k = client["poller"]
    <3>1. k # NoClient
      BY BusAssumption
    <3>2. pc["poller"] \in {"poll", "close", "join"} /\ device["poller"] \in Serial
      BY <1>1, <2>1, <2>3, <3>1
         DEF IInv, ClientInUse, Threads, TypeOK, PollerPoints
    <3>3. busLock = "poller"
      BY <1>1, <3>2 DEF IInv, BusLocked, HoldsBus, Threads
    <3>4. busLock = t
      BY <1>1, <2>1 DEF IInv, BusLocked, HoldsBus
    <3> QED
      BY <2>1, <3>2, <3>3, <3>4
  <2> QED
    BY <1>1, <2>1, <2>2, <2>3 DEF IInv, NoHandleForgotten, Threads
<1>2. IInv /\ [Next]_vars =>
        [\A t \in Threads, k \in Clients :
           OpensBus(t) /\ BusyOnBus(k) => LogsWarning \/ k = client["commands"]]_vars
  BY <1>1
<1> QED
  BY <1>2, InvariantHolds, PTL DEF Spec, SilentOverlapOnlyWithCommand
-----------------------------------------------------------------------------
(* The waits. A lock that is not free is held by a thread that is inside    *)
(* its `with` block, and a command that waits for its device has no bus.    *)

LocksInUse ==
    /\ busLock # "free" => HoldsBus(busLock)
    /\ \A d \in Devices : devLock[d] # "free" =>
          HoldsDevice(devLock[d]) /\ device[devLock[d]] = d

WaitInv == IInv /\ LocksInUse

LEMMA SharedKeepsLocks ==
    ASSUME IInv, LocksInUse, NEW t \in Threads, Shared(t)
    PROVE  LocksInUse'
<1> USE DEF IInv, TypeOK, LocksInUse, HoldsDevice, HoldsBus, Threads, Goto,
        PollerPoints, CommandPoints
<1>1. CASE TakeBus(t)
  BY <1>1 DEF TakeBus
<1>2. CASE Reap(t)
  BY <1>2 DEF Reap
<1>3. CASE StartClose(t)
  BY <1>3 DEF StartClose
<1>4. CASE Join(t)
  BY <1>4 DEF Join, ReleaseBus
<1> QED
  BY <1>1, <1>2, <1>3, <1>4 DEF Shared

LEMMA PollerKeepsLocks ==
    ASSUME IInv, LocksInUse, PollerStep
    PROVE  LocksInUse'
<1> USE BusAssumption DEF IInv, TypeOK, LocksInUse, HoldsDevice, HoldsBus, Threads, Goto,
        PollerPoints, CommandPoints
<1>1. CASE StartCycle \/ EndCycle \/ SkipDevice \/ SkipUnsupported
  BY <1>1 DEF StartCycle, EndCycle, SkipDevice, SkipUnsupported
<1>2. CASE TakeDevice
  <2>1. cycle # <<>> => Head(cycle) \in Devices
    BY HeadTailProperties
  <2> QED
    BY <1>2, <2>1 DEF TakeDevice
<1>3. CASE PollerConnected \/ PollTags
  BY <1>3 DEF PollerConnected, Connected, PollTags
<1>4. CASE PollerNotConnected
  BY <1>4 DEF PollerNotConnected, ReleaseBus
<1>5. CASE ReleaseDevice
  <2>1. /\ pc["poller"] = "release" /\ device["poller"] \in Devices
        /\ devLock[device["poller"]] = "poller"
    BY <1>5 DEF ReleaseDevice, DeviceLocked
  <2>2. busLock # "poller"
    BY <2>1
  <2>3. \A d \in Devices : devLock[d] = "poller" => d = device["poller"]
    OBVIOUS
  <2> QED
    BY <1>5, <2>1, <2>2, <2>3 DEF ReleaseDevice
<1> QED
  BY <1>1, <1>2, <1>3, <1>4, <1>5 DEF PollerStep

LEMMA CommandKeepsLocks ==
    ASSUME IInv, LocksInUse, CommandStep \/ \E d \in Devices : ReceiveCommand(d)
    PROVE  LocksInUse'
<1> USE BusAssumption DEF IInv, TypeOK, LocksInUse, HoldsDevice, HoldsBus, Threads, Goto,
        PollerPoints, CommandPoints
<1>1. CASE \E d \in Devices : ReceiveCommand(d)
  BY <1>1 DEF ReceiveCommand
<1>2. CASE CommandTakesDevice
  BY <1>2 DEF CommandTakesDevice, DeviceLocked
<1>3. CASE CommandConnected \/ ReportFailure
  BY <1>3 DEF CommandConnected, Connected, ReportFailure
<1>4. CASE CommandNotConnected \/ CommandWrites
  BY <1>4 DEF CommandNotConnected, CommandWrites, ReleaseBus
<1>5. CASE CommandReleasesDevice
  <2>1. /\ pc["commands"] = "release" /\ device["commands"] \in Devices
        /\ devLock[device["commands"]] = "commands"
    BY <1>5 DEF CommandReleasesDevice, DeviceLocked
  <2>2. busLock # "commands"
    BY <2>1
  <2>3. \A d \in Devices : devLock[d] = "commands" => d = device["commands"]
    OBVIOUS
  <2> QED
    BY <1>5, <2>1, <2>2, <2>3 DEF CommandReleasesDevice
<1> QED
  BY <1>1, <1>2, <1>3, <1>4, <1>5 DEF CommandStep

LEMMA WaitInvHolds == Spec => []WaitInv
<1>1. Init => LocksInUse
  BY DEF Init, LocksInUse
<1>2. IInv /\ LocksInUse /\ [Next]_vars => LocksInUse'
  <2> SUFFICES ASSUME IInv, LocksInUse, [Next]_vars PROVE LocksInUse'
    OBVIOUS
  <2>1. CASE UNCHANGED vars \/ \E k \in Clients : CloseReturns(k)
    BY <2>1 DEF vars, CloseReturns, LocksInUse, HoldsDevice, HoldsBus
  <2> QED
    BY <2>1, SharedKeepsLocks, PollerKeepsLocks, CommandKeepsLocks DEF Next
<1> QED
  BY <1>1, <1>2, InvariantHolds, PTL DEF Spec, WaitInv

\* Nobody waits in a circle, nor for a thread that is outside its `with` block.
THEOREM WaitsEnd == Spec => []WaitsForRunning
<1>1. WaitInv => WaitsForRunning
  BY DEF WaitInv, LocksInUse, HoldsBus, HoldsDevice, WaitsForRunning, IInv, TypeOK, Threads
<1> QED
  BY <1>1, WaitInvHolds, PTL
-----------------------------------------------------------------------------
(* Progress. From connect() on a visit of the poll loop, or a command, goes *)
(* to its end without a wait; so the bus, and then the device, is free      *)
(* again and again for the one that waits.                                  *)

Progress == FairSpec /\ []StepsCanBeTaken

PollerAt(l) == pc["poller"] = l
CommandAt(l) == pc["commands"] = l
BusFree == busLock = "free"
DeviceFree == devLock[device["commands"]] = "free"

\* Where a thread is that has got its locks.
PollerPast == {"reap", "connect", "poll", "close", "join", "release"}
CommandPast == {"reap", "connect", "write", "nack", "nackNoClient", "close", "join",
                "release"}

\* Each thread moves by its own steps.
LEMMA PollerMovesItself ==
    ASSUME IInv, [Next]_vars
    PROVE  PollerStep \/ Shared("poller") \/ UNCHANGED pc["poller"]
BY DEF IInv, TypeOK, Next, Threads, Shared, TakeBus, Reap, StartClose, Join,
   CommandStep, CommandTakesDevice, CommandConnected, Connected, CommandNotConnected,
   CommandWrites, ReportFailure, CommandReleasesDevice, ReceiveCommand, CloseReturns,
   vars, Goto

LEMMA CommandMovesItself ==
    ASSUME IInv, [Next]_vars
    PROVE  \/ CommandStep \/ Shared("commands") \/ UNCHANGED pc["commands"]
           \/ CommandAt("idle")
BY DEF IInv, TypeOK, Next, Threads, Shared, TakeBus, Reap, StartClose, Join,
   PollerStep, StartCycle, EndCycle, SkipDevice, SkipUnsupported, TakeDevice,
   PollerConnected, Connected, PollerNotConnected, PollTags, ReleaseDevice,
   ReceiveCommand, CloseReturns, vars, Goto, CommandAt

\* Where a step of its own takes a thread that has got its locks.
LEMMA PollerSteps ==
    ASSUME IInv, PollerStep \/ Shared("poller")
    PROVE  /\ PollerAt("bus") => PollerAt("reap")'
           /\ PollerAt("reap") => PollerAt("connect")'
           /\ PollerAt("connect") => PollerAt("poll")' \/ PollerAt("release")'
           /\ PollerAt("poll") => PollerAt("close")'
           /\ PollerAt("close") => PollerAt("join")'
           /\ PollerAt("join") => PollerAt("release")'
           /\ PollerAt("release") => PollerAt("next")'
BY DEF IInv, TypeOK, PollerAt, Shared, TakeBus, Reap, StartClose, Join, PollerStep,
   StartCycle, EndCycle, SkipDevice, SkipUnsupported, TakeDevice, PollerConnected,
   Connected, PollerNotConnected, PollTags, ReleaseDevice, Goto, Threads

LEMMA CommandSteps ==
    ASSUME IInv, CommandStep \/ Shared("commands")
    PROVE  /\ CommandAt("device") => CommandAt("bus")' \/ CommandAt("connect")'
           /\ CommandAt("bus") => CommandAt("reap")'
           /\ CommandAt("reap") => CommandAt("connect")'
           /\ CommandAt("connect") => \/ CommandAt("write")' \/ CommandAt("nack")'
                                      \/ CommandAt("nackNoClient")'
           /\ CommandAt("write") => CommandAt("close")' \/ CommandAt("nack")'
           /\ CommandAt("nack") => CommandAt("close")'
           /\ CommandAt("nackNoClient") => CommandAt("release")'
           /\ CommandAt("close") => CommandAt("join")'
           /\ CommandAt("join") => CommandAt("release")'
           /\ CommandAt("release") => CommandAt("idle")'
BY DEF IInv, TypeOK, CommandAt, Shared, TakeBus, Reap, StartClose, Join, CommandStep,
   CommandTakesDevice, CommandConnected, Connected, CommandNotConnected,
   CommandWrites, ReportFailure, CommandReleasesDevice, Goto, Threads

\* The other one is past its waits when it has the bus, and outside its `with`
\* block when the device is not free for the command but no visit is under way.
LEMMA WhoHasIt ==
    ASSUME WaitInv
    PROVE  /\ PollerAt("bus") => BusFree \/ pc["commands"] \in CommandPast
           /\ CommandAt("bus") => BusFree \/ pc["poller"] \in PollerPast
           /\ CommandAt("device") =>
                 \/ DeviceFree \/ pc["poller"] \in PollerPast \/ PollerAt("bus")
<1> USE DEF WaitInv, LocksInUse, IInv, TypeOK, HoldsBus, HoldsDevice, PollerAt, CommandAt,
        BusFree, DeviceFree, PollerPast, CommandPast, Threads, PollerPoints, CommandPoints
<1>1. PollerAt("bus") => BusFree \/ pc["commands"] \in CommandPast
  OBVIOUS
<1>2. CommandAt("bus") => BusFree \/ pc["poller"] \in PollerPast
  OBVIOUS
<1>3. CommandAt("device") =>
          DeviceFree \/ pc["poller"] \in PollerPast \/ PollerAt("bus")
  <2> SUFFICES ASSUME CommandAt("device"), ~DeviceFree
               PROVE  pc["poller"] \in PollerPast \/ PollerAt("bus")
    OBVIOUS
  <2>1. device["commands"] \in Devices
    BY DEF DeviceLocked
  <2>2. devLock[device["commands"]] = "poller"
    BY <2>1
  <2>3. HoldsDevice("poller")
    BY <2>1, <2>2
  <2> QED
    BY <2>3
<1> QED
  BY <1>1, <1>2, <1>3

\* A visit that has got its locks ends.
LEMMA VisitGoesThrough == Progress => (pc["poller"] \in PollerPast ~> PollerAt("next"))
<1>1. pc["poller"] \in PollerPast =>
          \/ PollerAt("reap") \/ PollerAt("connect") \/ PollerAt("poll")
          \/ PollerAt("close") \/ PollerAt("join") \/ PollerAt("release")
  BY DEF PollerPast, PollerAt
<1>2. StepsCanBeTaken /\ (\/ PollerAt("reap") \/ PollerAt("connect") \/ PollerAt("poll")
                          \/ PollerAt("close") \/ PollerAt("join") \/ PollerAt("release"))
          => ENABLED <<PollerStep \/ Shared("poller")>>_vars
  BY DEF StepsCanBeTaken, PollerAt
<1>3. IInv /\ <<PollerStep \/ Shared("poller")>>_vars =>
          /\ PollerAt("reap") => PollerAt("connect")'
          /\ PollerAt("connect") => PollerAt("poll")' \/ PollerAt("release")'
          /\ PollerAt("poll") => PollerAt("close")'
          /\ PollerAt("close") => PollerAt("join")'
          /\ PollerAt("join") => PollerAt("release")'
          /\ PollerAt("release") => PollerAt("next")'
  BY PollerSteps
<1>4. IInv /\ [Next]_vars =>
          /\ PollerAt("reap") => PollerAt("reap")' \/ PollerAt("connect")'
          /\ PollerAt("connect") =>
                 PollerAt("connect")' \/ PollerAt("poll")' \/ PollerAt("release")'
          /\ PollerAt("poll") => PollerAt("poll")' \/ PollerAt("close")'
          /\ PollerAt("close") => PollerAt("close")' \/ PollerAt("join")'
          /\ PollerAt("join") => PollerAt("join")' \/ PollerAt("release")'
          /\ PollerAt("release") => PollerAt("release")' \/ PollerAt("next")'
  BY PollerSteps, PollerMovesItself DEF PollerAt
<1> QED
  BY <1>1, <1>2, <1>3, <1>4, InvariantHolds, PTL
     DEF Progress, FairSpec, Fairness, Spec

\* So does a command.
LEMMA CommandGoesThrough ==
    Progress => (pc["commands"] \in CommandPast ~> CommandAt("idle"))
<1> DEFINE Past == \/ CommandAt("reap") \/ CommandAt("connect") \/ CommandAt("write")
                   \/ CommandAt("nack") \/ CommandAt("nackNoClient")
                   \/ CommandAt("close") \/ CommandAt("join") \/ CommandAt("release")
<1>1. pc["commands"] \in CommandPast => Past
  BY DEF CommandPast, CommandAt
<1>2. StepsCanBeTaken /\ Past => ENABLED <<CommandStep \/ Shared("commands")>>_vars
  BY DEF StepsCanBeTaken, CommandAt
<1>3. IInv /\ <<CommandStep \/ Shared("commands")>>_vars =>
          /\ CommandAt("reap") => CommandAt("connect")'
          /\ CommandAt("connect") => \/ CommandAt("write")' \/ CommandAt("nack")'
                                     \/ CommandAt("nackNoClient")'
          /\ CommandAt("write") => CommandAt("close")' \/ CommandAt("nack")'
          /\ CommandAt("nack") => CommandAt("close")'
          /\ CommandAt("nackNoClient") => CommandAt("release")'
          /\ CommandAt("close") => CommandAt("join")'
          /\ CommandAt("join") => CommandAt("release")'
          /\ CommandAt("release") => CommandAt("idle")'
  BY CommandSteps
<1>4. IInv /\ [Next]_vars =>
          /\ CommandAt("reap") => CommandAt("reap")' \/ CommandAt("connect")'
          /\ CommandAt("connect") => \/ CommandAt("connect")' \/ CommandAt("write")'
                                     \/ CommandAt("nack")' \/ CommandAt("nackNoClient")'
          /\ CommandAt("write") =>
                 CommandAt("write")' \/ CommandAt("close")' \/ CommandAt("nack")'
          /\ CommandAt("nack") => CommandAt("nack")' \/ CommandAt("close")'
          /\ CommandAt("nackNoClient") =>
                 CommandAt("nackNoClient")' \/ CommandAt("release")'
          /\ CommandAt("close") => CommandAt("close")' \/ CommandAt("join")'
          /\ CommandAt("join") => CommandAt("join")' \/ CommandAt("release")'
          /\ CommandAt("release") => CommandAt("release")' \/ CommandAt("idle")'
  BY CommandSteps, CommandMovesItself DEF CommandAt
<1> QED
  BY <1>1, <1>2, <1>3, <1>4, InvariantHolds, PTL
     DEF Progress, FairSpec, Fairness, Spec

\* A visit that waits for the bus gets it: a command that has it comes to its end.
LEMMA VisitGetsBus == Progress => (PollerAt("bus") ~> PollerAt("reap"))
<1>1. WaitInv /\ PollerAt("bus") => BusFree \/ pc["commands"] \in CommandPast
  BY WhoHasIt
<1>2. CommandAt("idle") => ~(pc["commands"] \in CommandPast)
  BY DEF CommandAt, CommandPast
<1>3. StepsCanBeTaken /\ PollerAt("bus") /\ BusFree => ENABLED <<TakeBus("poller")>>_vars
  BY DEF StepsCanBeTaken, PollerAt, BusFree
<1>4. IInv /\ <<TakeBus("poller")>>_vars => PollerAt("reap")'
  BY DEF IInv, TypeOK, TakeBus, Goto, PollerAt, Threads
<1>5. IInv /\ [Next]_vars => (PollerAt("bus") => PollerAt("bus")' \/ PollerAt("reap")')
  BY PollerSteps, PollerMovesItself DEF PollerAt
<1>6. WaitInv => IInv
  BY DEF WaitInv
<1> QED
  BY <1>1, <1>2, <1>3, <1>4, <1>5, <1>6, CommandGoesThrough, WaitInvHolds, PTL
     DEF Progress, FairSpec, Fairness, Spec

\* run_device always returns: no lock, hanging close or command keeps the poll loop
\* in the visit of one device.
THEOREM EveryVisitEnds ==
    FairSpec /\ []StepsCanBeTaken => []<>(pc["poller"] \in {"sleep", "next"})
<1>1. IInv => \/ pc["poller"] \in {"sleep", "next"} \/ PollerAt("bus")
              \/ pc["poller"] \in PollerPast
  BY DEF IInv, TypeOK, PollerPoints, PollerAt, PollerPast
<1>2. /\ PollerAt("reap") => pc["poller"] \in PollerPast
      /\ PollerAt("next") => pc["poller"] \in {"sleep", "next"}
  BY DEF PollerAt, PollerPast
<1> QED
  BY <1>1, <1>2, VisitGoesThrough, VisitGetsBus, InvariantHolds, PTL
     DEF Progress, FairSpec

LEMMA CommandGetsBus == Progress => (CommandAt("bus") ~> CommandAt("reap"))
<1>1. WaitInv /\ CommandAt("bus") => BusFree \/ pc["poller"] \in PollerPast
  BY WhoHasIt
<1>2. PollerAt("next") => ~(pc["poller"] \in PollerPast)
  BY DEF PollerAt, PollerPast
<1>3. StepsCanBeTaken /\ CommandAt("bus") /\ BusFree
          => ENABLED <<TakeBus("commands")>>_vars
  BY DEF StepsCanBeTaken, CommandAt, BusFree
<1>4. IInv /\ <<TakeBus("commands")>>_vars => CommandAt("reap")'
  BY DEF IInv, TypeOK, TakeBus, Goto, CommandAt, Threads
<1>5. IInv /\ [Next]_vars => (CommandAt("bus") => CommandAt("bus")' \/ CommandAt("reap")')
  BY CommandSteps, CommandMovesItself DEF CommandAt
<1>6. WaitInv => IInv
  BY DEF WaitInv
<1> QED
  BY <1>1, <1>2, <1>3, <1>4, <1>5, <1>6, VisitGoesThrough, WaitInvHolds, PTL
     DEF Progress, FairSpec, Fairness, Spec

LEMMA CommandGetsDevice ==
    Progress => (CommandAt("device") ~> CommandAt("bus") \/ CommandAt("connect"))
<1>1. WaitInv /\ CommandAt("device") =>
          DeviceFree \/ ~(pc["poller"] \in {"sleep", "next"})
  BY WhoHasIt DEF PollerAt, PollerPast
<1>2. StepsCanBeTaken /\ CommandAt("device") /\ DeviceFree
          => ENABLED <<CommandTakesDevice>>_vars
  BY DEF StepsCanBeTaken, CommandAt, DeviceFree
<1>3. IInv /\ <<CommandTakesDevice>>_vars => CommandAt("bus")' \/ CommandAt("connect")'
  BY DEF IInv, TypeOK, CommandTakesDevice, Goto, CommandAt, Threads
<1>4. IInv /\ [Next]_vars => (CommandAt("device") => \/ CommandAt("device")'
                                 \/ CommandAt("bus")' \/ CommandAt("connect")')
  BY CommandSteps, CommandMovesItself DEF CommandAt
<1>5. WaitInv => IInv
  BY DEF WaitInv
<1> QED
  BY <1>1, <1>2, <1>3, <1>4, <1>5, EveryVisitEnds, WaitInvHolds, PTL
     DEF Progress, FairSpec, Fairness, Spec

\* Every command gets the lock of its device and, if it needs it, of the bus, and
\* comes to its end, whatever closes hang: provided that the steps fairness speaks
\* of can be taken where their thread is.
THEOREM EveryCommandServed == FairSpec /\ []StepsCanBeTaken => CommandsServed
<1>1. /\ CommandAt("device") <=> pc["commands"] = "device"
      /\ CommandAt("idle") <=> pc["commands"] = "idle"
      /\ CommandAt("reap") \/ CommandAt("connect") => pc["commands"] \in CommandPast
  BY DEF CommandAt, CommandPast
<1> QED
  BY <1>1, CommandGetsDevice, CommandGetsBus, CommandGoesThrough, PTL
     DEF Progress, CommandsServed
-----------------------------------------------------------------------------
(* The round of the poll loop, device by device.                           *)

RoundAt(n) == PollerAt("next") /\ Len(cycle) = n
InVisit(n) == (PollerAt("bus") \/ pc["poller"] \in PollerPast) /\ Len(cycle) < n
Shorter(n) == PollerAt("sleep") \/ (PollerAt("next") /\ Len(cycle) < n)

\* The induction step of PollerNeverFrozen: a round with n devices before it ends, or
\* comes back with fewer, whatever commands and hanging closes do to the visit.
THEOREM RoundAdvances ==
    FairSpec /\ []StepsCanBeTaken => \A n \in Nat : RoundAt(n) ~> Shorter(n)
<1>1. ASSUME NEW n \in Nat
      PROVE  FairSpec /\ []StepsCanBeTaken => (RoundAt(n) ~> Shorter(n))
  <2>1. ASSUME IInv, RoundAt(n), PollerStep \/ Shared("poller")
        PROVE  Shorter(n)' \/ InVisit(n)'
    <3>1. cycle # <<>> => Len(Tail(cycle)) = Len(cycle) - 1 /\ Len(cycle) \in Nat
      BY <2>1, HeadTailProperties, LenProperties DEF IInv, TypeOK
    <3>2. CASE EndCycle
      BY <2>1, <3>2 DEF EndCycle, Goto, Shorter, PollerAt, Threads, IInv, TypeOK
    <3>3. CASE SkipDevice \/ SkipUnsupported
      BY <2>1, <3>1, <3>3 DEF SkipDevice, SkipUnsupported, Shorter, RoundAt, PollerAt
    <3>4. CASE TakeDevice
      <4>1. pc'["poller"] \in {"bus", "connect"} /\ cycle' = Tail(cycle) /\ cycle # <<>>
        BY <2>1, <3>4 DEF TakeDevice, Goto, Threads, IInv, TypeOK
      <4> QED
        BY <2>1, <3>1, <4>1 DEF InVisit, PollerAt, PollerPast, RoundAt
    <3> QED
      BY <2>1, <3>2, <3>3, <3>4
         DEF RoundAt, PollerAt, PollerStep, StartCycle, PollerConnected, Connected,
         PollerNotConnected, PollTags, ReleaseDevice, Shared, TakeBus, Reap, StartClose,
         Join
  <2>2. ASSUME IInv, RoundAt(n), [Next]_vars
        PROVE  RoundAt(n)' \/ Shorter(n)' \/ InVisit(n)'
    <3>1. CASE ~(PollerStep \/ Shared("poller"))
      BY <2>2, <3>1 DEF RoundAt, PollerAt, IInv, TypeOK, Next, Threads, Shared, TakeBus,
         Reap, StartClose, Join, CommandStep, CommandTakesDevice, CommandConnected,
         Connected, CommandNotConnected, CommandWrites, ReportFailure,
         CommandReleasesDevice, ReceiveCommand, CloseReturns, vars, Goto
    <3> QED
      BY <2>1, <2>2, <3>1
  <2>3. ASSUME IInv, InVisit(n), [Next]_vars
        PROVE  InVisit(n)' \/ Shorter(n)'
    <3>1. UNCHANGED cycle
      BY <2>3 DEF InVisit, PollerAt, PollerPast, Next, Threads, Shared, TakeBus, Reap,
         StartClose, Join, PollerStep, StartCycle, EndCycle, SkipDevice, SkipUnsupported,
         TakeDevice, PollerConnected, Connected, PollerNotConnected, PollTags,
         ReleaseDevice, CommandStep, CommandTakesDevice, CommandConnected,
         CommandNotConnected, CommandWrites, ReportFailure, CommandReleasesDevice,
         ReceiveCommand, CloseReturns, vars
    <3>2. \/ PollerAt("bus")' \/ (pc["poller"] \in PollerPast)' \/ PollerAt("next")'
      <4>1. CASE UNCHANGED pc["poller"]
        BY <2>3, <4>1 DEF InVisit, PollerAt, PollerPast
      <4>2. CASE PollerStep \/ Shared("poller")
        BY <2>3, <4>2, PollerSteps DEF InVisit, PollerAt, PollerPast
      <4> QED
        BY <2>3, <4>1, <4>2, PollerMovesItself
    <3> QED
      BY <2>3, <3>1, <3>2 DEF InVisit, Shorter
  <2>4. /\ RoundAt(n) /\ StepsCanBeTaken => ENABLED <<PollerStep \/ Shared("poller")>>_vars
        /\ InVisit(n) => ~(pc["poller"] \in {"sleep", "next"})
    BY DEF RoundAt, InVisit, PollerAt, PollerPast, StepsCanBeTaken
  <2>5. IInv /\ RoundAt(n) /\ <<PollerStep \/ Shared("poller")>>_vars
            => Shorter(n)' \/ InVisit(n)'
    BY <2>1
  <2> QED
    BY <2>2, <2>3, <2>4, <2>5, EveryVisitEnds, InvariantHolds, PTL
       DEF FairSpec, Fairness, Spec
<1> QED
  BY <1>1

\* The rule by which the steps of RoundAdvances make a round that ends, the induction
\* on the naturals: every behaviour has it, and the provers cannot show it.
RoundDescent ==
    (\A n \in Nat : RoundAt(n) ~> PollerAt("sleep") \/ \E m \in 0..(n - 1) : RoundAt(m))
    => ((\E n \in Nat : RoundAt(n)) ~> PollerAt("sleep"))

\* A driver that never returns from close() does not freeze the poll loop, and neither
\* do commands, whatever the devices, clients and lines.
THEOREM RoundsEnd ==
    FairSpec /\ []StepsCanBeTaken /\ RoundDescent => PollerNeverFrozen
<1>1. ASSUME NEW n \in Nat
      PROVE  FairSpec /\ []StepsCanBeTaken =>
                (RoundAt(n) ~> PollerAt("sleep") \/ \E m \in 0..(n - 1) : RoundAt(m))
  <2>1. FairSpec /\ []StepsCanBeTaken => (RoundAt(n) ~> Shorter(n))
    BY RoundAdvances
  <2>2. IInv /\ Shorter(n) => PollerAt("sleep") \/ \E m \in 0..(n - 1) : RoundAt(m)
    BY LenProperties DEF IInv, TypeOK, Shorter, RoundAt
  <2> QED
    BY <2>1, <2>2, InvariantHolds, PTL DEF FairSpec, Spec
<1>2. FairSpec /\ []StepsCanBeTaken =>
        \A n \in Nat :
            RoundAt(n) ~> PollerAt("sleep") \/ \E m \in 0..(n - 1) : RoundAt(m)
  BY <1>1
<1>3. IInv /\ PollerAt("next") => \E n \in Nat : RoundAt(n)
  BY LenProperties DEF IInv, TypeOK, RoundAt
<1>4. pc["poller"] \in {"sleep", "next"} => PollerAt("sleep") \/ PollerAt("next")
  BY DEF PollerAt
<1>5. PollerAt("sleep") <=> pc["poller"] = "sleep"
  BY DEF PollerAt
<1> QED
  BY <1>2, <1>3, <1>4, <1>5, EveryVisitEnds, InvariantHolds, PTL
     DEF FairSpec, Spec, RoundDescent, PollerNeverFrozen
=============================================================================
