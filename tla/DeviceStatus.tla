----------------------------- MODULE DeviceStatus -----------------------------
(***************************************************************************)
(* What the cloud hears about the devices: the main loop of the poller and *)
(* its DEVICE_STATUS, the snapshot file (device_status.py) and the health  *)
(* reporter, a process of its own (gateway_health_reporter.py).            *)
(*                                                                         *)
(* A device "opens" when client.connect() returns True; on a serial line   *)
(* that is the port's doing, and not the meter's. A device of a type the   *)
(* poller does not support, or with a tag whose id or interval cannot be   *)
(* read, ends its visit as one that does not open.                         *)
(***************************************************************************)
EXTENDS Naturals, FiniteSets

CONSTANTS
    Devices,
    NoFile,         \* the snapshot before it is written for the first time
    MaxChanges,     \* bound on changes of the configuration, and of the devices
    MaxFaults       \* bound on failed reads and deaths of the poller, together

ASSUME StatusAssumption ==
    /\ IsFiniteSet(Devices)
    /\ \A S \in SUBSET Devices : NoFile \notin [S -> {"connected", "failed"}]
    /\ MaxChanges \in Nat /\ MaxFaults \in Nat

VARIABLES
    config,     \* devices of the current configuration
    opens,      \* devices that would open now
    status,     \* DEVICE_STATUS
    phase,      \* main loop: "sleep" or "visit"
    todo,       \* devices of the configuration this round has still to visit
    found,      \* history: what this round's visits found
    file,       \* device_status.json; nobody reads the .tmp beside it
    reporter,   \* health reporter: "sleep" or "post"
    counts,     \* <<connected, failed>> of the payload it builds
    cloud,      \* those of the last report the cloud received
    faults      \* how often each bounded thing has happened

poller == <<status, phase, todo, found>>
health == <<reporter, counts, cloud>>
vars == <<config, opens, poller, file, health, faults>>

Statuses == UNION {[S -> {"connected", "failed"}] : S \in SUBSET Devices}
Nothing == [d \in {} |-> "failed"]

\* A dictionary after s[d] = v.
Put(s, d, v) == [e \in DOMAIN s \cup {d} |-> IF e = d THEN v ELSE s[e]]

With(s, v) == {d \in DOMAIN s : s[d] = v}
CountsOf(s) ==
    <<Cardinality(With(s, "connected")), Cardinality(With(s, "failed"))>>

Init ==
    /\ config \in SUBSET Devices /\ opens \in SUBSET Devices
    /\ status = Nothing /\ phase = "sleep"
    /\ todo = {} /\ found = Nothing
    /\ file = NoFile
    /\ reporter = "sleep" /\ counts = <<0, 0>> /\ cloud = <<0, 0>>
    /\ faults = [config |-> 0, device |-> 0, fault |-> 0]
-----------------------------------------------------------------------------
(* The poller.                                                             *)

\* A round takes the configuration once, and works on it to its end.
StartRound ==
    /\ phase = "sleep"
    /\ todo' = config
    /\ phase' = "visit"
    /\ UNCHANGED <<config, opens, status, found, file, health, faults>>

Visited(d) ==
    /\ phase = "visit" /\ d \in todo
    /\ todo' = todo \ {d}
    /\ UNCHANGED <<config, opens, phase, file, health, faults>>

\* connect() returns True. An exception of process_tag changes nothing.
VisitConnects(d) ==
    /\ d \in opens
    /\ Visited(d)
    /\ status' = Put(status, d, "connected")
    /\ found' = Put(found, d, "connected")

\* Mutant of VisitFails: the exception leaves the status as it was.
VisitFailsSilently(d) ==
    /\ d \notin opens
    /\ Visited(d)
    /\ found' = Put(found, d, "failed")
    /\ UNCHANGED status
\* connect() returns False, or run_device raises, or the type is not supported.
VisitFails(d) ==
    /\ d \notin opens
    /\ Visited(d)
    /\ status' = Put(status, d, "failed")
    /\ found' = Put(found, d, "failed")

\* A command has the device: it is skipped, and keeps the status it has.
VisitSkips(d) ==
    /\ Visited(d)
    /\ UNCHANGED <<status, found>>

EndRound ==
    /\ phase = "visit" /\ todo = {}
    /\ phase' = "sleep" /\ found' = Nothing
    /\ UNCHANGED <<config, opens, status, todo, health, faults>>

\* Mutant of WriteSnapshot: the rename does not replace an old snapshot.
WriteSnapshotOnce ==
    /\ EndRound
    /\ file' = IF file = NoFile THEN status ELSE file
\* write_device_status: the text goes into a temporary file nobody reads, which
\* is then renamed over the snapshot.
WriteSnapshot ==
    /\ EndRound
    /\ file' = status

\* Less than DEVICE_STATUS_WRITE_INTERVAL_SECONDS since the last attempt, or
\* the write or the rename raises (on Windows when the reporter has the
\* snapshot open): logged, and tried again when it is due again.
NoSnapshot ==
    /\ EndRound
    /\ UNCHANGED file

\* The process dies and is started again.
Crash ==
    /\ faults.fault < MaxFaults
    /\ faults' = [faults EXCEPT !.fault = @ + 1]
    /\ status' = Nothing /\ phase' = "sleep"
    /\ todo' = {} /\ found' = Nothing
    /\ UNCHANGED <<config, opens, file, health>>
-----------------------------------------------------------------------------
(* The health reporter. Its own death loses the payload, as PostFails does. *)

\* build_health_payload begins with read_device_counts.
ReadCounts ==
    /\ reporter = "sleep"
    /\ counts' = IF file = NoFile THEN <<0, 0>> ELSE CountsOf(file)
    /\ reporter' = "post"
    /\ UNCHANGED <<config, opens, poller, file, cloud, faults>>

\* The snapshot is there and cannot be read: a warning, and zeros.
ReadFails ==
    /\ reporter = "sleep" /\ file # NoFile
    /\ faults.fault < MaxFaults
    /\ faults' = [faults EXCEPT !.fault = @ + 1]
    /\ counts' = <<0, 0>>
    /\ reporter' = "post"
    /\ UNCHANGED <<config, opens, poller, file, cloud>>

PostHealth ==
    /\ reporter = "post"
    /\ cloud' = counts
    /\ reporter' = "sleep" /\ counts' = <<0, 0>>
    /\ UNCHANGED <<config, opens, poller, file, faults>>

PostFails ==
    /\ reporter = "post"
    /\ reporter' = "sleep" /\ counts' = <<0, 0>>
    /\ UNCHANGED <<config, opens, poller, file, cloud, faults>>
-----------------------------------------------------------------------------
(* The configuration thread, and the devices.                              *)

SetConfiguration ==
    /\ faults.config < MaxChanges
    /\ faults' = [faults EXCEPT !.config = @ + 1]
    /\ config' \in (SUBSET Devices) \ {config}
    /\ UNCHANGED <<opens, poller, file, health>>

DeviceComesOrGoes ==
    /\ faults.device < MaxChanges
    /\ faults' = [faults EXCEPT !.device = @ + 1]
    /\ opens' \in (SUBSET Devices) \ {opens}
    /\ UNCHANGED <<config, poller, file, health>>
-----------------------------------------------------------------------------
Visit(d) == VisitConnects(d) \/ VisitFails(d)

Next ==
    \/ StartRound
    \/ \E d \in Devices :
           VisitConnects(d) \/ VisitFails(d) \/ VisitSkips(d)
    \/ WriteSnapshot \/ NoSnapshot \/ Crash
    \/ ReadCounts \/ ReadFails \/ PostHealth \/ PostFails
    \/ SetConfiguration \/ DeviceComesOrGoes

Spec == Init /\ [][Next]_vars

(* Both processes are endless loops. A device that is visited again and     *)
(* again is free at last (commands end, ModbusBus!CommandsServed), a write  *)
(* falls due 5 s after the last, and one that is tried again and again      *)
(* succeeds, as a report does.                                              *)
Fairness ==
    /\ WF_vars(StartRound)
    /\ \A d \in Devices : SF_vars(Visit(d))
    /\ WF_vars(\E d \in Devices : Visit(d) \/ VisitSkips(d))
    /\ WF_vars(WriteSnapshot \/ NoSnapshot) /\ SF_vars(WriteSnapshot)
    /\ WF_vars(ReadCounts) /\ SF_vars(PostHealth)

FairSpec == Spec /\ Fairness
-----------------------------------------------------------------------------
(* Properties.                                                             *)

Pair == (0..Cardinality(Devices)) \X (0..Cardinality(Devices))

TypeOK ==
    /\ config \subseteq Devices /\ opens \subseteq Devices
    /\ status \in Statuses /\ found \in Statuses
    /\ phase \in {"sleep", "visit"}
    /\ todo \subseteq Devices
    /\ file \in Statuses \cup {NoFile}
    /\ reporter \in {"sleep", "post"}
    /\ counts \in Pair /\ cloud \in Pair
    /\ faults \in [config : 0..MaxChanges, device : 0..MaxChanges,
                   fault : 0..MaxFaults]

\* A snapshot says what the round before it found: a device that was visited
\* has the status of this visit and not of an earlier one, whatever went wrong
\* on the visit, and the device is in it.
SnapshotOfItsRound ==
    [][file' # file =>
        \A d \in DOMAIN found :
            d \in DOMAIN file' /\ file'[d] = found[d]]_vars

\* The devices that are no longer configured and still have a status.
Ghosts == DOMAIN status \ config

\* What the README calls "real device counts": when configuration and devices
\* rest, the cloud comes to hear how many devices connect and how many do not,
\* plus those that were removed from the configuration since the last start,
\* each with the status it had then.
ReportsSettle ==
    <>[](cloud = <<Cardinality((config \cap opens)
                               \cup (Ghosts \cap With(status, "connected"))),
                   Cardinality((config \ opens)
                               \cup (Ghosts \cap With(status, "failed")))>>)
=============================================================================
