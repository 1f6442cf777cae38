# A TLA+ model of the BBJ Sense gateway

The gateway (`../src`) polls Modbus devices, keeps their readings in a local
queue until the cloud has them, executes commands from the cloud, evaluates
alarm rules on site, and is kept running by a watchdog. This directory models
the parts of it that several threads, faults or restarts make hard to test.
Every module is translated from the Python source; `PROJECT.json` maps each
definition to the lines it stands for.

## The system

Two processes run under a third: `start_gateway.py` starts
`dynamic_modbus_poller.py` and `gateway_health_reporter.py`. The poller has a
main loop and daemon threads: batch flush, queue cleanup, history cleanup,
configuration refresh, commands, alarm evaluator.

| Component | State | Operations | What is hard | What makes it correct |
|---|---|---|---|---|
| Offline queue and upload (`offline_buffer.py`, `flush_pending_batch`) | table `telemetry_queue`: id, payload, status, attempts | enqueue, fetch the oldest, mark sent / failed, clean up | a POST whose answer is lost, an answer that is no batch result, a death between answer and marks, rows the cloud refuses for ever | nothing lost, order kept per tag, nothing resent without a fault, every reading uploaded |
| Polling, locks, closing (`run_device`, `execute_command`, `close_client_with_timeout`) | `DEVICE_LOCKS`, `MODBUS_SERIAL_LOCK`, pending close threads | poll, command, bounded close, reap | two threads on one line, `close()` that hangs in the driver, exceptions with locks held | frames never mix, no lock is left, no handle is forgotten |
| Supervisor (`start_gateway.py`) | `components`, `running` | start, watch, restart, stop on a signal | a signal between any two steps of `main()`, nested signals, children that do not die | one process per component, no orphan, the stop ends |
| Commands (`gateway_commands.py`, `execute_command`) | the fetched list | fetch, gate, write, acknowledge | lost acknowledgements, deaths, a configuration that changes between fetch and write, an exception out of one command | no write repeated without cause, no false success, only writable tags, every command answered once none raises |
| Configuration (`config_cache.py`, `run_config_refresh_loop`) | current configuration, cache file, alarm rules | download, set, cache, hand on the rules; start from the cache | one of three stores fails; a restart from an older file | falls back and lags only when the cache missed a version; settles |
| Alarm evaluator (`edge_alarm_evaluator.py`) | rules, latest readings, active flags | two snapshots, visit, push | pushes that block a round, rules replaced meanwhile, a rule that raises, state lost in a restart | the cloud agrees but for lost pushes, rules settle, no false communication loss |
| Historian (`local_historian.py`) | table of readings, a lock of its own | append, prune by age | SQLite's file lock, shared with the queue, for which a write waits 30 s; disk errors; a death between the two inserts of a reading | the history tells what was queued; a blocked or failing historian never costs the evaluator a reading; the poll loop goes on |
| Device status, health (`device_status.py`, `gateway_health_reporter.py`) | `DEVICE_STATUS`, a snapshot file, the report | update, write by rename; read and report in another process | every exit of `run_device`, entries of removed devices, failed writes and reads, deaths | a snapshot says what its round found; the reports settle on the right counts |
| Decoding (`decode_registers`, defaults, `resolve_word_order`, non-finite guard) | none | registers to values, in the poller and in the tools | byte and word order, widths, missing and null fields, NaN, overflow, rounding | decoding undoes the meter's layout; tools and poller agree |
| On-site tools (`modbus_gui.py`, `diagnose_modbus.py`, `modbus_console.py`) | the client, scans in progress | connect, scan slave IDs, scan a device, close | handlers that run inside a scan, the service on the same port | no port left open, silence reported of a slave that is there only if it was not asked |
| Settings, logging, bench scripts | - | - | device I/O | not modelled |

They interact so: the poll loop puts readings into the queue and hands them to
the history and the evaluator; the flush thread empties the queue into the cloud. The
configuration thread replaces what the poll loop, the command gate and the
evaluator read. The command thread shares the device locks and the serial bus
with the poll loop. The health reporter learns of the devices through a snapshot
file. The supervisor restarts all of it, and a technician stops it to use the
tools on the same serial ports.

## The modules

`TelemetryQueue` - the queue, the flush thread step by step
(`pc`: "sleep" -> "invalid" -> "post" -> "mark"), the cleanup, the cloud. Every
access to the table is one transaction under `_database_lock`, so one action. A
row is its AUTOINCREMENT id; a reading is its (device, tag) pair, all the upload
looks at. `FlushAborted` is a failing transaction or the death of the process:
the locals are gone, the table stays. `doubt` and `accepted` are history.
`ReliableUpload` is what the queue promises - the cloud is owed every reading
until it holds it - and `TelemetryQueue` implements it under
`produced <- Len(readings), owed <- pending, held <- accepted`.

`ModbusBus` - poll loop and command thread, each a `pc` over the lines of
`run_device` and `execute_command`; the locks; one record per Modbus client
(`handle`, `target`); and `tracked`, the list of abandoned close threads. The
device lock is taken without waiting by the poll loop and with waiting by a
command, the bus lock with waiting by both, as in the code. A close may hang for
good (`CloseReturns` has no fairness) and is given up after the timeout.

`Supervisor` - `main()` as a `pc` over the components, `stop_handler` as a stack
of frames (`handlers`) above it: Python runs a signal handler on the main thread
between two steps and then goes on where it was. Children live, die, wedge, end.

`GatewayControl` - configuration thread, command thread, the cloud they talk to,
and a restart. A configuration is its version; what counts in it is what
`find_writable_tag` makes of each tag: writable, refused, or an exception, for an ID
before it that `int()` does not take. `TakeUp` is every check of `execute_command`
before the locks, with the configuration current at that moment; the locks are in
`ModbusBus`. `GiveUpBatch` is the exception that comes out of those checks: it is
caught around the loop over the commands, and the rest of the batch is dropped. The
cache write is one step that happens or not, because the file is replaced by a
rename. `CommandLedger` is what the command path promises - one command in hand,
carried out only while it is unanswered, and then answered once with how that
went, or not at all - and `GatewayControl` implements it (`ImplementsLedger`):
the command is in the ledger's hand from the end of its write, or of the check
that turned it down, to the acknowledgement.

`EdgeAlarms` - one action per branch of `evaluate_all_rules`: rule without
reading, rule that raises, no change, open, close; the push, lost or not.
Readings, rules and (during sleeps and pushes) the clock go on meanwhile.
`shadow` is the switch `EDGE_ALARM_SHADOW_MODE`; both values are initial.
Comparing a number with a malformed threshold raises and ends the round. The
position of a rule matters, so rule lists are sequences.

`LocalStore` - the file under queue and history, and the four threads on it. A
write takes the `_database_lock` of its module ("lock"), then the file ("file"),
then ends ("write"); a SELECT needs the first only, in WAL mode. A thread that
finds the file busy may be told "database is locked" at any moment
(`FileTimeout`), since nothing ties the 30 s to a length of a DELETE. `Raises`
is what becomes of an exception in each thread: `save_telemetry` swallows that of
`record_reading` and goes on to the evaluator, that of `enqueue_telemetry` loses
the reading. Readings are numbers; those older than the retention are `old`, and
`cutoff` is what was old when `prune_old_history` computed it.

`DeviceStatus` - the main loop's rounds, one visit per device and exit of
`run_device` (connects, fails or raises, is skipped because a command has it), the
snapshot as one step (nobody reads the temporary file), and the reporter, which
reads ("sleep" -> "post") and reports. Configurations and devices change, writes,
reads and reports fail, the poller dies. `found` is history.

`TagDecoding` - operators only: `Decode` and the reading of a tag, with every
default, as the poller does it (`Stored`) and as the tools do (`Shown`). A
register is a pair of bytes, a value its type with its bits, so that the orders
are really permuted. What scaling makes of a value is a constant (`Scaled`), a number
or, NaN or an overflow, none; `Rounded` is Python's `round` and `:.3f`, to the
tag's `decimal_places` for the poller and to three for the tools, and the poller
drops what is not finite after both. `LaidOut` is the reference: how a meter stores
a value. `Agree` is what poller and tools owe each other on a `PlainTag`.

`SiteTester` - the window of `modbus_gui.py`. A handler is one action, but
`scan_slave_ids` calls `root.update()` after each slave ID, in which all the
others run: the scans in progress are a stack. Service and poller take the
ports meanwhile. Its `ScanDevice` shows a tag by `TagDecoding`.

`*Proofs` hold the theorems, `MC*` the instances for TLC. The definitions marked
"Mutant of" are not part of a specification: each is a plausible bug, used to
see that a property can fail.

The modules meet in the actions they share: `EdgeAlarms!SetCurrentAlarmRules`
and `GatewayControl!SetCurrentAlarmRules` are one call, as are the command in
`GatewayControl` (what) and in `ModbusBus` (under which locks), and
`TelemetryQueue!EnqueueTelemetry`, the commits of `LocalStore` and
`EdgeAlarms!RecordLatestReading` (all of `save_telemetry`). `DeviceStatus!VisitSkips`
is `ModbusBus!SkipDevice`. They are checked apart: each module lets its
neighbours do anything they can.

## The runs

| Run | Bounds | Shows |
|---|---|---|
| `queue` | 3 readings, 2 pairs, batch of 2, 1 damaged row, 1 abort, fair | the safety properties of the queue, the refinement, what a row that cannot be uploaded costs, and that uploads happen while refused rows leave room in a batch |
| `queue_starvation` | 3 readings, 2 pairs, batch of 2, no fault, fair | they do not otherwise (finding) |
| `bus` | 2 RTU devices, 1 TCP, 1 unknown; 3 clients, fair | no mixed frames, no forgotten handle, no deadlock and no circular wait, the poll loop never freezes, commands are served |
| `bus_overlap` | as `bus` | the bus opened in silence over a held handle (finding) |
| `supervisor` | 2 components, 2 signals, 2 spawns each, fair | one process each, orphans only from an interrupted start, restarts, no step after a stop signal is in vain, the stop ends |
| `supervisor_orphan` | 1 signal | an orphan nobody reports (finding) |
| `control` | 2 configurations, 2 commands, each of 3 kinds, one fault of each kind, fair | no repeated write, no false success, the gate, what a fall back means, the command ledger, answers once nothing pending raises, settling |
| `control_type` | 2 tags, 1 command | a coil written through a register tag (finding) |
| `edge_alarms` | 3 rule lists, 3 readings, clock to 2, one fault of each kind, fair | agreement with the cloud, communication loss only from silence, rules settle |
| `local_store` | 3 readings, 1 disk error, 1 death, fair | history follows the queue, the evaluator keeps up, what may lose a reading, no circular wait, the poll loop goes on |
| `device_status` | 2 devices, 1 change of each kind, 1 failed read or death, fair | snapshots tell what was found, reports settle |
| `site_tester` | 2 ports, 2 slaves, a scan within a scan, 70 tags | ports are given back, silence is real, tools show what is stored but for the places rounded to |

Why the bounds are enough. The queue's hard cases need a row in the batch, one
behind it and one refused: three rows, batches of two. A write can only be
repeated by a second fetch, which one restart or one lost acknowledgement
brings, and a second command shows that the loop over the batch goes on. A fall
back needs two versions. A false communication loss needs a reading before the
snapshot, an alarm that is pushed, a tick and a reading under the push: three
readings. Two clients are what two threads can hold at once, and the third is one
whose close has hung for good; a thread that finds none left does not connect,
which is as when `connect()` fails. Two spawns are one restart, two
signals one nested handler; `MaxSpawns` bounds deaths, never a restart.
A reading can be older than the retention, on its way, or in between: three. A
device that is skipped, removed or wrong about itself next to one that is not:
two devices, and one change of each of configuration and devices leaves a ghost
entry. A second port and a scan within a scan are what a handler inside a scan
can bring; the tags are every type in every order, then one with each field
missing, null or odd, too few and too many registers included, with numbers of four decimals that round up, down and to
even to fewer, one NaN and a scale that overflows.
The proofs below do not depend on these bounds.

The tag of `control` is an input register, so that all branches of
`write_command_value` occur with one tag: `write_register` is refused,
`write_coil`, whose tag nothing checks, goes through. An unsupported type goes the
way of a tag that is not writable, so `control` issues the two writes and an entry
that is no object, and `control_type` the unsupported type.

Fairness. Every thread is a `while True` loop with short sleeps and timeouts on
all requests, hence weak fairness of its next step. The queue asks strong
fairness of `PostAnswered`: requests may fail again and again, but one that is
tried again and again is answered at last. The bus asks strong fairness of
taking a contended lock: the poll loop sleeps 0.25 s between rounds and tries
again, a waiting command gets in then; nothing is asked of closes or of
commands. `LocalStore` asks the same of the poll loop's wait for a module's lock,
and of every statement that it ends or is told after 30 s that the file is locked.
`DeviceStatus` asks strong fairness of a visit that is not skipped (commands end:
`CommandsServed`), of a snapshot that succeeds and of a report that arrives. The supervisor asks that a script is not missing each time it is looked
for, and nothing of its children. Lost acknowledgements, lost pushes, failed
cache writes and deaths are bounded in number, so liveness is about what follows
the last of them; failing requests to the cloud and failing writes are not.
`CHECK_DEADLOCK FALSE` stands where the bounds, or the end of the supervisor,
stop the system; the bus never stops, and its deadlock check is on.

## What is proved

For every value of the constants, from the named assumptions on them only
(`QueueAssumption`, `BusAssumption`, `SupervisorAssumption`,
`ControlAssumption`, `AlarmsAssumption`, `StoreAssumption`,
`StatusAssumption`, `DecodingAssumption`, `TesterAssumption`).

### Safety and refinement

Every safety property and every refinement of a passing run is proved, each from
an inductive invariant `IInv` that TLC agreed with first. `TypeOK` is part of
each; it is proved, and most runs do not repeat it.

- `TelemetryQueueProofs`: `NoReadingLost`, `FirstDeliveryInOrder`,
  `ResendOnlyAfterFault`, `ImplementsContract`, `NewestSentRetained`,
  `OvertakenRowsShowAttempts`, `BlockedCostOnePlace`. That a row may leave the queue
  rests on what the flush thread knows half-way: `IInv` says that a row about to
  be marked sent was accepted, that a queued row the cloud holds is in doubt, and
  that a batch leaves no older row behind but damaged ones. What the cleanup
  spares are the newest rows, counted by those above each; that a finite set of
  rows has a newest one is shown by counting. The place of a row in a batch is counted the same way (`PlaceInBatch`).
- `ModbusBusProofs`: `NoCrossTalk`, `NoHandleForgotten`,
  `SilentOverlapOnlyWithCommand`, and `WaitsForRunning`: no circular waits. `IInv`
  says which locks each thread holds at each point, and whose a client is; mutual
  exclusion alone is not inductive.
- `SupervisorProofs`: `OneProcessPerComponent`, `OrphansOnlyFromInterruptedStart`,
  `StopIsBounded`, for any number of components and of nested signals. `IInv` says
  that a start is only reached when the older processes have exited, and that
  every frame on the stack has dealt with the components before its own.
  `StopIsBounded` is the termination measure of a stop: signals still to come, work
  left to `main()`, frames, work of the running frame, in lexicographic order. The
  theorem includes that all four are naturals.
- `GatewayControlProofs`: `RewrittenOnlyUnacknowledged`, `SuccessMeansWritten`,
  `WithdrawnTagNotWritten`, `FallsBackOnlyUncached`, `RulesLagOnlyUncached`,
  `ImplementsLedger`. `IInv` says where a command is while its write and its
  acknowledgement are apart, and that the rules follow the cache but for the
  moment between the two stores. The refinement has one step per action: a write
  or a rejection is `Execute`, an acknowledgement `Answer`, a lost one or a death
  `Forget`, and the configuration thread stutters.
- `EdgeAlarmsProofs`: `CloudAgrees`, `LossMeansSilence`. `CloudAgrees`
  is inductive with the types and the fact that nothing is pushed in shadow mode;
  `LossMeansSilence` needs that a reading bears the time it was recorded at.
- `LocalStoreProofs`: `HistoryFollowsQueue`, `LatestKeepsUp`, `LostOnlyToPrune`,
  and `NobodyWaitsInACircle`. `IInv` says which lock each thread holds at each
  point, that the file belongs to a thread in "write", and where the reading in
  hand is between the two inserts; that only the pruning can hold the file against
  an enqueue follows, because the others share the lock of the queue.
- `DeviceStatusProofs`: `SnapshotOfItsRound`, from the invariant that
  `DEVICE_STATUS` agrees with what the round has found so far.
- `SiteTesterProofs`: that `Decode` undoes `LaidOut` for every type and order;
  that poller and tools agree on plain tags, for every meter and whatever scaling
  does, from the lemma that rounding changes a number by half a unit of the place at
  most; `ToolShowsStored`, `PortGivenBack` and `SilenceIsReal`. `IInv` relates each
  scan of the stack to the slave IDs it has still to try and those it did not ask.

### Liveness, from hypotheses

Two things are beyond the proof system: ENABLED, and the temporal rule that a
measure which falls under fairness reaches its end (a proof by induction over a
well-founded order under `~>`; the order itself can be treated, and
`LeastNatural` and `WorkIsFounded` do). Where a theorem needs either it says so by
a hypothesis with a name, so that what the code contributes is proved, and what
logic contributes can be read off. There are three layers.

1. *A round does what it is for.* Under calm (faults and changes that have ended) and
   a loop that comes round again and again, the goal is reached: a round that began
   after the last change keeps it, and the end of the round turns it into the goal.

   | Theorem | Property | The thread ... | ... and no more |
   |---|---|---|---|
   | `LatestGetsEverywhere` | `ConfigurationSettles` | configuration steps | publications, failing cache writes, deaths |
   | `AllAnswered` | `CommandsAnswered` | sleeps, and fetches while a command is pending | lost acknowledgements, deaths; the property asks that nothing pending raises any more |
   | `AlarmsComeRight` | `AlarmsSettle` | rounds begin | readings, rule lists, ticks, deaths |
   | `CountsComeRight` | `ReportsSettle` | snapshots written, reports posted | changes of configuration or devices, commands on a device, failing reads, deaths |
   | `DeadAreReplaced` | `WatchdogRestarts` | `main()` comes to its sleep and out of it, until it stops or crashes | missing scripts |
   | `UploadAdvances` | (step of `UploadedWithRoomInBatch`) | flushes begin and end, a repeated request is answered | broken-off flushes |

2. *The loop comes round.* Under `FairSpec` and `[]StepsCanBeTaken` (a step that
   fairness speaks of is enabled where its thread is), each thread goes on, and what
   is left of its round falls with every step of it, by a measure of naturals:
   `FlushAdvances`, `RoundsGoOn`, `ThreadsGoOn`, `RoundsAndReportsGoOn`, `WatchAdvances`,
   `RoundAdvances` (devices before the poll loop), `StopAdvances` (the quadruple of
   `StopIsBounded`, well-founded by `WorkIsFounded`). For the locks of the bus and
   the store this goes all the way: `PollGoesOn` (`PollLoopGoesOn`), `EveryCommandServed`
   (`CommandsServed`) and `EveryVisitEnds` need nothing else, because their argument
   is the order of the locks and not a measure.
3. *Both together.* With the descent rule for that measure as a hypothesis (a definition
   named `...Descent`, an instance of the rule that every behaviour has), the runs'
   properties follow from fairness, for any devices, children, commands, rules and
   rows: `RowsUploaded` (`UploadedWithRoomInBatch`), `RoundsEnd` (`PollerNeverFrozen`),
   `StopEnds` (`StopCompletes`), and `AlarmsComeRightFairly`, `ControlSettlesFairly`,
   `CountsComeRightFairly` and `DeadAreReplacedFairly` for those of the table, where
   only the calm is left of its hypotheses.

`StepsCanBeTaken` of the bus and the store is the half of `NobodyStuck` that only TLC
checks (the other half, on waits, is proved). That of the other modules can be read off
the guards: their steps wait for no lock, and each state of a thread has its step.

The upload is the one that takes most. A batch is the oldest rows, those the cloud
refuses for ever among them; `BlockedCostOnePlace` says that such a row costs a place
and no more. So as long as there is room, the uploadable rows before a given one
get fewer with every batch that is answered, wherever the refused rows stand
(`SomeRowLeads`, `LeaderWaits`, `UploadAdvances`), and a flush does end, because no
row is visited twice and no request repeated in it (`FlushBounded`).

### Only model-checked

- ENABLED: `NobodyStuck`, and `StepsCanBeTaken` in general.
- The descent rules: TLC checks the properties of layer 3 under `FairSpec`
  alone, without either hypothesis.

## Where code and documentation disagree

1. `flush_pending_batch` does not "upload everything currently queued": a batch
   of rows that the cloud refuses for ever starves all readings behind them
   (`queue_starvation`). `UploadedWithRoomInBatch` says how far the promise goes.
2. The race between a timed-out close and a new connection is not always
   "visible instead of silent": a command closes after it has let go of the bus,
   and the poll loop may connect over it without a warning (`bus_overlap`).
   `SilentOverlapOnlyWithCommand` says that this is the only case.
3. `stop_handler` does not wait for "each child": one started while the signal
   came, or after it by the interrupted loop, is missed (`supervisor_orphan`).
   `OrphansOnlyFromInterruptedStart` says that this is the only case.
4. "`command_type` must match the tag's declared type" is checked for input
   registers only (`control_type`).

Read in the code and without a run of their own:

5. "The main loop must never be blocked by housekeeping" (`run_buffer_cleanup_loop`,
   `dynamic_modbus_poller.py:1024`): a thread of its own does not help where the
   cleanup takes the lock of the queue, or the pruning the file. An enqueue waits,
   and after 30 s behind the pruning its reading is lost; `LostOnlyToPrune` says
   that nothing else loses one so, `PollLoopGoesOn` that the wait ends.
6. "Real device counts" (`README.md:33`): `DEVICE_STATUS` keeps a device that was
   removed from the configuration until the poller restarts, and on a serial line
   "connected" says that the port opened. `ReportsSettle` states what is reported.
7. `diagnose_modbus.py:13` promises "the same connection settings and register map
   the live poller uses". Where fields are missing the defaults differ: 2
   registers against 1; a scale of 0 or null is 1 to the poller, 0 or an error to
   the tool; word-order overrides and unknown function codes are the poller's
   only. `PlainTag` names the tags on which they agree, up to rounding: a tool shows
   three decimals, the poller stores `decimal_places`, and none where that field is
   missing or null. 0.95 is then shown as 0.950 and stored as 1.0
   (`dynamic_modbus_poller.py:649`, `diagnose_modbus.py:294`, `modbus_gui.py:446`).
8. `scan_slave_ids` passes over every exception as a silent slave
   (`modbus_gui.py:279`): that of a client which is None after a disconnect inside the
   scan, and that of an address or count out of range, of which it checks only that
   they are numbers. It then says "No response" of a port whose slaves it never asked.
   `SilenceIsReal` says that these, and a connection to another port inside the scan,
   are the only false silences.
9. An exception out of `execute_command` is caught around the loop over the commands
   (`dynamic_modbus_poller.py:1197`): an entry of the list that is no object (`:886`), or
   an ID in the configuration that `int()` does not take
   (`gateway_commands.py:88`, `:92`), gives up that command and all behind it, without
   an acknowledgement, and again at every fetch while the cause lasts.
   `CommandsAnswered` therefore speaks of what follows when nothing pending raises
   any more (`Executable`); no write is repeated or lost by it (`ImplementsLedger`).

## What is not modelled

Loss or corruption of whole files and power failure (SQLite in WAL mode keeps
what it committed when the process dies, which is the crash modelled here); the
values that commands write; logging and `restart_count`, which nothing reads; a
reply of the batch endpoint it is not documented to give; a cache file that
cannot be read; the request intervals, but for the sleeps that fairness rests on.
Of the decoding, the two limits that set a reading's quality; `struct.unpack` is a
bijection between bits and values, the arithmetic of floats is a constant, and a
number has the digits of its decimal places, not those of the double next to it. Of the
tools, the manual read, the raw probe and the console (`modbus_console.py`), whose
behaviour is what the technician types, the serial settings of a connection, and
a close that hangs. Settings, logging and the bench scripts have no state of the
gateway's. When `Popen` raises, the supervisor dies (`SpawnRaises`); what the
service manager does next is outside the repository.

## Plan

1. `Gateway` - `GatewayControl` and `EdgeAlarms` composed over their shared
   action, so that lagging rules and alarm states are seen together; then the
   command of `GatewayControl` shown to be what `ModbusBus` executes.
2. An abstract lock with several clients, implemented by `ModbusBus` and by the two
   locks of `LocalStore`, from the invariants already proved.
3. The console, whose reconnect can leave it without a client to close; the replies
   of a cloud that does not keep to the batch endpoint's documentation.
4. With a prover that knows ENABLED and the rule of descent, the hypotheses of those
   names can go; nothing else of the liveness proofs would change.
