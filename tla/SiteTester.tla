------------------------------ MODULE SiteTester ------------------------------
(***************************************************************************)
(* The on-site tester (modbus_gui.py) next to the gateway service, on the  *)
(* serial ports of one machine. Windows gives a port to one process at a   *)
(* time. A button's handler runs to its end, except scan_slave_ids: after  *)
(* each slave ID it calls root.update(), in which the other handlers run,  *)
(* a further scan included. The scans in progress are therefore a stack.   *)
(*                                                                         *)
(* The Port field is free text at any time: what scan_device compares with *)
(* it may agree or not.                                                    *)
(***************************************************************************)
EXTENDS TagDecoding, FiniteSets

CONSTANTS
    Ports,
    NoPort,         \* client is None
    Slaves,         \* the range of slave IDs a scan goes through
    Tags,           \* tags of the devices in config_cache.json
    NoTag,          \* no row in the results
    Meter,          \* the meter they are read from
    MaxScans        \* bound on scans within scans

ASSUME TesterAssumption ==
    /\ NoPort \notin Ports /\ NoTag \notin Tags
    /\ Slaves \subseteq Nat /\ Slaves # {}
    /\ MaxScans \in Nat

VARIABLES
    wired,      \* slave IDs that answer on each port with the settings in use
    window,     \* "open" or "closed"
    client,     \* the port self.client is connected to, or NoPort
    held,       \* ports the tester's process has open
    service,    \* the gateway service: "stopped" or "running"
    polling,    \* the port its poller has open, or NoPort
    scans,      \* the scans in progress, the innermost last
    verdict,    \* history: the scan that has just said "No response", if any
    shown       \* the tag in the results table, or NoTag

vars == <<wired, window, client, held, service, polling, scans, verdict, shown>>

\* at: where it is; left: IDs still to try; valid: a request can be made of its
\* address and count; foundAny: its local found_any; history: the port it was
\* started on, and the IDs that it did not ask there.
Scan == [at : {"read", "update"}, left : SUBSET Slaves, valid : BOOLEAN,
         foundAny : BOOLEAN, port : Ports, missed : SUBSET Slaves]

Depth == Len(scans)
Top == scans[Depth]

Init ==
    /\ wired \in [Ports -> SUBSET Slaves]
    /\ window = "open" /\ client = NoPort /\ held = {}
    /\ service \in {"stopped", "running"} /\ polling = NoPort
    /\ scans = <<>> /\ verdict = <<>> /\ shown = NoTag

\* A handler can start: the main loop, or root.update(), is waiting for one.
Idle == window = "open" /\ (scans # <<>> => Top.at = "update")

Free(p) == p \notin held /\ p # polling

CloseClient == held' = held \ {client}
-----------------------------------------------------------------------------
(* The connection panel.                                                   *)

\* Mutant of Connect: it does not disconnect first.
ConnectAnew(p) ==
    /\ Idle
    /\ \/ Free(p) /\ client' = p /\ held' = held \cup {p}
       \/ UNCHANGED <<client, held>>
    /\ verdict' = <<>> /\ shown' = NoTag
    /\ UNCHANGED <<wired, window, service, polling, scans>>
\* connect: what was open is closed first; the new port opens, or another
\* process has it, or it is not there, or a field is no number.
Connect(p) ==
    /\ Idle
    /\ \/ /\ p = client \/ Free(p)
          /\ client' = p
          /\ held' = (held \ {client}) \cup {p}
       \/ /\ client' = NoPort
          /\ CloseClient
    /\ verdict' = <<>> /\ shown' = NoTag
    /\ UNCHANGED <<wired, window, service, polling, scans>>

Disconnect ==
    /\ Idle /\ client # NoPort
    /\ CloseClient /\ client' = NoPort
    /\ verdict' = <<>> /\ shown' = NoTag
    /\ UNCHANGED <<wired, window, service, polling, scans>>

\* _on_close. The scans in progress end with the window: the next update(), or
\* log(), raises TclError.
OnClose ==
    /\ Idle
    /\ CloseClient /\ client' = NoPort
    /\ window' = "closed"
    /\ scans' = <<>> /\ verdict' = <<>> /\ shown' = NoTag
    /\ UNCHANGED <<wired, service, polling>>
-----------------------------------------------------------------------------
(* The discovery panel.                                                    *)

\* scan_slave_ids checks that the fields are numbers, not that they are in range.
StartScan(valid) ==
    /\ Idle /\ client # NoPort
    /\ Depth < MaxScans
    /\ scans' = Append(scans, [at |-> "read", left |-> Slaves, valid |-> valid,
                               foundAny |-> FALSE, port |-> client, missed |-> {}])
    /\ verdict' = <<>> /\ shown' = NoTag
    /\ UNCHANGED <<wired, window, client, held, service, polling>>

Responds(s) == Top.valid /\ client # NoPort /\ s \in wired[client]
Asked == Top.valid /\ client = Top.port

\* Mutant of TrySlave: an answer that is a Modbus exception is no answer.
TrySlaveDataOnly(s) ==
    /\ scans # <<>> /\ Top.at = "read"
    /\ s \in Top.left /\ \A r \in Top.left : s <= r
    /\ \E data \in BOOLEAN :
         scans' = [scans EXCEPT ![Depth] =
            [Top EXCEPT !.at = "update", !.left = @ \ {s},
                      !.foundAny = @ \/ (Responds(s) /\ data),
                      !.missed = IF Asked THEN @ ELSE @ \cup {s}]]
    /\ verdict' = <<>> /\ shown' = NoTag
    /\ UNCHANGED <<wired, window, client, held, service, polling>>
\* One turn of the loop: registers or a Modbus exception mean that the slave is
\* there. A timeout raises, and so do a client that is None by now and an address
\* or count out of range: all are passed over as "nothing at this ID".
TrySlave(s) ==
    /\ scans # <<>> /\ Top.at = "read"
    /\ s \in Top.left /\ \A r \in Top.left : s <= r
    /\ scans' = [scans EXCEPT ![Depth] =
            [Top EXCEPT !.at = "update", !.left = @ \ {s},
                      !.foundAny = @ \/ Responds(s),
                      !.missed = IF Asked THEN @ ELSE @ \cup {s}]]
    /\ verdict' = <<>> /\ shown' = NoTag
    /\ UNCHANGED <<wired, window, client, held, service, polling>>

\* update() has no more events, and the loop goes on ...
NextSlave ==
    /\ scans # <<>> /\ Top.at = "update" /\ Top.left # {}
    /\ scans' = [scans EXCEPT ![Depth].at = "read"]
    /\ verdict' = <<>> /\ shown' = NoTag
    /\ UNCHANGED <<wired, window, client, held, service, polling>>

\* ... or ends, with "No response from any slave ID" if it found none. A scan
\* within another goes back to the update() of that one.
EndScan ==
    /\ scans # <<>> /\ Top.at = "update" /\ Top.left = {}
    /\ scans' = SubSeq(scans, 1, Depth - 1)
    /\ verdict' = IF Top.foundAny THEN <<>> ELSE <<Top>>
    /\ shown' = NoTag
    /\ UNCHANGED <<wired, window, client, held, service, polling>>
-----------------------------------------------------------------------------
(* The device panel: scan_device with the port in the field agreeing, or    *)
(* not configured. Its row for one tag; run_config_scan prints the same.    *)
ScanDevice(tag) ==
    /\ Idle /\ client # NoPort
    /\ shown' = tag /\ verdict' = <<>>
    /\ UNCHANGED <<wired, window, client, held, service, polling, scans>>
-----------------------------------------------------------------------------
(* The gateway service, as the technician and the poller use it.            *)

StartService ==
    /\ service = "stopped"
    /\ service' = "running"
    /\ verdict' = <<>> /\ shown' = NoTag
    /\ UNCHANGED <<wired, window, client, held, polling, scans>>

\* net stop: what its processes had open is closed.
StopService ==
    /\ service = "running"
    /\ service' = "stopped" /\ polling' = NoPort
    /\ verdict' = <<>> /\ shown' = NoTag
    /\ UNCHANGED <<wired, window, client, held, scans>>

\* run_device connects to a device on the port.
PollerOpens(p) ==
    /\ service = "running" /\ polling = NoPort /\ Free(p)
    /\ polling' = p
    /\ verdict' = <<>> /\ shown' = NoTag
    /\ UNCHANGED <<wired, window, client, held, service, scans>>

PollerCloses ==
    /\ polling # NoPort
    /\ polling' = NoPort
    /\ verdict' = <<>> /\ shown' = NoTag
    /\ UNCHANGED <<wired, window, client, held, service, scans>>
-----------------------------------------------------------------------------
Next ==
    \/ \E p \in Ports : Connect(p)
    \/ Disconnect \/ OnClose
    \/ \E valid \in BOOLEAN : StartScan(valid)
    \/ NextSlave \/ EndScan
    \/ \E s \in Slaves : TrySlave(s)
    \/ \E tag \in Tags : ScanDevice(tag)
    \/ StartService \/ StopService
    \/ \E p \in Ports : PollerOpens(p)
    \/ PollerCloses

Spec == Init /\ [][Next]_vars
-----------------------------------------------------------------------------
(* Properties.                                                             *)

\* Types.
TypeOK ==
    /\ wired \in [Ports -> SUBSET Slaves]
    /\ window \in {"open", "closed"}
    /\ client \in Ports \cup {NoPort} /\ held \subseteq Ports
    /\ service \in {"stopped", "running"}
    /\ polling \in Ports \cup {NoPort}
    /\ scans \in Seq(Scan) /\ verdict \in Seq(Scan)
    /\ shown \in Tags \cup {NoTag}

\* "the whole point of this tool is to free it for the gateway service
\* afterward": the tester has no port open but the one its status line names,
\* none when the window is closed, and never one that the poller has open,
\* whatever handlers run within a scan.
PortGivenBack ==
    /\ held = IF client = NoPort THEN {} ELSE {client}
    /\ window = "closed" => held = {}
    /\ polling \notin held

\* "No response from any slave ID" is said of a port with slaves on it only if
\* none of them was asked: the tester was connected elsewhere or nowhere when it
\* was their turn, or no request can be made of the address and count.
SilenceIsReal ==
    \A i \in DOMAIN verdict :
        wired[verdict[i].port] \subseteq verdict[i].missed

\* Reading a plain tag by a tool says what the poller stores for it, but for the
\* places they round to.
ToolShowsStored == (shown # NoTag /\ PlainTag(shown)) => Agree(shown, Meter)
=============================================================================
