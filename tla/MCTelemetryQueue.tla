-------------------------- MODULE MCTelemetryQueue --------------------------
(* Instances of TelemetryQueue for TLC.                                    *)
EXTENDS TelemetryQueue

CONSTANTS temp, flow      \* two (device_id, tag_id) pairs

TwoPairs == {temp, flow}
OnePair == {temp}
=============================================================================
