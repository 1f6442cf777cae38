----------------------------- MODULE MCModbusBus -----------------------------
(* Instances of ModbusBus for TLC: two devices on the serial bus, one TCP   *)
(* device and one of a type the gateway does not know.                      *)
EXTENDS ModbusBus

CONSTANTS rtu1, rtu2, tcp, odd

FourDevices == <<rtu1, tcp, rtu2, odd>>
TwoSerial == {rtu1, rtu2}
OddOne == {odd}
=============================================================================
