----------------------------- MODULE TagDecoding -----------------------------
(***************************************************************************)
(* From the registers of a meter to the value of a tag, twice: as the      *)
(* poller stores it (process_tag in dynamic_modbus_poller.py), and as the  *)
(* on-site tools show it (run_config_scan in diagnose_modbus.py,           *)
(* scan_device in modbus_gui.py), with their own copy of the decoder.      *)
(*                                                                         *)
(* A register is a pair <<high byte, low byte>>. A decoded value is its    *)
(* type with its bit pattern in big-endian words: struct.unpack is taken   *)
(* as what it is, a bijection for every type.                              *)
(*                                                                         *)
(* A scaled value is a number or, being NaN or an infinity, none. Numbers  *)
(* are counted in units of a decimal place behind which no value of the    *)
(* meter has digits (a double has finitely many). A rounded one stands for *)
(* the double that is nearest to it. IDs, addresses and limits are well    *)
(* formed; the limits, which decide about the quality only, are left out.  *)
(*                                                                         *)
(* Readings and rows come in sets: {} when there is none.                  *)
(***************************************************************************)
EXTENDS Integers, Sequences

CONSTANTS
    Missing,    \* a field of a tag whose key is not there
    Null,       \* a field the cloud sent as null
    Scaled(_, _, _),    \* a decoded value times a scale plus an offset, as floats:
                        \* an integer, or no number
    Unit        \* the size of a unit of each decimal place

ASSUME DecodingAssumption ==
    /\ Missing \notin Int /\ Null \notin Int
    /\ Unit \in [DOMAIN Unit -> Nat \ {0}]
    /\ DOMAIN Unit \subseteq Nat /\ {0, 3} \subseteq DOMAIN Unit

Types == {"float32", "float64", "int16", "uint16", "int32", "uint32"}

\* The registers struct.unpack wants for a type.
Width(type) ==
    CASE type = "float64" -> 4
      [] type \in {"int16", "uint16"} -> 1
      [] OTHER -> 2

\* Python's dict.get(key, d), and `dict.get(key) or d`.
Get(x, d) == IF x = Missing THEN d ELSE x
Or(x, d) == IF x \in {Missing, Null, 0} THEN d ELSE x

\* Python's round(x, p) and f"{x:.pf}": half to even; NaN and infinities stay.
Rounded(x, p) ==
    LET u == Unit[p]
        floor == x \div u
        up == 2 * (x % u) > u \/ (2 * (x % u) = u /\ floor % 2 = 1)
    IN  IF x \notin Int THEN x ELSE IF up THEN u * (floor + 1) ELSE u * floor
-----------------------------------------------------------------------------
(* The decoder.                                                            *)

Reversed(s) == [i \in 1..Len(s) |-> s[Len(s) + 1 - i]]
SwapBytes(r) == <<r[2], r[1]>>
LittleOrders == {"little", "swapped"}

\* prepare_registers. "swapped" stands for the nine spellings of a word order
\* that is_word_swapped knows; every other one, and none, is the normal order.
Prepared(regs, byteOrder, wordOrder) ==
    LET ordered == IF wordOrder = "swapped" THEN Reversed(regs) ELSE regs
    IN  IF byteOrder \in LittleOrders
        THEN [i \in 1..Len(ordered) |-> SwapBytes(ordered[i])]
        ELSE ordered

\* decode_registers: an unknown type, or too few registers, raise. Registers
\* beyond the width of the type are ignored, after the words were reversed.
Decode(regs, type, byteOrder, wordOrder) ==
    IF type \in Types /\ Len(regs) >= Width(type)
    THEN {[type |-> type,
           words |-> SubSeq(Prepared(regs, byteOrder, wordOrder),
                            1, Width(type))]}
    ELSE {}
-----------------------------------------------------------------------------
(* Reading a tag. A meter is its slave ID and its two banks of registers,   *)
(* from the tag's address on.                                               *)

\* An exception, a Modbus error or a timeout: no registers.
Answer(meter, slave, bank, count) ==
    IF slave = meter.slave /\ count <= Len(meter[bank])
    THEN SubSeq(meter[bank], 1, count) ELSE <<>>

\* read_modbus_registers, with slave_id of process_tag.
ReadByPoller(tag, meter) ==
    LET code == Or(tag.code, 3)
    IN  IF code \in {3, 4}
        THEN Answer(meter, Or(tag.slave, 1),
                    IF code = 3 THEN "holding" ELSE "input", Or(tag.count, 1))
        ELSE <<>>

\* BBJ_WORD_ORDER_OVERRIDES goes before what the cloud sent.
ResolveWordOrder(tag) ==
    IF tag.override = Missing THEN Get(tag.wordOrder, "swapped")
    ELSE tag.override

\* What process_tag decodes.
Polled(tag, meter) ==
    Decode(ReadByPoller(tag, meter), Get(tag.type, "float32"),
           Get(tag.byteOrder, "big"), ResolveWordOrder(tag))

\* Mutant of Stored: the decoded value is looked at, not the scaled one.
StoredFiniteFirst(tag, meter) ==
    {Rounded(Scaled(v, Or(tag.scale, 1), Or(tag.offset, 0)), Or(tag.places, 0)) :
        v \in {w \in Polled(tag, meter) : Scaled(w, 1, 0) \in Int}}
\* What process_tag hands to save_telemetry: the value scaled and rounded, unless
\* it is not finite then.
Stored(tag, meter) ==
    {Rounded(Scaled(v, Or(tag.scale, 1), Or(tag.offset, 0)), Or(tag.places, 0)) :
        v \in Polled(tag, meter)} \cap Int

\* read_one_register as run_config_scan and scan_device call it.
ReadByTool(tag, meter) ==
    Answer(meter, tag.slave, IF Or(tag.code, 3) = 4 THEN "input" ELSE "holding",
           Or(tag.count, 2))

\* The row of a tool, with three decimals: float(None) raises, and is reported as
\* an error.
Shown(tag, meter) ==
    IF tag.scale = Null \/ tag.offset = Null THEN {}
    ELSE {Rounded(Scaled(v, Get(tag.scale, 1), Get(tag.offset, 0)), 3) :
             v \in Decode(ReadByTool(tag, meter), Get(tag.type, "float32"),
                          Get(tag.byteOrder, "big"), Get(tag.wordOrder, "swapped"))}
-----------------------------------------------------------------------------
(* What it should be.                                                      *)

\* How a meter with these orders lays out a value: register i carries word i
\* counted from the front or from the back, with its bytes this way or that.
LaidOut(words, byteOrder, wordOrder) ==
    [i \in 1..Len(words) |->
        LET w == words[IF wordOrder = "swapped" THEN Len(words) + 1 - i ELSE i]
        IN  IF byteOrder \in LittleOrders THEN <<w[2], w[1]>> ELSE w]

\* A tag whose fields leave nothing to the defaults in which poller and tools
\* differ, and that is read with a function code the poller knows.
PlainTag(tag) ==
    /\ tag.count \in Nat \ {0} /\ tag.slave \in Nat \ {0}
    /\ tag.code \in {Missing, Null, 0, 3, 4}
    /\ tag.scale \notin {Null, 0} /\ tag.offset # Null
    /\ tag.places \in {Missing, Null} \cup DOMAIN Unit
    /\ tag.override \in {Missing, Get(tag.wordOrder, "swapped")}

\* A stored and a shown number can be the same value: each is off by half a unit
\* of its last place at most, of the tag's place p and of the third.
SameValue(y, z, p) ==
    /\ 2 * (y - z) \in -(Unit[p] + Unit[3])..(Unit[p] + Unit[3])
    /\ p = 3 => y = z

\* "the same connection settings and register map the live poller uses": for
\* a plain tag a tool shows what the poller stores, up to the places they round
\* to, and what it shows beyond that is no number. That they round to different
\* places, and what they make of other tags, is README.md, disagreement 7.
Agree(tag, meter) ==
    LET p == Or(tag.places, 0)
    IN  /\ Stored(tag, meter) \subseteq Int
        /\ \A y \in Stored(tag, meter) :
               \E z \in Shown(tag, meter) : SameValue(y, z, p)
        /\ \A z \in Shown(tag, meter) \cap Int :
               \E y \in Stored(tag, meter) : SameValue(y, z, p)
=============================================================================
