----------------------------- MODULE MCSiteTester -----------------------------
EXTENDS SiteTester

LOCAL INSTANCE Functions

CONSTANTS PlainSlave, NaN, Infinity, Huge

MeterOnBench ==
    [slave |-> PlainSlave,
     holding |-> << <<1, 2>>, <<3, 4>>, <<5, 6>>, <<7, 8>> >>,
     input |-> << <<11, 12>>, <<13, 14>>, <<15, 16>>, <<17, 18>> >>]

\* Four decimals.
Units == [p \in 0..4 |-> 10 ^ (4 - p)]

\* A number for every type and bit pattern, so that they round up, down and to even.
\* One double is NaN, and the largest scale makes every value overflow.
Rank == [float32 |-> 1, float64 |-> 2, int16 |-> 3, uint16 |-> 4, int32 |-> 5,
         uint32 |-> 6]
Weighed(words) ==
    SumFunction([i \in DOMAIN words |-> i * i * (19 * words[i][1] + words[i][2])])
ScaledOnBench(value, scale, offset) ==
    CASE value = [type |-> "float64", words |-> MeterOnBench.input] -> NaN
      [] scale = Huge -> Infinity
      [] OTHER -> (9500 * Weighed(value.words) + 515 * Rank[value.type]) * scale
                  + 10000 * offset

\* Every type in every order ...
WellFormed ==
    {[type |-> y, byteOrder |-> b, wordOrder |-> w, code |-> 3, count |-> Width(y),
      scale |-> 2, offset |-> 1, places |-> 3, slave |-> PlainSlave,
      override |-> Missing] :
        y \in Types, b \in {"big", "little"}, w \in {"normal", "swapped"}}

\* ... both banks, and fields that are missing, null or otherwise odd.
Usual ==
    [type |-> "float32", byteOrder |-> "big", wordOrder |-> "normal",
     code |-> 3, count |-> 2, scale |-> 1, offset |-> 0, places |-> 1,
     slave |-> PlainSlave, override |-> Missing]
Odd ==
    {[Usual EXCEPT !.type = x] : x \in {Missing, Null, "bool"}}
    \cup {[Usual EXCEPT !.byteOrder = x] : x \in {Missing, Null, "swapped"}}
    \cup {[Usual EXCEPT !.wordOrder = x] : x \in {Missing, Null}}
    \cup {[Usual EXCEPT !.code = 4, !.type = y, !.count = Width(y)] : y \in Types}
    \cup {[Usual EXCEPT !.code = x] : x \in {Missing, Null, 0, 5}}
    \cup {[Usual EXCEPT !.count = x, !.type = y] :
             x \in {Missing, Null, 0, 1, 4, 8}, y \in {"float32", "int16"}}
    \cup {[Usual EXCEPT !.scale = x] : x \in {Missing, Null, 0, Huge}}
    \cup {[Usual EXCEPT !.places = x] : x \in {Missing, Null, 0, 2, 3, 4}}
    \cup {[Usual EXCEPT !.offset = x] : x \in {Missing, Null}}
    \cup {[Usual EXCEPT !.slave = x] : x \in {Missing, 5}}
    \cup {[Usual EXCEPT !.override = x] : x \in {"normal", "swapped"}}

DeviceTags == WellFormed \cup Odd
=============================================================================
