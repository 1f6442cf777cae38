--------------------------- MODULE SiteTesterProofs ---------------------------
(***************************************************************************)
(* Proofs about SiteTester and the decoder it shows values with, for any   *)
(* ports, slaves, tags and meters, and any depth of scans within scans.    *)
(***************************************************************************)
EXTENDS SiteTester, TLAPS

\* Decoding undoes a meter's layout: when the orders of a tag are those of its
\* meter, and the registers read are those of its type, the poller gets the
\* words the meter has, for every type and every order.
THEOREM DecodesAsLaidOut ==
    ASSUME NEW Bytes, NEW words \in Seq(Bytes \X Bytes), NEW type \in Types,
           Len(words) = Width(type), NEW byteOrder, NEW wordOrder
    PROVE  Decode(LaidOut(words, byteOrder, wordOrder), type, byteOrder, wordOrder)
               = {[type |-> type, words |-> words]}
<1> DEFINE n == Len(words)
           laid == LaidOut(words, byteOrder, wordOrder)
           ordered == IF wordOrder = "swapped" THEN Reversed(laid) ELSE laid
<1>1. n \in Nat /\ words = [i \in 1..n |-> words[i]]
  OBVIOUS
<1>2. laid \in Seq(Bytes \X Bytes) /\ Len(laid) = n
  BY <1>1 DEF LaidOut
<1>3. ordered \in Seq(Bytes \X Bytes) /\ Len(ordered) = n
  <2>1. \A i \in 1..n : n + 1 - i \in 1..n
    BY <1>1
  <2>2. \A i \in 1..n : laid[i] \in Bytes \X Bytes
    BY <1>2
  <2>3. Reversed(laid) = [i \in 1..n |-> laid[n + 1 - i]]
    BY <1>2 DEF Reversed
  <2>4. Reversed(laid) \in [1..n -> Bytes \X Bytes]
    BY <2>1, <2>2, <2>3
  <2>5. Reversed(laid) \in Seq(Bytes \X Bytes) /\ Len(Reversed(laid)) = n
    <3> HIDE DEF laid
    <3> QED
      BY <1>1, <2>4
  <2> QED
    BY <1>2, <2>5
<1>4. \A i \in 1..n :
        ordered[i] = IF byteOrder \in LittleOrders THEN <<words[i][2], words[i][1]>>
                     ELSE words[i]
  <2>1. CASE wordOrder = "swapped"
    <3> SUFFICES ASSUME NEW i \in 1..n
                 PROVE  ordered[i] = IF byteOrder \in LittleOrders
                                     THEN <<words[i][2], words[i][1]>> ELSE words[i]
      OBVIOUS
    <3>1. n + 1 - i \in 1..n /\ n + 1 - (n + 1 - i) = i
      BY <1>1
    <3>2. ordered[i] = laid[n + 1 - i]
      BY <2>1, <1>2 DEF Reversed
    <3> QED
      BY <2>1, <3>1, <3>2 DEF LaidOut
  <2>2. CASE wordOrder # "swapped"
    BY <2>2, <1>2 DEF LaidOut
  <2> QED
    BY <2>1, <2>2
<1>5. Prepared(laid, byteOrder, wordOrder) = words
  <2>1. CASE byteOrder \in LittleOrders
    <3>1. \A i \in 1..n : SwapBytes(ordered[i]) = words[i]
      BY <1>1, <1>4, <2>1 DEF SwapBytes
    <3>2. Prepared(laid, byteOrder, wordOrder)
            = [i \in 1..n |-> SwapBytes(ordered[i])]
      BY <2>1, <1>3 DEF Prepared
    <3>3. [i \in 1..n |-> SwapBytes(ordered[i])] = [i \in 1..n |-> words[i]]
      BY <3>1
    <3> QED
      BY <3>2, <3>3, <1>1
  <2>2. CASE byteOrder \notin LittleOrders
    <3>1. Prepared(laid, byteOrder, wordOrder) = ordered
      BY <2>2 DEF Prepared
    <3>2. \A i \in 1..n : ordered[i] = words[i]
      BY <1>4, <2>2
    <3>3. ordered = words
      <4> HIDE DEF ordered
      <4>1. words \in Seq(Bytes \X Bytes) /\ ordered \in Seq(Bytes \X Bytes)
        BY <1>3
      <4>2. ordered = [i \in 1..n |-> ordered[i]]
        BY <4>1, <1>3
      <4>3. [i \in 1..n |-> ordered[i]] = [i \in 1..n |-> words[i]]
        BY <3>2
      <4> QED
        BY <4>2, <4>3, <1>1
    <3> QED
      BY <3>1, <3>3
  <2> QED
    BY <2>1, <2>2
<1>6. SubSeq(words, 1, n) = words
  BY <1>1
<1> QED
  BY <1>2, <1>5, <1>6 DEF Decode

\* Rounding leaves a number one, and changes it by half a unit of the place at most.
LEMMA RoundedIsNear ==
    ASSUME NEW x \in Int, NEW p \in DOMAIN Unit
    PROVE  /\ Rounded(x, p) \in Int
           /\ 2 * (Rounded(x, p) - x) \in -Unit[p]..Unit[p]
<1> DEFINE u == Unit[p]
           f == x \div u
           r == x % u
           up == 2 * r > u \/ (2 * r = u /\ f % 2 = 1)
<1>1. u \in Nat \ {0}
  BY DecodingAssumption
<1>2. f \in Int /\ r \in 0..(u - 1) /\ x = u * f + r
  BY <1>1
<1>3. Rounded(x, p) = IF up THEN u * (f + 1) ELSE u * f
  BY DEF Rounded
<1>4. u * f \in Int /\ u * (f + 1) = u * f + u
  BY <1>1, <1>2
<1> HIDE DEF u, f, r
<1>5. up => 2 * r >= u
  BY <1>1, <1>2
<1>6. ~up => 2 * r <= u
  BY <1>1, <1>2
<1> HIDE DEF up
<1>7. Rounded(x, p) \in Int /\ 2 * (Rounded(x, p) - x) \in -u..u
  <2>1. CASE up
    BY <1>1, <1>2, <1>3, <1>4, <1>5, <2>1
  <2>2. CASE ~up
    BY <1>1, <1>2, <1>3, <1>4, <1>6, <2>2
  <2> QED
    BY <2>1, <2>2
<1> QED
  BY <1>7 DEF u

\* Rounded to two places, a number stays the same value.
LEMMA RoundedToTwoPlaces ==
    ASSUME NEW x \in Int, NEW p \in DOMAIN Unit
    PROVE  SameValue(Rounded(x, p), Rounded(x, 3), p)
<1>1. 3 \in DOMAIN Unit /\ Unit[p] \in Nat /\ Unit[3] \in Nat
  BY DecodingAssumption
<1>2. /\ Rounded(x, p) \in Int /\ 2 * (Rounded(x, p) - x) \in -Unit[p]..Unit[p]
      /\ Rounded(x, 3) \in Int /\ 2 * (Rounded(x, 3) - x) \in -Unit[3]..Unit[3]
  BY <1>1, RoundedIsNear
<1>3. 2 * (Rounded(x, p) - Rounded(x, 3)) \in -(Unit[p] + Unit[3])..(Unit[p] + Unit[3])
  BY <1>1, <1>2
<1> QED
  BY <1>3 DEF SameValue

\* A tool and the poller agree on every plain tag, whatever the meter holds: what is
\* stored is finite after scaling and rounding, and within the rounding of what is
\* shown.
THEOREM PlainTagsAgree ==
    ASSUME NEW tag, NEW meter, PlainTag(tag)
    PROVE  Agree(tag, meter)
<1>1. Or(tag.count, 1) = tag.count /\ Or(tag.count, 2) = tag.count
  BY DecodingAssumption DEF PlainTag, Or
<1>2. Or(tag.slave, 1) = tag.slave
  BY DecodingAssumption DEF PlainTag, Or
<1>3. Or(tag.code, 3) \in {3, 4}
  BY DEF PlainTag, Or
<1>4. ReadByPoller(tag, meter) = ReadByTool(tag, meter)
  BY <1>1, <1>2, <1>3 DEF ReadByPoller, ReadByTool
<1>5. ResolveWordOrder(tag) = Get(tag.wordOrder, "swapped")
  BY DEF PlainTag, ResolveWordOrder
<1>6. Or(tag.scale, 1) = Get(tag.scale, 1) /\ Or(tag.offset, 0) = Get(tag.offset, 0)
  BY DEF PlainTag, Or, Get
<1>7. tag.scale # Null /\ tag.offset # Null
  BY DEF PlainTag
<1> DEFINE p == Or(tag.places, 0)
           number(v) == Scaled(v, Get(tag.scale, 1), Get(tag.offset, 0))
<1>8. p \in DOMAIN Unit /\ 3 \in DOMAIN Unit
  BY DecodingAssumption DEF PlainTag, Or
<1>9. Stored(tag, meter) = {Rounded(number(v), p) : v \in Polled(tag, meter)} \cap Int
  BY <1>6 DEF Stored
<1>10. Shown(tag, meter) = {Rounded(number(v), 3) : v \in Polled(tag, meter)}
  BY <1>4, <1>5, <1>7 DEF Shown, Polled
<1> HIDE DEF p, number
<1>11. ASSUME NEW v
       PROVE  /\ Rounded(number(v), p) \in Int <=> number(v) \in Int
              /\ Rounded(number(v), 3) \in Int <=> number(v) \in Int
              /\ number(v) \in Int =>
                    SameValue(Rounded(number(v), p), Rounded(number(v), 3), p)
  <2>1. CASE number(v) \in Int
    BY <2>1, <1>8, RoundedIsNear, RoundedToTwoPlaces
  <2>2. CASE number(v) \notin Int
    BY <2>2 DEF Rounded
  <2> QED
    BY <2>1, <2>2
<1>12. \A y \in Stored(tag, meter) : \E z \in Shown(tag, meter) : SameValue(y, z, p)
  BY <1>9, <1>10, <1>11
<1>13. \A z \in Shown(tag, meter) \cap Int :
           \E y \in Stored(tag, meter) : SameValue(y, z, p)
  BY <1>9, <1>10, <1>11
<1>14. Stored(tag, meter) \subseteq Int
  BY <1>9
<1> QED
  BY <1>12, <1>13, <1>14 DEF Agree, p

\* The same in every reachable state of the tester, for any tags and any meter.
THEOREM ToolsAgree == Spec => []ToolShowsStored
<1>1. ToolShowsStored
  BY PlainTagsAgree DEF ToolShowsStored
<1> QED
  BY <1>1, PTL
-----------------------------------------------------------------------------
(* The tester's windows and scans.                                         *)

\* Every slave on the port of a scan is still to try, was found, or was missed.
ScansSound ==
    \A i \in DOMAIN scans :
        \/ scans[i].foundAny
        \/ wired[scans[i].port] \subseteq scans[i].left \cup scans[i].missed

IInv == TypeOK /\ PortGivenBack /\ ScansSound /\ SilenceIsReal

LEMMA InitIInv == Init => IInv
BY TesterAssumption DEF Init, IInv, TypeOK, PortGivenBack, ScansSound, SilenceIsReal

\* The steps that leave the scans alone, or end all of them.
LEMMA PortIInv ==
    ASSUME IInv,
           \/ \E p \in Ports : Connect(p) \/ PollerOpens(p)
           \/ \E tag \in Tags : ScanDevice(tag)
           \/ Disconnect \/ OnClose \/ StartService \/ StopService \/ PollerCloses
           \/ UNCHANGED vars
    PROVE  IInv'
<1> USE TesterAssumption DEF IInv, TypeOK, PortGivenBack, Connect, Disconnect,
        OnClose, StartService, StopService, PollerOpens, PollerCloses, ScanDevice,
        Idle, Free, CloseClient, vars
<1>1. TypeOK'
  <2>1. window' \in {"open", "closed"} /\ service' \in {"stopped", "running"}
    OBVIOUS
  <2>2. client' \in Ports \cup {NoPort} /\ held' \subseteq Ports
        /\ polling' \in Ports \cup {NoPort}
    OBVIOUS
  <2>3. /\ wired' = wired
        /\ scans' = scans \/ scans' = <<>>
        /\ verdict' = verdict \/ verdict' = <<>>
    OBVIOUS
  <2>4. shown' \in Tags \cup {NoTag}
    OBVIOUS
  <2>5. scans' \in Seq(Scan) /\ verdict' \in Seq(Scan)
    <3>1. scans \in Seq(Scan) /\ verdict \in Seq(Scan) /\ <<>> \in Seq(Scan)
      OBVIOUS
    <3> QED
      BY ONLY <2>3, <3>1
  <2> QED
    BY <2>1, <2>2, <2>3, <2>4, <2>5
<1>2. PortGivenBack'
  OBVIOUS
<1>3. (scans' = scans \/ scans' = <<>>) /\ wired' = wired
      /\ (verdict' = verdict \/ verdict' = <<>>)
  OBVIOUS
<1>4. ScansSound' /\ SilenceIsReal'
  BY <1>3 DEF ScansSound, SilenceIsReal
<1> QED
  BY <1>1, <1>2, <1>4

\* A scan starts: all its slaves are still to try.
LEMMA StartScanIInv ==
    ASSUME IInv, NEW valid \in BOOLEAN, StartScan(valid)
    PROVE  IInv'
<1> DEFINE new == [at |-> "read", left |-> Slaves, valid |-> valid,
                   foundAny |-> FALSE, port |-> client, missed |-> {}]
<1>1. new \in Scan
  BY DEF IInv, TypeOK, StartScan, Scan
<1>2. scans \in Seq(Scan) /\ scans' = Append(scans, new)
  BY DEF IInv, TypeOK, StartScan
<1>3. TypeOK' /\ PortGivenBack' /\ SilenceIsReal'
  BY <1>1, <1>2 DEF IInv, TypeOK, PortGivenBack, SilenceIsReal, StartScan
<1>4. wired[client] \subseteq Slaves
  BY DEF IInv, TypeOK, StartScan
<1>5. ScansSound'
  <2> SUFFICES ASSUME NEW i \in DOMAIN scans'
               PROVE  \/ scans'[i].foundAny
                      \/ wired[scans'[i].port] \subseteq scans'[i].left \cup scans'[i].missed
    BY DEF ScansSound, StartScan
  <2>1. CASE i \in DOMAIN scans
    <3>1. scans'[i] = scans[i]
      BY <1>2, <2>1
    <3> QED
      BY <3>1, <2>1 DEF IInv, ScansSound
  <2>2. CASE i \notin DOMAIN scans
    <3>1. scans'[i] = new
      BY <1>2, <2>2
    <3> QED
      BY <3>1, <1>4
  <2> QED
    BY <2>1, <2>2
<1> QED
  BY <1>3, <1>5 DEF IInv

\* A slave was tried: it responds, or it was not asked on the scan's port, or it is
\* not wired there. Or the innermost scan goes on.
LEMMA LoopIInv ==
    ASSUME IInv, (\E s \in Slaves : TrySlave(s)) \/ NextSlave
    PROVE  IInv'
<1>1. scans \in Seq(Scan) /\ Depth \in DOMAIN scans /\ Top \in Scan
  <2>1. scans \in Seq(Scan) /\ scans # <<>>
    BY DEF IInv, TypeOK, TrySlave, NextSlave
  <2> QED
    BY <2>1 DEF Depth, Top
<1>2. PICK top \in Scan :
        /\ scans' = [scans EXCEPT ![Depth] = top]
        /\ top.port = Top.port
        /\ Top.foundAny => top.foundAny
        /\ wired[Top.port] \subseteq Top.left \cup Top.missed =>
             top.foundAny \/ wired[top.port] \subseteq top.left \cup top.missed
  <2>1. CASE NextSlave
    <3> DEFINE next == [Top EXCEPT !.at = "read"]
    <3>1. scans' = [scans EXCEPT ![Depth] = next]
      BY <1>1, <2>1 DEF NextSlave, Top
    <3>2. next \in Scan
      BY <1>1 DEF Scan
    <3> QED
      BY <1>1, <3>1, <3>2 DEF Scan
  <2>2. CASE \E s \in Slaves : TrySlave(s)
    <3>1. PICK s \in Slaves : TrySlave(s)
      BY <2>2
    <3> DEFINE next ==
          [Top EXCEPT !.at = "update", !.left = @ \ {s},
                      !.foundAny = @ \/ Responds(s),
                      !.missed = IF Asked THEN @ ELSE @ \cup {s}]
    <3>2. scans' = [scans EXCEPT ![Depth] = next]
      BY <3>1 DEF TrySlave
    <3>3. next \in Scan
      BY <1>1, <3>1 DEF Scan, Responds, Asked
    <3>4. /\ next.port = Top.port /\ next.left = Top.left \ {s}
          /\ next.foundAny = (Top.foundAny \/ Responds(s))
          /\ next.missed = IF Asked THEN Top.missed
                           ELSE Top.missed \cup {s}
      BY <1>1 DEF Scan
    <3>5. Asked /\ s \in wired[Top.port] => Responds(s)
      BY <1>1, TesterAssumption DEF Asked, Responds, Scan
    <3>6. Top.foundAny => next.foundAny
      BY <3>4
    <3>7. wired[Top.port] \subseteq Top.left \cup Top.missed =>
             next.foundAny \/ wired[next.port] \subseteq next.left \cup next.missed
      <4>1. CASE Responds(s)
        BY <4>1, <3>4
      <4>2. CASE ~Responds(s) /\ Asked
        BY <4>2, <3>4, <3>5
      <4>3. CASE ~Asked
        BY <4>3, <3>4
      <4> QED
        BY <4>1, <4>2, <4>3
    <3> HIDE DEF next
    <3> QED
      BY <3>2, <3>3, <3>4, <3>6, <3>7
  <2> QED
    BY <2>1, <2>2
<1>3. /\ verdict' = <<>> /\ shown' = NoTag
      /\ UNCHANGED <<wired, window, client, held, service, polling>>
  BY DEF TrySlave, NextSlave
<1>4. TypeOK' /\ PortGivenBack' /\ SilenceIsReal'
  BY <1>1, <1>2, <1>3 DEF IInv, TypeOK, PortGivenBack, SilenceIsReal
<1>5. ScansSound'
  <2> SUFFICES ASSUME NEW i \in DOMAIN scans
               PROVE  \/ scans'[i].foundAny
                      \/ wired[scans'[i].port] \subseteq scans'[i].left \cup scans'[i].missed
    BY <1>1, <1>2, <1>3 DEF ScansSound
  <2>1. CASE i = Depth
    <3>1. scans'[i] = top
      BY <1>1, <1>2, <2>1
    <3> QED
      BY <1>1, <1>2, <2>1, <3>1 DEF IInv, ScansSound, Top
  <2>2. CASE i # Depth
    <3>1. scans'[i] = scans[i]
      BY <1>1, <1>2, <2>2
    <3> QED
      BY <3>1 DEF IInv, ScansSound
  <2> QED
    BY <2>1, <2>2
<1> QED
  BY <1>4, <1>5 DEF IInv

\* A scan ends: nothing is left to try, so what was not found was missed.
LEMMA EndScanIInv ==
    ASSUME IInv, EndScan
    PROVE  IInv'
<1>1. scans \in Seq(Scan) /\ Depth \in DOMAIN scans /\ Top \in Scan
  BY DEF IInv, TypeOK, EndScan, Depth, Top
<1>2. /\ scans' \in Seq(Scan) /\ DOMAIN scans' \subseteq DOMAIN scans
      /\ \A i \in DOMAIN scans' : scans'[i] = scans[i]
  BY <1>1 DEF EndScan, Depth
<1>3. verdict' = <<>> \/ (verdict' = <<Top>> /\ ~Top.foundAny)
  BY DEF EndScan
<1>4. TypeOK' /\ PortGivenBack'
  BY <1>1, <1>2, <1>3 DEF IInv, TypeOK, PortGivenBack, EndScan
<1>5. ScansSound'
  BY <1>2 DEF IInv, ScansSound, EndScan
<1>6. ~Top.foundAny => wired[Top.port] \subseteq Top.missed
  BY <1>1 DEF IInv, ScansSound, EndScan, Top
<1>7. SilenceIsReal'
  BY <1>3, <1>6 DEF SilenceIsReal, EndScan
<1> QED
  BY <1>4, <1>5, <1>7 DEF IInv

LEMMA Inductive == Spec => []IInv
<1>1. IInv /\ [Next]_vars => IInv'
  <2> SUFFICES ASSUME IInv, [Next]_vars
               PROVE  IInv'
    OBVIOUS
  <2> QED
    BY PortIInv, StartScanIInv, LoopIInv, EndScanIInv DEF Next
<1> QED
  BY InitIInv, <1>1, PTL DEF Spec

\* Types, for any depth of scans.
THEOREM TypeCorrect == Spec => []TypeOK
BY Inductive, PTL DEF IInv

\* The tester holds the port it names and no other, and none when it is closed.
THEOREM PortsGivenBack == Spec => []PortGivenBack
BY Inductive, PTL DEF IInv

\* A false "No response" takes a change of the connection before the turn of each
\* slave, or a request that cannot be made.
THEOREM SilenceReal == Spec => []SilenceIsReal
BY Inductive, PTL DEF IInv
=============================================================================
