----------------------------- MODULE SensorFrames -----------------------------
(***************************************************************************)
(* How the IMUs and the force sensor put a reading together.  A reading    *)
(* arrives as several CAN packages, one per passage; each bus cycle the    *)
(* EtherCAT thread calls OnRequest for every registered passage, exchanges *)
(* the frames, and calls OnResponse for every passage in registration      *)
(* order.  The device marks the packages it has in readyMsg, publishes     *)
(* when all are marked, and on an empty passage takes some marks back:     *)
(* which ones differs from device to device.                               *)
(*                                                                         *)
(* A package is abstracted to the reading (numbered) it was taken from and *)
(* to whether the device's first package came in the same cycle.  The      *)
(* sensor sends at its own rate, so a cycle may bring any part of the      *)
(* readings not yet delivered; a dropped frame leaves the inputs of the    *)
(* cycle before in place and the devices are called with them again.       *)
(***************************************************************************)
EXTENDS Naturals, Sequences

CONSTANTS
    Installed,      \* the devices the configuration may install
    InitTimes,      \* INIT_TIMES: passages called before packages are used
    MaxReadings     \* bound on the readings the sensor takes

(***************************************************************************)
(* A device: the package each registered passage carries (0: none that is  *)
(* used), the packages a message needs, and the marks an empty passage     *)
(* other than the first takes back.                                        *)
(***************************************************************************)
XsensImuDevice      == [passage |-> <<1, 2, 3, 0>>, needs |-> 1..3, abandons |-> {1, 2}]
XsensImuDeviceMode2 == [passage |-> <<1, 2, 3, 4>>, needs |-> 1..4, abandons |-> {1, 2, 3}]
RmImuDevice         == [passage |-> <<1, 2>>,       needs |-> 1..2, abandons |-> {1}]
XsensImuHRDevice    == [passage |-> <<1, 2>>,       needs |-> 1..2, abandons |-> {2}]
SriSensorDevice     == [passage |-> <<0, 1, 2, 3>>, needs |-> 1..3, abandons |-> {}]

Devices == {XsensImuDevice, XsensImuDeviceMode2, RmImuDevice, XsensImuHRDevice, SriSensorDevice}

ASSUME SensorAssumption ==
    /\ Installed \subseteq Devices
    /\ InitTimes \in Nat \ {0}
    /\ MaxReadings \in Nat \ {0}

VARIABLES
    device,     \* the device this node was configured with; never changes
    count,      \* count
    pos,        \* 0: between two cycles; i: OnResponse for passage i is next
    reading,    \* readings the sensor has taken
    delivered,  \* for each passage, the reading its package was last of
    input,      \* for each passage, the reading its package is of; 0: empty
    dropped,    \* the frame of this cycle was lost: input is the last cycle's
    readyMsg,   \* packages marked as there
    data,       \* for each package, the reading of the last one stored
    again,      \* history: stored packages the device was given before
    msg,        \* for each package, its reading in the last message
    sent,       \* messages published in this cycle
    inOrder     \* history: no package came without all those before it

vars == <<device, count, pos, reading, delivered, input, dropped, readyMsg, data,
          again, msg, sent, inOrder>>

Passages == 1..Len(device.passage)
Least(a, b) == IF a < b THEN a ELSE b

\* The constructors.
Init ==
    /\ device \in Installed
    /\ count = 0
    /\ pos = 0
    /\ reading = 0
    /\ delivered = [i \in Passages |-> 0]
    /\ input = [i \in Passages |-> 0]
    /\ dropped = FALSE
    /\ readyMsg = {}
    /\ data = [p \in device.needs |-> 0]
    /\ again = {}
    /\ msg = [p \in device.needs |-> 0]
    /\ sent = 0
    /\ inOrder = TRUE

Used(i) == device.passage[i] \in device.needs

\* What the sensor may have put into a passage: nothing, or the package of a
\* reading later than the one delivered before.
Arrivals(i, newest) ==
    IF Used(i) THEN {0} \cup {r \in 1..newest : r > delivered[i]} ELSE 0..1

\* The packages of a cycle are one reading's, with none missing before another.
InOrder(in) ==
    \A i, j \in Passages : i < j /\ Used(i) /\ Used(j) /\ in[j] # 0 => in[i] = in[j]

\* OnRequest of every passage.
OnRequests == count' = Least(count + Len(device.passage), InitTimes)

\* The first half of a bus cycle: the requests, then the exchange, in which the
\* sensor's packages come or which is lost.
Exchange ==
    /\ pos = 0
    /\ OnRequests
    /\ pos' = 1
    /\ sent' = 0
    /\ \/ /\ dropped' = TRUE
          /\ UNCHANGED <<reading, input, delivered, inOrder>>
       \/ /\ dropped' = FALSE
          /\ reading' \in {reading, Least(reading + 1, MaxReadings)}
          /\ input' \in [Passages -> 0..MaxReadings]
          /\ \A i \in Passages : input'[i] \in Arrivals(i, reading')
          /\ delivered' = [i \in Passages |->
                IF Used(i) /\ input'[i] # 0 THEN input'[i] ELSE delivered[i]]
          /\ inOrder' = (inOrder /\ InOrder(input'))
    /\ UNCHANGED <<device, readyMsg, data, again, msg>>

\* The loop of SendResponseToDevices goes on.
NextPassage ==
    /\ pos' = IF pos = Len(device.passage) THEN 0 ELSE pos + 1
    /\ UNCHANGED <<device, count, reading, delivered, input, dropped, inOrder>>

\* What is left of the marks after an empty passage.
Abandon == IF pos = 1 THEN readyMsg ELSE readyMsg \ device.abandons

\* OnResponse, empty passage.
Missing ==
    /\ pos # 0
    /\ input[pos] = 0
    /\ readyMsg' = Abandon
    /\ NextPassage
    /\ UNCHANGED <<data, again, msg, sent>>

\* OnResponse while the requests still go out: the package is not looked at.
Early ==
    /\ pos # 0
    /\ input[pos] # 0
    /\ count < InitTimes
    /\ NextPassage
    /\ UNCHANGED <<readyMsg, data, again, msg, sent>>

\* Mistake: the marks survive the message.
MarksAfterMessageKept == device.needs

\* readyMsg is cleared when a message has left.
MarksAfterMessage == {}

\* OnResponse, a package: store it, and publish what is stored when all are there.
Package ==
    /\ pos # 0
    /\ input[pos] # 0
    /\ count >= InitTimes
    /\ LET p     == device.passage[pos]
           new   == {p} \cap device.needs
           marks == readyMsg \cup new
       IN  /\ data' = [q \in device.needs |-> IF q = p THEN input[pos] ELSE data[q]]
           /\ again' = IF dropped THEN again \cup new ELSE again \ new
           /\ IF marks = device.needs
              THEN /\ msg' = data'
                   /\ sent' = sent + 1
                   /\ readyMsg' = MarksAfterMessage
              ELSE /\ readyMsg' = marks
                   /\ UNCHANGED <<msg, sent>>
    /\ NextPassage

OnResponse == Missing \/ Early \/ Package

Next == Exchange \/ OnResponse

Spec == Init /\ [][Next]_vars
=============================================================================
