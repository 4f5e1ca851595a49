-------------------------- MODULE SensorFramesProofs --------------------------
(***************************************************************************)
(* The messages of every device are as SensorFramesProps says for any      *)
(* number of readings and any length of the warm-up.                       *)
(***************************************************************************)
EXTENDS SensorFramesProps, TLAPS

\* What the argument needs to know of a device: each package has one passage, and
\* a passage without a package either cannot abandon one or comes last.
LEMMA DeviceFacts ==
    ASSUME NEW d \in Devices
    PROVE  /\ Len(d.passage) \in Nat /\ Len(d.passage) >= 2
           /\ d.passage \in Seq(0..4)
           /\ d.needs # {} /\ 0 \notin d.needs
           /\ d.abandons \subseteq d.needs
           /\ \A p \in d.needs : \E i \in 1..Len(d.passage) : d.passage[i] = p
           /\ \A i, j \in 1..Len(d.passage) :
                d.passage[i] = d.passage[j] /\ d.passage[i] \in d.needs => i = j
           /\ \A i, j \in 1..Len(d.passage) :
                d.passage[i] \notin d.needs /\ d.passage[j] \in d.needs /\ d.abandons # {} => j < i
           /\ \E l \in 1..Len(d.passage) :
                /\ d.passage[l] \in d.needs
                /\ \A j \in 1..Len(d.passage) : d.passage[j] \in d.needs => j <= l
           /\ 1 \in d.abandons => d.passage[1] = 1
<1>1. CASE d = XsensImuDevice
  <2>1. Len(d.passage) = 4 /\ d.needs = {1, 2, 3} /\ d.abandons = {1, 2} /\ d.passage \in Seq(0..4)
    BY <1>1 DEF XsensImuDevice
  <2>2. d.passage[1] = 1 /\ d.passage[2] = 2 /\ d.passage[3] = 3 /\ d.passage[4] = 0
    BY <1>1 DEF XsensImuDevice
  <2> QED
    BY <2>1, <2>2
<1>2. CASE d = XsensImuDeviceMode2
  <2>1. Len(d.passage) = 4 /\ d.needs = {1, 2, 3, 4} /\ d.abandons = {1, 2, 3} /\ d.passage \in Seq(0..4)
    BY <1>2 DEF XsensImuDeviceMode2
  <2>2. d.passage[1] = 1 /\ d.passage[2] = 2 /\ d.passage[3] = 3 /\ d.passage[4] = 4
    BY <1>2 DEF XsensImuDeviceMode2
  <2> QED
    BY <2>1, <2>2
<1>3. CASE d = RmImuDevice
  <2>1. Len(d.passage) = 2 /\ d.needs = {1, 2} /\ d.abandons = {1} /\ d.passage \in Seq(0..4)
    BY <1>3 DEF RmImuDevice
  <2>2. d.passage[1] = 1 /\ d.passage[2] = 2
    BY <1>3 DEF RmImuDevice
  <2> QED
    BY <2>1, <2>2
<1>4. CASE d = XsensImuHRDevice
  <2>1. Len(d.passage) = 2 /\ d.needs = {1, 2} /\ d.abandons = {2} /\ d.passage \in Seq(0..4)
    BY <1>4 DEF XsensImuHRDevice
  <2>2. d.passage[1] = 1 /\ d.passage[2] = 2
    BY <1>4 DEF XsensImuHRDevice
  <2> QED
    BY <2>1, <2>2
<1>5. CASE d = SriSensorDevice
  <2>1. Len(d.passage) = 4 /\ d.needs = {1, 2, 3} /\ d.abandons = {} /\ d.passage \in Seq(0..4)
    BY <1>5 DEF SriSensorDevice
  <2>2. d.passage[1] = 0 /\ d.passage[2] = 1 /\ d.passage[3] = 2 /\ d.passage[4] = 3
    BY <1>5 DEF SriSensorDevice
  <2> QED
    BY <2>1, <2>2
<1> QED
  BY <1>1, <1>2, <1>3, <1>4, <1>5 DEF Devices

\* The same facts about the device of a state.
LEMMA OfDevice ==
    ASSUME TypeOK
    PROVE  /\ device \in Devices
           /\ Passages = 1..Len(device.passage)
           /\ Len(device.passage) \in Nat /\ Len(device.passage) >= 2
           /\ device.needs # {} /\ 0 \notin device.needs
           /\ device.abandons \subseteq device.needs
           /\ \A p \in device.needs : \E i \in Passages : device.passage[i] = p
           /\ \A i, j \in Passages : device.passage[i] = device.passage[j] /\ Used(i) => i = j
           /\ \A i, j \in Passages : ~Used(i) /\ Used(j) /\ device.abandons # {} => j < i
           /\ \E l \in Passages : Last(l)
           /\ 1 \in device.abandons => device.passage[1] = 1
           /\ pos # 0 => pos \in Passages
<1>1. device \in Devices
  BY SensorAssumption DEF TypeOK
<1>2. pos # 0 => pos \in 1..Len(device.passage)
  BY <1>1, DeviceFacts DEF TypeOK
<1> QED
  BY <1>1, <1>2, DeviceFacts DEF Passages, Used, Last

\* Nothing is marked, stored or sent at the start.
LEMMA InitInv == Init => SensorInv
<1> SUFFICES ASSUME Init PROVE SensorInv
  OBVIOUS
<1> USE SensorAssumption
<1>1. TypeOK
  <2>1. device \in Devices /\ device \in Installed
    BY DEF Init
  <2>2. Len(device.passage) \in Nat
    BY <2>1, DeviceFacts
  <2> QED
    BY <2>1, <2>2 DEF Init, TypeOK, Passages
<1>2. /\ device.needs # {}
      /\ \A p \in device.needs : \E i \in Passages : device.passage[i] = p
  BY <1>1, OfDevice
<1>3. dropped \in BOOLEAN /\ inOrder \in BOOLEAN
  BY Zenon DEF Init
<1>4. Stored
  BY <1>1 DEF Init, Stored, Used
<1>5. Waiting /\ Together /\ FirstKept
  BY <1>1 DEF Init, Waiting, Together, FirstKept, InOrder
<1>6. Progress
  BY <1>2 DEF Init, Progress, Used
<1> QED
  BY <1>1, <1>3, <1>4, <1>5, <1>6 DEF SensorInv

\* An exchange: the packages that come are newer than those stored, those of a
\* lost exchange are the ones stored.
LEMMA ExchangeInv == ASSUME SensorInv, Exchange PROVE SensorInv'
<1> USE SensorAssumption
<1>1. TypeOK /\ dropped \in BOOLEAN /\ inOrder \in BOOLEAN
  BY DEF SensorInv
<1>2. /\ pos = 0 /\ pos' = 1 /\ sent' = 0
      /\ count' = Least(count + Len(device.passage), InitTimes)
      /\ UNCHANGED <<device, readyMsg, data, again, msg>>
  BY DEF Exchange, OnRequests
<1>3. /\ Passages = 1..Len(device.passage) /\ Len(device.passage) \in Nat
      /\ Len(device.passage) >= 2 /\ device.needs # {} /\ Passages' = Passages
      /\ \A i \in Passages : Used(i) => device.passage[i] \in device.needs
  BY <1>1, <1>2, OfDevice DEF Passages, Used
<1>4. count' \in 0..InitTimes /\ (count = InitTimes => count' = InitTimes)
  BY <1>1, <1>2, <1>3 DEF TypeOK, Least
<1>5. Handled' = {}
  BY <1>1, <1>2, <1>3 DEF Handled
<1>6. 1 \in device.abandons => 1 \notin readyMsg
  BY <1>2 DEF SensorInv, FirstKept
<1>7. CASE dropped'
  <2>1. UNCHANGED <<reading, input, delivered, inOrder>>
    BY <1>7 DEF Exchange
  <2>2. TypeOK'
    BY <1>1, <1>2, <1>3, <1>4, <2>1 DEF TypeOK
  <2>3. Stored'
    BY <1>1, <1>2, <1>3, <1>4, <2>1 DEF SensorInv, Stored, Used
  <2>4. Waiting'
    BY <1>2, <1>3, <1>7, <2>1 DEF SensorInv, Waiting, Used
  <2>5. Progress'
    BY <1>1, <1>2, <1>3, <1>4, <1>5, <2>1 DEF SensorInv, Progress, Used
  <2>6. Together'
    BY <1>1, <1>2, <1>3, <2>1 DEF SensorInv, Together, InOrder, Last, Used
  <2>7. FirstKept'
    BY <1>2, <1>6 DEF FirstKept
  <2> QED
    BY <1>1, <1>7, <2>1, <2>2, <2>3, <2>4, <2>5, <2>6, <2>7 DEF SensorInv
<1>8. CASE ~dropped'
  <2>1. /\ dropped' = FALSE
        /\ reading' \in {reading, Least(reading + 1, MaxReadings)}
        /\ input' \in [Passages -> 0..MaxReadings]
        /\ \A i \in Passages : input'[i] \in Arrivals(i, reading')
        /\ delivered' = [i \in Passages |->
              IF Used(i) /\ input'[i] # 0 THEN input'[i] ELSE delivered[i]]
        /\ inOrder' = (inOrder /\ InOrder(input'))
    BY <1>8 DEF Exchange
  <2>2. \A i \in Passages :
          /\ delivered'[i] \in 0..MaxReadings /\ delivered'[i] >= delivered[i]
          /\ Used(i) /\ input'[i] # 0 => input'[i] = delivered'[i] /\ input'[i] > delivered[i]
    BY <1>1, <2>1 DEF TypeOK, Arrivals
  <2>3. delivered' \in [Passages -> 0..MaxReadings]
    BY <2>1, <2>2
  <2>4. TypeOK'
    BY <1>1, <1>2, <1>3, <1>4, <2>1, <2>3 DEF TypeOK, Least
  <2>5. Stored'
    <3>1. \A i \in Passages : Used(i) => data[device.passage[i]] <= delivered'[i]
      BY <1>1, <1>3, <2>2 DEF SensorInv, Stored, TypeOK
    <3> QED
      BY <1>1, <1>2, <1>3, <1>4, <3>1 DEF SensorInv, Stored, Used
  <2>6. Waiting'
    <3>1. \A i \in Passages : Used(i) /\ input'[i] # 0 => data[device.passage[i]] < input'[i]
      <4> SUFFICES ASSUME NEW i \in Passages, Used(i), input'[i] # 0
                   PROVE  data[device.passage[i]] < input'[i]
        OBVIOUS
      <4>1. device.passage[i] \in device.needs
        BY <1>3
      <4>2. data[device.passage[i]] \in Nat /\ delivered[i] \in Nat /\ input'[i] \in Nat
        BY <1>1, <2>1, <4>1 DEF TypeOK
      <4>3. data[device.passage[i]] <= delivered[i] /\ input'[i] > delivered[i]
        BY <2>2 DEF SensorInv, Stored
      <4> QED
        BY <4>2, <4>3
    <3> QED
      BY <1>2, <1>3, <2>2, <3>1 DEF Waiting, Used
  <2>7. Progress'
    BY <1>1, <1>2, <1>3, <1>4, <1>5 DEF SensorInv, Progress, Used
  <2>8. Together'
    <3>1. InOrder(input)' <=> InOrder(input')
      BY <1>2, <1>3 DEF InOrder, Used
    <3>2. inOrder' => inOrder /\ InOrder(input)'
      BY <2>1, <3>1
    <3>3. \A i \in Passages : Last(i)' <=> Last(i)
      BY <1>2, <1>3 DEF Last, Used
    <3> QED
      BY <1>2, <1>3, <3>2, <3>3 DEF SensorInv, Together
  <2>9. FirstKept'
    BY <1>2, <1>6 DEF FirstKept
  <2>10. inOrder' \in BOOLEAN
    BY <1>1, <2>1 DEF InOrder
  <2> QED
    BY <2>1, <2>4, <2>5, <2>6, <2>7, <2>8, <2>9, <2>10 DEF SensorInv
<1> QED
  BY <1>7, <1>8

\* What the loop of SendResponseToDevices does to the packages handled.
LEMMA Advance ==
    ASSUME TypeOK, pos # 0, NextPassage
    PROVE  /\ pos \in Passages /\ Passages' = Passages
           /\ pos' \in 0..Len(device.passage)
           /\ pos' # 0 => pos' = pos + 1 /\ pos < Len(device.passage)
           /\ Handled' = Handled \cup ({device.passage[pos]} \cap device.needs)
           /\ pos' = 0 => Handled' = device.needs
           /\ Used(pos) => device.passage[pos] \notin Handled
           /\ Handled \subseteq device.needs
<1>1. /\ pos \in Passages /\ Passages = 1..Len(device.passage) /\ Len(device.passage) \in Nat
      /\ \A p \in device.needs : \E i \in Passages : device.passage[i] = p
      /\ \A i, j \in Passages : device.passage[i] = device.passage[j] /\ Used(i) => i = j
  BY OfDevice
<1>2. device' = device /\ Passages' = Passages /\ pos' = (IF pos = Len(device.passage) THEN 0 ELSE pos + 1)
  BY DEF NextPassage, Passages
<1>3. pos' = 0 => Handled' = device.needs
  BY <1>1, <1>2 DEF Handled
<1>4. Handled' = Handled \cup ({device.passage[pos]} \cap device.needs)
  <2>1. CASE pos = Len(device.passage)
    BY <1>1, <1>2, <1>3, <2>1 DEF Handled
  <2>2. CASE pos # Len(device.passage)
    BY <1>1, <1>2, <2>2 DEF Handled
  <2> QED
    BY <2>1, <2>2
<1>5. Used(pos) => device.passage[pos] \notin Handled
  BY <1>1 DEF Handled, Used
<1> QED
  BY <1>1, <1>2, <1>3, <1>4, <1>5 DEF Handled

\* An empty passage takes marks back, never those of a cycle that is whole.
LEMMA MissingInv == ASSUME SensorInv, Missing PROVE SensorInv'
<1> USE SensorAssumption
<1>1. TypeOK /\ dropped \in BOOLEAN /\ inOrder \in BOOLEAN
  BY DEF SensorInv
<1>2. /\ pos # 0 /\ input[pos] = 0 /\ readyMsg' = Abandon /\ NextPassage
      /\ UNCHANGED <<data, again, msg, sent>>
      /\ UNCHANGED <<device, count, reading, delivered, input, dropped, inOrder>>
  BY DEF Missing, NextPassage
<1>3. /\ Passages = 1..Len(device.passage) /\ Len(device.passage) \in Nat
      /\ device.needs # {}
      /\ \A p \in device.needs : \E i \in Passages : device.passage[i] = p
      /\ \A i, j \in Passages : ~Used(i) /\ Used(j) /\ device.abandons # {} => j < i
      /\ \A i \in Passages : Used(i) <=> device.passage[i] \in device.needs
  BY <1>1, OfDevice DEF Used
<1>4. /\ pos \in Passages /\ Passages' = Passages /\ pos' \in 0..Len(device.passage)
      /\ pos' # 0 => pos' = pos + 1 /\ pos < Len(device.passage)
      /\ Handled' = Handled \cup ({device.passage[pos]} \cap device.needs)
      /\ pos' = 0 => Handled' = device.needs
      /\ Handled \subseteq device.needs
  BY <1>1, <1>2, Advance
<1>5. readyMsg' \subseteq readyMsg
  BY <1>2 DEF Abandon
<1>6. \A i \in Passages : Used(i)' <=> Used(i)
  BY <1>2 DEF Used
<1>7. TypeOK'
  BY <1>1, <1>2, <1>4, <1>5 DEF TypeOK
<1>8. Stored'
  BY <1>1, <1>2, <1>4, <1>5, <1>6 DEF SensorInv, Stored
<1>9. Waiting'
  BY <1>2, <1>3, <1>4, <1>6 DEF SensorInv, Waiting
<1>10. Progress'
  <2>1. readyMsg # device.needs /\ readyMsg \subseteq device.needs /\ readyMsg' # device.needs
    BY <1>1, <1>5 DEF SensorInv, Progress, TypeOK
  <2>2. sent = 1 => \E p \in Handled' : p \notin readyMsg'
    BY <1>4, <1>5 DEF SensorInv, Progress
  <2>3. ASSUME sent = 0, count = InitTimes, \A i \in Passages : Used(i) => input[i] # 0
        PROVE  pos' # 0 /\ Handled' \subseteq readyMsg'
    <3>1. Handled \subseteq readyMsg
      BY <2>3 DEF SensorInv, Progress
    <3>2. ~Used(pos) /\ Handled' = Handled
      BY <1>2, <1>3, <1>4, <2>3
    <3>3. pos' # 0
      BY <1>4, <2>1, <3>1, <3>2
    <3>4. readyMsg' = readyMsg
      <4>1. CASE device.abandons = {} \/ pos = 1
        BY <1>2, <4>1 DEF Abandon
      <4>2. CASE device.abandons # {}
        <5>1. \A j \in Passages : Used(j) => j < pos
          BY <1>3, <1>4, <3>2, <4>2
        <5>2. Handled = device.needs
          BY <1>3, <5>1 DEF Handled
        <5> QED
          BY <2>1, <3>1, <5>2
      <4> QED
        BY <4>1, <4>2
    <3> QED
      BY <3>1, <3>2, <3>3, <3>4
  <2> QED
    BY <1>2, <1>4, <1>6, <2>1, <2>2, <2>3 DEF Progress
<1>11. Together'
  <2>1. InOrder(input)' <=> InOrder(input)
    BY <1>2, <1>4, <1>6 DEF InOrder
  <2>2. \A i \in Passages : Last(i)' <=> Last(i)
    BY <1>4, <1>6 DEF Last
  <2>3. \A i \in Passages : pos' # 0 /\ pos' <= i => pos <= i
    BY <1>3, <1>4
  <2> QED
    BY <1>2, <1>4, <1>5, <2>1, <2>2, <2>3 DEF SensorInv, Together
<1>12. FirstKept'
  <2>1. ASSUME 1 \in device.abandons, 1 \in readyMsg' PROVE FALSE
    <3>1. 1 \in readyMsg /\ pos > 1
      BY <1>5, <2>1 DEF SensorInv, FirstKept
    <3> QED
      BY <1>2, <2>1, <3>1 DEF Abandon
  <2> QED
    BY <1>2, <2>1 DEF FirstKept
<1> QED
  BY <1>1, <1>2, <1>7, <1>8, <1>9, <1>10, <1>11, <1>12 DEF SensorInv

\* During the warm-up nothing is marked, and nothing becomes so.
LEMMA EarlyInv == ASSUME SensorInv, Early PROVE SensorInv'
<1> USE SensorAssumption
<1>1. TypeOK /\ dropped \in BOOLEAN /\ inOrder \in BOOLEAN
  BY DEF SensorInv
<1>2. /\ pos # 0 /\ input[pos] # 0 /\ count < InitTimes /\ NextPassage
      /\ UNCHANGED <<readyMsg, data, again, msg, sent>>
      /\ UNCHANGED <<device, count, reading, delivered, input, dropped, inOrder>>
  BY DEF Early, NextPassage
<1>3. /\ pos \in Passages /\ Passages' = Passages /\ pos' \in 0..Len(device.passage)
      /\ pos' # 0 => pos' = pos + 1 /\ pos < Len(device.passage)
      /\ Handled \subseteq Handled'
      /\ Passages = 1..Len(device.passage) /\ Len(device.passage) \in Nat
  BY <1>1, <1>2, Advance, OfDevice
<1>4. count # InitTimes /\ readyMsg = {}
  BY <1>1, <1>2 DEF SensorInv, Stored, TypeOK
<1>5. \A i \in Passages : Used(i)' <=> Used(i)
  BY <1>2 DEF Used
<1>6. TypeOK'
  BY <1>1, <1>2, <1>3 DEF TypeOK
<1>7. Stored'
  BY <1>1, <1>2, <1>3, <1>5 DEF SensorInv, Stored
<1>8. Waiting'
  BY <1>2, <1>3, <1>4, <1>5 DEF SensorInv, Waiting
<1>9. Progress'
  BY <1>2, <1>3, <1>4 DEF SensorInv, Progress
<1>10. Together'
  <2>1. InOrder(input)' <=> InOrder(input)
    BY <1>2, <1>3, <1>5 DEF InOrder
  <2>2. \A i \in Passages : Last(i)' <=> Last(i)
    BY <1>3, <1>5 DEF Last
  <2>3. \A i \in Passages : pos' # 0 /\ pos' <= i => pos <= i
    BY <1>3
  <2> QED
    BY <1>2, <1>3, <2>1, <2>2, <2>3 DEF SensorInv, Together
<1>11. FirstKept'
  BY <1>2, <1>4 DEF FirstKept
<1> QED
  BY <1>1, <1>2, <1>6, <1>7, <1>8, <1>9, <1>10, <1>11 DEF SensorInv

\* What a package does before the question whether a message leaves.
LEMMA PackageFacts ==
    ASSUME SensorInv, Package
    PROVE  /\ pos \in Passages /\ pos # 0 /\ input[pos] # 0 /\ count = InitTimes /\ NextPassage
           /\ UNCHANGED <<device, count, reading, delivered, input, dropped, inOrder>>
           /\ \A i \in Passages : Used(i)' <=> Used(i)
           /\ data' \in [device.needs -> 0..MaxReadings]
           /\ \A q \in device.needs :
                /\ data'[q] = IF q = device.passage[pos] THEN input[pos] ELSE data[q]
                /\ data'[q] >= data[q]
           /\ \A i \in Passages : Used(i) /\ i # pos =>
                device.passage[i] # device.passage[pos]
           /\ again' \subseteq device.needs
           /\ \A q \in device.needs :
                q \in again' <=> IF q = device.passage[pos] THEN dropped ELSE q \in again
<1> USE SensorAssumption
<1>1. TypeOK /\ dropped \in BOOLEAN
  BY DEF SensorInv
<1>2. /\ pos # 0 /\ input[pos] # 0 /\ count >= InitTimes /\ NextPassage
      /\ UNCHANGED <<device, count, reading, delivered, input, dropped, inOrder>>
  BY DEF Package, NextPassage
<1>3. count = InitTimes
  BY <1>1, <1>2 DEF TypeOK
<1>4. /\ pos \in Passages
      /\ \A i, j \in Passages : device.passage[i] = device.passage[j] /\ Used(i) => i = j
  BY <1>1, <1>2, OfDevice
<1>5. \A q \in device.needs :
        data'[q] = IF q = device.passage[pos] THEN input[pos] ELSE data[q]
  BY DEF Package
<1>6. data' \in [device.needs -> 0..MaxReadings]
  BY <1>1, <1>4 DEF Package, TypeOK
<1>7. ASSUME NEW q \in device.needs PROVE data'[q] >= data[q]
  <2>1. data[q] \in Nat /\ data'[q] \in Nat
    BY <1>1, <1>6 DEF TypeOK
  <2>2. CASE q = device.passage[pos]
    <3>1. Used(pos) /\ input[pos] = delivered[pos] /\ data[q] <= delivered[pos]
      BY <1>2, <1>4, <2>2 DEF SensorInv, Waiting, Stored, Used
    <3> QED
      BY <1>5, <2>1, <2>2, <3>1
  <2>3. CASE q # device.passage[pos]
    BY <1>5, <2>1, <2>3
  <2> QED
    BY <2>2, <2>3
<1>8. again' \subseteq device.needs
  BY <1>1 DEF Package, TypeOK
<1>9. \A q \in device.needs :
        q \in again' <=> IF q = device.passage[pos] THEN dropped ELSE q \in again
  BY <1>1 DEF Package
<1>10. \A i \in Passages : Used(i)' <=> Used(i)
  BY <1>2 DEF Used
<1> QED
  BY <1>2, <1>3, <1>4, <1>5, <1>6, <1>7, <1>8, <1>9, <1>10 DEF Used

\* The package in a passage already handled is the one stored, also after this one.
LEMMA WaitingKept == ASSUME SensorInv, Package PROVE Waiting'
<1>1. TypeOK
  BY DEF SensorInv
<1>2. /\ pos \in Passages /\ pos # 0 /\ input[pos] # 0 /\ count = InitTimes /\ NextPassage
      /\ UNCHANGED <<device, count, delivered, input, dropped>>
      /\ \A i \in Passages : Used(i)' <=> Used(i)
      /\ \A q \in device.needs :
           data'[q] = IF q = device.passage[pos] THEN input[pos] ELSE data[q]
      /\ \A i \in Passages : Used(i) /\ i # pos => device.passage[i] # device.passage[pos]
  BY PackageFacts
<1>3. /\ Passages' = Passages
      /\ pos' # 0 => pos' = pos + 1
      /\ Passages = 1..Len(device.passage) /\ Len(device.passage) \in Nat
  BY <1>1, <1>2, Advance, OfDevice
<1> SUFFICES ASSUME NEW i \in Passages, Used(i), input[i] # 0
             PROVE  /\ input[i] = delivered[i]
                    /\ pos' # 0 /\ i >= pos' /\ ~dropped => data'[device.passage[i]] < input[i]
                    /\ pos' # 0 /\ i < pos' /\ count = InitTimes
                         => data'[device.passage[i]] = input[i]
  BY <1>2, <1>3 DEF Waiting
<1>4. device.passage[i] \in device.needs
  BY DEF Used
<1>5. /\ input[i] = delivered[i]
      /\ i >= pos /\ ~dropped => data[device.passage[i]] < input[i]
      /\ i < pos => data[device.passage[i]] = input[i]
  BY <1>2 DEF SensorInv, Waiting
<1>6. CASE i = pos
  BY <1>2, <1>3, <1>4, <1>5, <1>6
<1>7. CASE i # pos
  <2>1. data'[device.passage[i]] = data[device.passage[i]]
    BY <1>2, <1>4, <1>7
  <2> QED
    BY <1>2, <1>3, <1>5, <1>7, <2>1
<1> QED
  BY <1>6, <1>7

\* The package that completes the set: one message leaves, every package in it is
\* newer or repeated, and while packages come in order it is one reading's.
LEMMA PublishFacts ==
    ASSUME SensorInv, Package, sent' > sent
    PROVE  /\ Used(pos) /\ sent = 0 /\ sent' = 1
           /\ msg' = data' /\ readyMsg' = {}
           /\ \A q \in device.needs : q = device.passage[pos] \/ q \in readyMsg
           /\ \A q \in device.needs : data'[q] > msg[q] \/ (data'[q] = msg[q] /\ q \in again')
           /\ inOrder => /\ \A q \in device.needs : data'[q] = input[pos]
                         /\ \A i \in Passages : Last(i) => i = pos
<1>1. TypeOK /\ dropped \in BOOLEAN
  BY DEF SensorInv
<1>2. /\ pos \in Passages /\ pos # 0 /\ input[pos] # 0 /\ count = InitTimes /\ NextPassage
      /\ data' \in [device.needs -> 0..MaxReadings]
      /\ \A q \in device.needs :
           /\ data'[q] = IF q = device.passage[pos] THEN input[pos] ELSE data[q]
           /\ data'[q] >= data[q]
      /\ \A i \in Passages : Used(i) /\ i # pos => device.passage[i] # device.passage[pos]
      /\ \A q \in device.needs :
           q \in again' <=> IF q = device.passage[pos] THEN dropped ELSE q \in again
  BY PackageFacts
<1>3. /\ \A p \in device.needs : \E i \in Passages : device.passage[i] = p
      /\ \E l \in Passages : Last(l)
      /\ Passages = 1..Len(device.passage) /\ Len(device.passage) \in Nat
      /\ \A i \in Passages : Used(i) <=> device.passage[i] \in device.needs
  BY <1>1, OfDevice DEF Used
<1>4. /\ readyMsg \cup ({device.passage[pos]} \cap device.needs) = device.needs
      /\ msg' = data' /\ sent' = sent + 1 /\ readyMsg' = {}
  BY <1>1 DEF Package, MarksAfterMessage, TypeOK
<1>5. Used(pos) /\ \A q \in device.needs : q = device.passage[pos] \/ q \in readyMsg
  <2>1. readyMsg # device.needs
    BY DEF SensorInv, Progress
  <2>2. Used(pos)
    BY <1>4, <2>1 DEF Used
  <2> QED
    BY <1>4, <2>2
<1>6. device.passage[pos] \notin Handled /\ Handled \subseteq device.needs
  BY <1>1, <1>2, <1>5, Advance
<1>7. sent = 0
  BY <1>1, <1>5, <1>6 DEF SensorInv, Progress, TypeOK
<1>8. ASSUME NEW q \in device.needs
      PROVE  data'[q] > msg[q] \/ (data'[q] = msg[q] /\ q \in again')
  <2>1. data'[q] \in Nat /\ data[q] \in Nat /\ msg[q] \in Nat /\ msg[q] <= data[q] /\ data'[q] >= data[q]
    BY <1>1, <1>2 DEF TypeOK, SensorInv, Stored
  <2>2. CASE q = device.passage[pos]
    <3>1. ~dropped => data'[q] > data[q]
      BY <1>2, <1>3, <1>5, <2>1, <2>2 DEF SensorInv, Waiting
    <3> QED
      BY <1>2, <2>1, <2>2, <3>1
  <2>3. CASE q # device.passage[pos]
    BY <1>2, <1>5, <2>1, <2>3 DEF SensorInv, Stored
  <2> QED
    BY <2>2, <2>3
<1>9. ASSUME inOrder
      PROVE  /\ \A q \in device.needs : data'[q] = input[pos]
             /\ \A i \in Passages : Last(i) => i = pos
  <2>1. \A i \in Passages : Last(i) => i = pos
    <3> SUFFICES ASSUME NEW i \in Passages, Last(i) PROVE i = pos
      OBVIOUS
    <3>1. device.passage[i] \in device.needs /\ device.passage[i] \notin readyMsg /\ Used(i)
      BY <1>9 DEF SensorInv, Together, Last, Used
    <3> QED
      BY <1>2, <1>5, <3>1
  <2>2. \A j \in Passages : Used(j) => j <= pos
    BY <1>3, <2>1 DEF Last
  <2>3. ASSUME NEW q \in device.needs PROVE data'[q] = input[pos]
    <3>1. PICK i \in Passages : device.passage[i] = q
      BY <1>3
    <3>2. Used(i) /\ i <= pos
      BY <1>3, <2>2, <3>1
    <3>3. CASE i = pos
      BY <1>2, <3>1, <3>3
    <3>4. CASE i # pos
      <4>1. i < pos
        BY <1>3, <1>2, <3>2, <3>4
      <4>2. input[i] = input[pos]
        BY <1>2, <1>5, <1>9, <3>2, <4>1 DEF SensorInv, Together, InOrder
      <4>3. data[q] = input[i]
        BY <1>2, <3>1, <3>2, <4>1, <4>2 DEF SensorInv, Waiting
      <4>4. q # device.passage[pos]
        BY <1>2, <3>1, <3>2, <3>4
      <4> QED
        BY <1>2, <4>2, <4>3, <4>4
    <3> QED
      BY <3>3, <3>4
  <2> QED
    BY <2>1, <2>3
<1> QED
  BY <1>4, <1>5, <1>7, <1>8, <1>9

LEMMA PublishInv == ASSUME SensorInv, Package, sent' > sent PROVE SensorInv'
<1> USE SensorAssumption
<1>1. TypeOK /\ dropped \in BOOLEAN /\ inOrder \in BOOLEAN /\ Waiting'
  BY WaitingKept DEF SensorInv
<1>2. /\ Used(pos) /\ sent' = 1 /\ msg' = data' /\ readyMsg' = {}
      /\ inOrder => /\ \A q \in device.needs : data'[q] = input[pos]
                    /\ \A i \in Passages : Last(i) => i = pos
  BY PublishFacts
<1>3. /\ pos \in Passages /\ pos # 0 /\ NextPassage
      /\ UNCHANGED <<device, count, reading, delivered, input, dropped, inOrder>>
      /\ \A i \in Passages : Used(i)' <=> Used(i)
      /\ data' \in [device.needs -> 0..MaxReadings]
      /\ \A q \in device.needs :
           data'[q] = IF q = device.passage[pos] THEN input[pos] ELSE data[q]
      /\ again' \subseteq device.needs
  BY PackageFacts
<1>4. /\ Passages' = Passages /\ pos' \in 0..Len(device.passage)
      /\ pos' # 0 => pos' = pos + 1
      /\ Handled' = Handled \cup ({device.passage[pos]} \cap device.needs)
      /\ Passages = 1..Len(device.passage) /\ Len(device.passage) \in Nat
      /\ device.needs # {}
      /\ \A i, j \in Passages : device.passage[i] = device.passage[j] /\ Used(i) => i = j
  BY <1>1, <1>3, Advance, OfDevice
<1>5. TypeOK'
  BY <1>1, <1>2, <1>3, <1>4 DEF TypeOK
<1>6. Stored'
  <2>1. ASSUME NEW i \in Passages, Used(i) PROVE data'[device.passage[i]] <= delivered[i]
    <3>1. device.passage[i] \in device.needs /\ data[device.passage[i]] <= delivered[i]
      BY <2>1 DEF SensorInv, Stored, Used
    <3>2. CASE device.passage[i] = device.passage[pos]
      <4>1. i = pos /\ input[pos] # 0
        BY <1>3, <1>4, <2>1, <3>2, PackageFacts
      <4>2. input[i] = delivered[i] /\ data'[device.passage[i]] = input[i] /\ delivered[i] \in Nat
        BY <1>1, <1>3, <2>1, <3>1, <4>1 DEF SensorInv, Waiting, TypeOK
      <4> QED
        BY <4>2
    <3>3. CASE device.passage[i] # device.passage[pos]
      BY <1>3, <3>1, <3>3
    <3> QED
      BY <3>2, <3>3
  <2>2. \A p \in device.needs : data'[p] <= data'[p]
    BY <1>3
  <2> QED
    BY <1>2, <1>3, <1>4, <2>1, <2>2 DEF Stored
<1>7. Progress'
  BY <1>2, <1>3, <1>4 DEF Progress, Used
<1>8. Together'
  <2>1. InOrder(input)' <=> InOrder(input)
    BY <1>3, <1>4 DEF InOrder
  <2>2. \A i \in Passages : Last(i)' <=> Last(i)
    BY <1>3, <1>4 DEF Last
  <2> QED
    BY <1>2, <1>3, <1>4, <2>1, <2>2 DEF SensorInv, Together
<1>9. FirstKept'
  BY <1>2 DEF FirstKept
<1> QED
  BY <1>1, <1>3, <1>5, <1>6, <1>7, <1>8, <1>9 DEF SensorInv

\* A package that leaves the set incomplete is marked and kept.
LEMMA KeepInv == ASSUME SensorInv, Package, ~(sent' > sent) PROVE SensorInv'
<1> USE SensorAssumption
<1>1. TypeOK /\ dropped \in BOOLEAN /\ inOrder \in BOOLEAN /\ Waiting'
  BY WaitingKept DEF SensorInv
<1>2. /\ pos \in Passages /\ pos # 0 /\ input[pos] # 0 /\ count = InitTimes /\ NextPassage
      /\ UNCHANGED <<device, count, reading, delivered, input, dropped, inOrder>>
      /\ \A i \in Passages : Used(i)' <=> Used(i)
      /\ data' \in [device.needs -> 0..MaxReadings]
      /\ \A q \in device.needs :
           /\ data'[q] = IF q = device.passage[pos] THEN input[pos] ELSE data[q]
           /\ data'[q] >= data[q]
      /\ \A i \in Passages : Used(i) /\ i # pos => device.passage[i] # device.passage[pos]
      /\ again' \subseteq device.needs
      /\ \A q \in device.needs :
           q \in again' <=> IF q = device.passage[pos] THEN dropped ELSE q \in again
  BY PackageFacts
<1>3. /\ Passages' = Passages /\ pos' \in 0..Len(device.passage)
      /\ pos' # 0 => pos' = pos + 1
      /\ Handled' = Handled \cup ({device.passage[pos]} \cap device.needs)
      /\ pos' = 0 => Handled' = device.needs
      /\ Used(pos) => device.passage[pos] \notin Handled
      /\ Handled \subseteq device.needs
  BY <1>1, <1>2, Advance
<1>4. /\ Passages = 1..Len(device.passage) /\ Len(device.passage) \in Nat
      /\ \A p \in device.needs : \E i \in Passages : device.passage[i] = p
      /\ \A i \in Passages : Used(i) <=> device.passage[i] \in device.needs
      /\ 1 \in device.abandons => device.passage[1] = 1
      /\ device.abandons \subseteq device.needs
  BY <1>1, OfDevice DEF Used
<1>5. /\ readyMsg' = readyMsg \cup ({device.passage[pos]} \cap device.needs)
      /\ readyMsg' # device.needs
      /\ msg' = msg /\ sent' = sent
  BY <1>1 DEF Package, TypeOK
<1>6. TypeOK'
  BY <1>1, <1>2, <1>3, <1>5 DEF TypeOK
<1>7. Stored'
  <2>1. ASSUME NEW i \in Passages, Used(i) PROVE data'[device.passage[i]] <= delivered[i]
    <3>1. device.passage[i] \in device.needs /\ data[device.passage[i]] <= delivered[i]
      BY <2>1 DEF SensorInv, Stored, Used
    <3>2. CASE i = pos
      <4>1. input[i] = delivered[i] /\ data'[device.passage[i]] = input[i] /\ delivered[i] \in Nat
        BY <1>1, <1>2, <2>1, <3>1, <3>2 DEF SensorInv, Waiting, TypeOK
      <4> QED
        BY <4>1
    <3>3. CASE i # pos
      BY <1>2, <2>1, <3>1, <3>3
    <3> QED
      BY <3>2, <3>3
  <2>2. ASSUME NEW p \in device.needs
        PROVE  msg[p] <= data'[p] /\ (p \in readyMsg' => data'[p] > msg[p] \/ p \in again')
    <3>1. /\ data'[p] \in Nat /\ data[p] \in Nat /\ msg[p] \in Nat
          /\ msg[p] <= data[p] /\ data'[p] >= data[p]
      BY <1>1, <1>2 DEF TypeOK, SensorInv, Stored
    <3>2. CASE p = device.passage[pos]
      <4>1. ~dropped => data'[p] > data[p]
        BY <1>2, <1>4, <3>1, <3>2 DEF SensorInv, Waiting
      <4> QED
        BY <1>2, <3>1, <3>2, <4>1
    <3>3. CASE p # device.passage[pos]
      BY <1>2, <1>5, <3>1, <3>3 DEF SensorInv, Stored
    <3> QED
      BY <3>2, <3>3
  <2>3. readyMsg' \subseteq device.needs
    BY <1>1, <1>5 DEF TypeOK
  <2> QED
    BY <1>2, <1>3, <1>5, <2>1, <2>2, <2>3 DEF Stored
<1>8. Progress'
  <2>1. ASSUME sent = 1 PROVE \E p \in Handled' : p \notin readyMsg'
    <3>1. PICK p \in Handled : p \notin readyMsg
      BY <2>1 DEF SensorInv, Progress
    <3>2. p # device.passage[pos]
      BY <1>2, <1>3, <1>4, <3>1
    <3> QED
      BY <1>3, <1>5, <3>1, <3>2
  <2>2. sent = 0 /\ (\A i \in Passages : Used(i) => input[i] # 0)
          => pos' # 0 /\ Handled' \subseteq readyMsg'
    BY <1>1, <1>2, <1>3, <1>5 DEF SensorInv, Progress, TypeOK
  <2> QED
    BY <1>2, <1>3, <1>5, <2>1, <2>2 DEF Progress
<1>9. Together'
  <2>1. InOrder(input)' <=> InOrder(input)
    BY <1>2, <1>3 DEF InOrder
  <2>2. \A i \in Passages : Last(i)' <=> Last(i)
    BY <1>2, <1>3 DEF Last
  <2>3. ASSUME inOrder, NEW i \in Passages, Last(i)
        PROVE  device.passage[i] \notin readyMsg' /\ (pos' # 0 /\ pos' <= i => sent' = 0)
    <3>1. /\ device.passage[i] \notin readyMsg /\ (pos <= i => sent = 0) /\ InOrder(input)
          /\ Used(i) /\ \A j \in Passages : Used(j) => j <= i
      BY <1>2, <2>3 DEF SensorInv, Together, Last
    <3>2. pos' # 0 /\ pos' <= i => sent' = 0
      BY <1>3, <1>4, <1>2, <1>5, <3>1
    <3>3. ASSUME i = pos PROVE FALSE
      <4>1. ASSUME NEW j \in Passages, Used(j) PROVE input[j] # 0
        <5>1. CASE j = pos
          BY <1>2, <5>1
        <5>2. CASE j # pos
          <6>1. j < i
            BY <1>4, <3>1, <3>3, <4>1, <5>2
          <6> QED
            BY <1>2, <3>1, <3>3, <4>1, <6>1 DEF InOrder
        <5> QED
          BY <5>1, <5>2
      <4>2. sent = 0
        BY <1>4, <3>1, <3>3
      <4>3. Handled \subseteq readyMsg
        BY <1>2, <4>1, <4>2 DEF SensorInv, Progress
      <4>4. ASSUME NEW p \in device.needs PROVE p \in readyMsg'
        <5>1. PICK j \in Passages : device.passage[j] = p
          BY <1>4
        <5>2. Used(j) /\ j <= pos
          BY <1>4, <3>1, <3>3, <5>1
        <5>3. CASE j = pos
          BY <1>5, <5>1, <5>3
        <5>4. CASE j # pos
          <6>1. j < pos
            BY <1>2, <1>4, <5>2, <5>4
          <6>2. p \in Handled
            BY <5>1, <6>1 DEF Handled
          <6> QED
            BY <1>5, <4>3, <6>2
        <5> QED
          BY <5>3, <5>4
      <4> QED
        BY <1>6, <1>2, <1>5, <4>4 DEF TypeOK
    <3>4. device.passage[i] # device.passage[pos]
      BY <1>2, <3>1, <3>3
    <3> QED
      BY <1>5, <3>1, <3>2, <3>4
  <2> QED
    BY <1>2, <1>3, <1>5, <2>1, <2>2, <2>3 DEF SensorInv, Together
<1>10. FirstKept'
  <2> SUFFICES ASSUME 1 \in device.abandons, 1 \in readyMsg'
               PROVE  pos' > 1 /\ input[1] # 0 /\ Handled' \subseteq readyMsg'
    BY <1>2 DEF FirstKept
  <2>1. CASE 1 \in readyMsg
    <3>1. pos > 1 /\ input[1] # 0 /\ Handled \subseteq readyMsg
      BY <2>1 DEF SensorInv, FirstKept
    <3>2. Handled' \subseteq readyMsg'
      BY <1>3, <1>5, <3>1
    <3>3. pos' # 0
      BY <1>2, <1>3, <1>5, <1>6, <3>2 DEF TypeOK
    <3> QED
      BY <1>2, <1>3, <1>4, <3>1, <3>2, <3>3
  <2>2. CASE 1 \notin readyMsg
    <3>1. device.passage[pos] = 1 /\ device.passage[1] = 1 /\ 1 \in device.needs
      BY <1>4, <1>5, <2>2
    <3>2. 1 \in Passages
      BY <1>2, <1>4
    <3>3. pos = 1
      BY <1>2, <1>4, <3>1, <3>2
    <3>4. Handled = {}
      BY <1>4, <3>3 DEF Handled
    <3>5. Handled' \subseteq readyMsg'
      BY <1>3, <1>5, <3>4
    <3>6. pos' # 0
      BY <1>2, <1>3, <1>5, <1>6, <3>5 DEF TypeOK
    <3> QED
      BY <1>2, <1>3, <3>3, <3>5, <3>6
  <2> QED
    BY <2>1, <2>2
<1> QED
  BY <1>1, <1>2, <1>6, <1>7, <1>8, <1>9, <1>10 DEF SensorInv

\* Every step preserves the invariant.
LEMMA NextInv == ASSUME SensorInv, [Next]_vars PROVE SensorInv'
<1>1. CASE Exchange
  BY <1>1, ExchangeInv
<1>2. CASE Missing
  BY <1>2, MissingInv
<1>3. CASE Early
  BY <1>3, EarlyInv
<1>4. CASE Package
  BY <1>4, PublishInv, KeepInv
<1>5. CASE UNCHANGED vars
  BY <1>5 DEF vars, SensorInv, TypeOK, Passages, Stored, Used, Waiting, Progress, Handled,
     Together, InOrder, Last, FirstKept
<1> QED
  BY <1>1, <1>2, <1>3, <1>4, <1>5 DEF Next, OnResponse

\* SensorInv holds for every installed device, any warm-up and any readings.
THEOREM SensorInvariant == Spec => []SensorInv
<1>1. SensorInv /\ [Next]_vars => SensorInv'
  BY NextInv
<1> QED
  BY InitInv, <1>1, PTL DEF Spec

\* A whole cycle publishes exactly one message, whatever was lost before.
THEOREM WholeCyclePublishes == Spec => []OneMessagePerWholeCycle
<1>1. ASSUME SensorInv PROVE OneMessagePerWholeCycle
  <2>1. TypeOK /\ Progress
    BY <1>1 DEF SensorInv
  <2> QED
    BY <2>1 DEF OneMessagePerWholeCycle, TypeOK, Progress, Used
<1> QED
  BY SensorInvariant, <1>1, PTL

\* While only the last packages of readings are lost a message is one reading.
THEOREM InOrderMessages == Spec => []OneReadingPerMessage
<1>1. SensorInv => OneReadingPerMessage
  BY DEF SensorInv, Together, OneReadingPerMessage
<1> QED
  BY SensorInvariant, <1>1, PTL

\* Only a package publishes.
LEMMA OnlyPackageSends == ASSUME SensorInv, [Next]_vars, sent' > sent PROVE Package
<1>1. sent \in 0..1
  BY DEF SensorInv, TypeOK
<1> QED
  BY <1>1 DEF Next, OnResponse, Exchange, Missing, Early, vars

\* Messages never go back, and use a package twice only if it was given twice.
THEOREM MessagesOnlyAdvance == Spec => MessagesAdvance
<1>1. ASSUME SensorInv, [Next]_vars, sent' > sent, NEW p \in device.needs
      PROVE  msg'[p] > msg[p] \/ (msg'[p] = msg[p] /\ p \in again')
  BY <1>1, OnlyPackageSends, PublishFacts
<1>2. SensorInv /\ [Next]_vars
        => [sent' > sent => \A p \in device.needs :
              msg'[p] > msg[p] \/ (msg'[p] = msg[p] /\ p \in again')]_vars
  BY <1>1
<1> QED
  BY SensorInvariant, <1>2, PTL DEF Spec, MessagesAdvance

\* A device that takes back the mark of a first package when another is missing
\* publishes no first package but that of the current cycle.
THEOREM FirstPackageIsCurrent == Spec => FirstIsCurrent
<1>1. ASSUME SensorInv, [Next]_vars, sent' > sent, 1 \in device.abandons
      PROVE  input[1] # 0 /\ msg'[1] = input[1]
  <2>1. TypeOK /\ Package
    BY <1>1, OnlyPackageSends DEF SensorInv
  <2>2. 1 \in device.needs /\ device.passage[1] = 1
    BY <1>1, <2>1, OfDevice
  <2>3. msg' = data' /\ (1 = device.passage[pos] \/ 1 \in readyMsg)
    BY <1>1, <2>1, <2>2, PublishFacts
  <2>4. /\ pos \in Passages /\ input[pos] # 0 /\ count = InitTimes /\ pos # 0
        /\ data'[1] = IF 1 = device.passage[pos] THEN input[pos] ELSE data[1]
        /\ \A i \in Passages : Used(i) /\ i # pos => device.passage[i] # device.passage[pos]
    BY <1>1, <2>1, <2>2, PackageFacts
  <2>5. 1 \in Passages /\ Used(1)
    BY <2>1, <2>2, OfDevice DEF Used
  <2>6. CASE 1 = device.passage[pos]
    BY <2>2, <2>3, <2>4, <2>5, <2>6
  <2>7. CASE 1 # device.passage[pos]
    <3>1. pos > 1 /\ input[1] # 0
      BY <1>1, <2>3, <2>7 DEF SensorInv, FirstKept
    <3>2. data[1] = input[1]
      BY <1>1, <2>2, <2>4, <2>5, <3>1 DEF SensorInv, Waiting
    <3> QED
      BY <2>3, <2>4, <2>7, <3>1, <3>2
  <2> QED
    BY <2>6, <2>7
<1>2. SensorInv /\ [Next]_vars
        => [sent' > sent /\ 1 \in device.abandons => input[1] # 0 /\ msg'[1] = input[1]]_vars
  BY <1>1
<1> QED
  BY SensorInvariant, <1>2, PTL DEF Spec, FirstIsCurrent
=============================================================================
