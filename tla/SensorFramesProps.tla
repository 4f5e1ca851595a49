-------------------------- MODULE SensorFramesProps --------------------------
(***************************************************************************)
(* What the subscribers of ~/imu, ~/imu_hr and ~/sri may rely on, and the  *)
(* inductive invariant behind it.                                          *)
(***************************************************************************)
EXTENDS SensorFrames

\* A cycle that brought every package of the device after the warm-up has
\* published exactly one message, whatever packages earlier cycles lost.
OneMessagePerWholeCycle ==
    /\ sent <= 1
    /\ pos = 0 /\ count = InitTimes
         /\ (\A i \in Passages : Used(i) => input[i] # 0)
       => sent = 1

\* Messages never go back: no package in a message is of an older reading than
\* in the message before, and none is used twice unless a lost frame made the
\* EtherCAT thread hand it to the device twice.
MessagesAdvance ==
    [][sent' > sent =>
         \A p \in device.needs : msg'[p] > msg[p] \/ (msg'[p] = msg[p] /\ p \in again')]_vars

\* As long as no package comes without all those before it, that is only the
\* last ones of a reading are lost, each message is one reading.
OneReadingPerMessage == inOrder => \A p, q \in device.needs : msg[p] = msg[q]

\* What taking back the first package's mark achieves: a message of a device that
\* does so has the first package of the very cycle in which it leaves.
FirstIsCurrent ==
    [][sent' > sent /\ 1 \in device.abandons => input[1] # 0 /\ msg'[1] = input[1]]_vars

-----------------------------------------------------------------------------
(* The inductive invariant *)

\* Type invariant.
TypeOK ==
    /\ device \in Installed
    /\ count \in 0..InitTimes
    /\ pos \in 0..Len(device.passage)
    /\ reading \in 0..MaxReadings
    /\ delivered \in [Passages -> 0..MaxReadings]
    /\ input \in [Passages -> 0..MaxReadings]
    /\ readyMsg \subseteq device.needs
    /\ data \in [device.needs -> 0..MaxReadings]
    /\ again \subseteq device.needs
    /\ msg \in [device.needs -> 0..MaxReadings]
    /\ sent \in 0..1

\* Packages OnResponse was called for in this cycle.
Handled == {p \in device.needs : \E i \in Passages : device.passage[i] = p /\ (pos = 0 \/ i < pos)}

\* Every package is stored no later than delivered and published no later than
\* stored; a mark means a package that is new since the last message or repeated.
Stored ==
    /\ \A i \in Passages : Used(i) => data[device.passage[i]] <= delivered[i]
    /\ \A p \in device.needs : msg[p] <= data[p]
    /\ \A p \in readyMsg : data[p] > msg[p] \/ p \in again
    /\ readyMsg # {} => count = InitTimes

\* The package in a passage is the last one delivered; before it is handled it is
\* new unless the exchange was lost, and then it is the one stored.
Waiting ==
    \A i \in Passages : Used(i) /\ input[i] # 0 =>
        /\ input[i] = delivered[i]
        /\ pos # 0 /\ i >= pos /\ ~dropped => data[device.passage[i]] < input[i]
        /\ pos # 0 /\ i < pos /\ count = InitTimes => data[device.passage[i]] = input[i]

\* When a message has left in this cycle, one of the packages handled before is
\* not marked and cannot be again; when none has, no package is lost.
Progress ==
    /\ readyMsg # device.needs
    /\ sent = 1 => \E p \in Handled : p \notin readyMsg
    /\ sent = 0 /\ count = InitTimes /\ (\A i \in Passages : Used(i) => input[i] # 0)
       => pos # 0 /\ Handled \subseteq readyMsg

\* Passage i is the one of the last package.
Last(i) == Used(i) /\ \A j \in Passages : Used(j) => j <= i

\* While packages come in order the last one is never kept, it completes a message.
Together ==
    inOrder =>
        /\ InOrder(input)
        /\ \A p, q \in device.needs : msg[p] = msg[q]
        /\ \A i \in Passages : Last(i) =>
             /\ device.passage[i] \notin readyMsg
             /\ pos # 0 /\ pos <= i => sent = 0

\* A first package whose mark is taken back by a miss is kept only inside its own
\* cycle, while nothing was missing.
FirstKept ==
    1 \in device.abandons /\ 1 \in readyMsg =>
        pos > 1 /\ input[1] # 0 /\ Handled \subseteq readyMsg

SensorInv ==
    /\ dropped \in BOOLEAN
    /\ inOrder \in BOOLEAN
    /\ TypeOK
    /\ Stored
    /\ Waiting
    /\ Progress
    /\ Together
    /\ FirstKept
=============================================================================
