--------------------------- MODULE CanOpenMotorProps ---------------------------
(***************************************************************************)
(* What the start-up threads of the CANopen motors achieve.                *)
(***************************************************************************)
EXTENDS CanOpenMotor

Instructions == {"clear", "shutdown", "setReady", "setEnable", "getState", "setMode",
    "getMode", "setPos", "getPos", "getMaxSpeed", "zeroTorque", "setTorque", "getRated",
    "getVel", "getCur", "nothing"}
Frames == [ins : Instructions, data : Int]

\* The stages in which the worker has not seen the drive in its mode yet.
Early == {"none", "disable", "mode"}

\* Types of the variables.
CanTypes ==
    /\ kind \in Kinds
    /\ stage \in Early \cup {"enable", "cycle"}
    /\ step \in 1..(IF InLoop THEN Len(Loops[stage]) ELSE 1)
    /\ ready \in BOOLEAN
    /\ notActive \in BOOLEAN /\ opened \in BOOLEAN /\ lost \in BOOLEAN /\ late \in BOOLEAN
    /\ reqQueue \in Seq(Frames) /\ Len(reqQueue) <= QueueMax
    /\ answers \in Seq(Frames) /\ input \in Frames
    /\ info \in [DriverEnable : {0, 1, 3, 4}, DriverMode : Int, ReceivePos : Int,
                 RatedCurrent : Int]
    /\ statusReady \subseteq StatusParts
    /\ targetPos \in Int /\ maxStep \in Steps \cup {-1} /\ noticed \in Int
    /\ noticed # 0 => stage = "cycle" /\ Position
    /\ drive \in [power : {"disabled", "ready", "switched", "on", "fault"},
                  mode : {0, kind.mode}, set : Int, real : Int]

\* Commands are accepted only in the cycle.
CommandsInCycle ==
    /\ ready => stage = "cycle"
    /\ maxStep >= 0 => ready

\* Requests that may wait: no mode but the wanted one is set, nothing switches the drive
\* on before its mode is known, and velocities are asked for in the cycle.
Allowed(f) ==
    /\ f.ins = "setMode" => f.data = kind.mode
    /\ f.ins = "setEnable" => stage \notin Early
    /\ f.ins = "getVel" => stage = "cycle"

\* Answers that may be on their way: the mode wanted is told only by a drive that is in
\* it, and a drive that said it was off was not switched on again behind the worker.
Credible(f) ==
    /\ f.ins = "getMode" /\ f.data = kind.mode => drive.mode = kind.mode
    /\ f.ins = "getState" /\ f.data = kind.off /\ stage \in Early => drive.power # "on"
    /\ f.ins = "getVel" => stage = "cycle"

\* What the worker was told holds of the drive.
Told ==
    /\ \A i \in 1..Len(reqQueue) : Allowed(reqQueue[i])
    /\ \A i \in 1..Len(answers) : Credible(answers[i])
    /\ Credible(input)
    /\ "getVel" \in statusReady => stage = "cycle"
    /\ info.DriverMode = kind.mode => drive.mode = kind.mode
    /\ info.DriverEnable = 0 /\ stage \in Early => drive.power # "on"

\* The drive tells the wanted mode for ever once it has told it.
ModeStays ==
    /\ \A i, j \in 1..Len(answers) :
          i < j /\ answers[i].ins = "getMode" /\ answers[j].ins = "getMode"
                /\ answers[i].data = kind.mode => answers[j].data = kind.mode
    /\ info.DriverMode = kind.mode =>
          \A i \in 1..Len(answers) : answers[i].ins = "getMode" => answers[i].data = kind.mode
    /\ input.ins = "getMode" => info.DriverMode = input.data

\* The worker is past a loop only if the drive confirmed what the loop is for.
Confirmed ==
    /\ stage = "mode" => drive.power # "on"
    /\ stage \in {"enable", "cycle"} => info.DriverMode = kind.mode /\ drive.mode = kind.mode

\* In time: no exchange failed and the worker has waited for every answer.
InTime == ~lost /\ ~late

\* Of the start's requests one at a time is waiting or being answered.
OneAtATime ==
    /\ reqQueue = <<>> \/ (Len(reqQueue) = 1 /\ answers = <<>>)
    /\ Len(answers) <= 1

\* Whether an answer can come.
Heard ==
    /\ answers # <<>> => opened
    /\ input.ins # "nothing" => opened
    /\ info.DriverEnable = 0 => opened
    /\ stage \in {"mode", "enable", "cycle"} => opened

\* The mode has been asked for, and perhaps told.
Asked ==
    \/ \E i \in 1..Len(reqQueue) : reqQueue[i].ins = "getMode"
    \/ \E i \in 1..Len(answers) : answers[i].ins = "getMode"
    \/ info.DriverMode = kind.mode

\* The request for the position has been, or is about to be, answered truly.
PositionComing ==
    \/ reqQueue = <<Request("getPos")>>
    \/ reqQueue = <<>> /\ answers = <<[ins |-> "getPos", data |-> drive.real]>>
    \/ reqQueue = <<>> /\ answers = <<>> /\ info.ReceivePos = drive.real

\* The initial set point, request by request: the position is asked for, received, set,
\* and only then the mode is asked for, which ends the loop.
InPlace ==
    InTime /\ Position =>
    /\ stage # "cycle" => OneAtATime
    /\ stage \in {"none", "disable"} => ~Asked
    /\ stage \in {"mode", "enable"} =>
          \A i \in 1..Len(reqQueue) : reqQueue[i].ins = "setPos" => reqQueue[i].data = drive.real
    /\ stage = "mode" =>
          /\ Asked => drive.set = drive.real
          /\ step = 3 => PositionComing
          /\ step \in {4, 5} => reqQueue = <<SetPosition(drive.real)>> \/ drive.set = drive.real
    /\ stage = "enable" => drive.set = drive.real

\* The inductive invariant: types, and what the worker knows where it stands.
CanInv ==
    /\ CanTypes
    /\ CommandsInCycle
    /\ Told
    /\ ModeStays
    /\ Confirmed
    /\ Heard
    /\ InPlace

\* Once the worker has seen the drive off, it is never switched on in a mode other than
\* the one wanted, however many requests and answers are lost or late: a drive left on by
\* an earlier run cannot follow set points meant for another mode.
EnabledInMode ==
    stage \in {"mode", "enable", "cycle"} /\ drive.power = "on" => drive.mode = kind.mode

\* A motor in position mode is switched on with the position it stands at as its set
\* point, so it does not jump: if no exchange failed and the worker never woke up before
\* its answer had come.
SwitchedOnInPlace ==
    stage = "enable" /\ Position /\ ~lost /\ ~late => drive.set = drive.real

\* The torques sent before the rated current has come are divided by zero; if no exchange
\* fails, that ends.
TorqueDefined ==
    <>[](quiet /\ opened /\ ~lost /\ drive.power = "on" /\ ~Position)
      => <>[](\A i \in 1..Len(reqQueue) : reqQueue[i].ins = "setTorque" => reqQueue[i].data # 0)

\* A drive that answers is started in the end, whatever was lost before, unless it fails
\* (nothing clears a fault after the first loop) or the process is gone; and in torque mode
\* it is sent torques that mean something.
StartsUp ==
    /\ <>[](quiet /\ opened) => <>[](ready \/ drive.power = "fault" \/ crashed)
    /\ TorqueDefined

\* The distance the worker has noticed is the one it would see now: no other position was
\* received, and no command given, between its two reads.
Whole == noticed # 0 => noticed = Distance

\* A ZeroErr motor that is on goes where it was sent, up to the tolerance, unless positions
\* keep arriving between the two reads: each such set point may lead past the target by a
\* step.
GetsThere ==
    <>[](quiet /\ maxStep > 0 /\ drive.power = "on" /\ ~kind.eyou /\ Whole)
      => <>[](Abs(drive.real - targetPos) <= Tolerance)
=============================================================================
