----------------------------- MODULE CanOpenMotor -----------------------------
(***************************************************************************)
(* A CANopen motor: ZeroErrMotorDevice or EyouMotorDevice.  The first      *)
(* OnRequest starts a thread (the worker) that switches the drive off,     *)
(* sets its mode, switches it on and then sends set points for ever.  The  *)
(* worker only pushes requests; the bus thread sends one a cycle, and what *)
(* it is answered GetInfo() stores in fields the worker polls.  The worker *)
(* gives each request of the start 100 ms, a hundred cycles, to be         *)
(* answered, and repeats a whole round of requests until the field it      *)
(* waits for has its value; nothing tells it that an answer is missing.    *)
(*                                                                         *)
(* Positions are small integers, a speed is the distance it allows in one  *)
(* period.  A cycle of the bus is one action: the worker shares only the   *)
(* queue and the fields with it.  In a period in which the motor is far    *)
(* from its target the worker reads the received position twice, without a *)
(* lock: for the distance, and for the point to start from; cycles of the  *)
(* bus and commands may come between.  The target is read together with    *)
(* the first, and the two reads of the initial position are taken as one.  *)
(* The drive is external: the part of CiA 402 the requests rely on.        *)
(***************************************************************************)
EXTENDS Integers, Sequences

CONSTANTS
    Kinds,          \* the kinds of motor the configuration may name
    Positions,      \* positions, in encoder counts; 0 among them
    Steps,          \* distances a commanded speed allows in a period; 0: less than a count
    Tolerance,      \* distance that needs no set point: 5, or baseTolerance
    Reach,          \* bound on the set points
    QueueMax        \* bound on the requests waiting

(* A kind: the requests of one round of the mode loop, the mode wanted, the low byte of *)
(* the status word it takes for "off", whether the flag that opens the answer passage   *)
(* is shared by all motors, and whether it divides by the distance and boosts the step. *)
ZeroErrPosition == [mode |-> 8, off |-> 33, shared |-> TRUE, eyou |-> FALSE,
    modeLoop |-> <<"setMode", "getPos", "initPos", "getMode">>]
ZeroErrTorque == [mode |-> 10, off |-> 33, shared |-> TRUE, eyou |-> FALSE,
    modeLoop |-> <<"setMode", "zeroTorque", "getMode">>]
EyouPosition == [mode |-> 8, off |-> 49, shared |-> FALSE, eyou |-> TRUE,
    modeLoop |-> <<"setMode", "getPos", "initPos", "getMaxSpeed", "getMode">>]

ASSUME MotorAssumption ==
    /\ Kinds \subseteq {ZeroErrPosition, ZeroErrTorque, EyouPosition}
    /\ Positions \subseteq Int /\ 0 \in Positions
    /\ Steps \subseteq Nat
    /\ Tolerance \in Nat /\ Reach \in Nat
    /\ QueueMax \in Nat /\ QueueMax >= 4

VARIABLES
    kind,               \* the kind of this motor; never changes
    stage,              \* the worker: "none", "disable", "mode", "enable", "cycle"
    step,               \* the request of the round it pushes next
    crashed,            \* the process has ended in a division by zero
    notActive,          \* passageRespNotActive, or the static send
    reqQueue, ready,
    info,               \* DriverEnable, DriverMode, ReceivePos, RatedCurrent
    statusReady,        \* parts of a status there are
    targetPos, maxStep, \* the commanded position and speed; maxStep = -1: none
    noticed,            \* between its two reads of the position the worker has seen
                        \* this distance; 0 otherwise
    opened,             \* the gateway passes on what the drive answers
    drive,              \* its power, mode, set point and real position
    answers, input,     \* answers on their way; the gateway's input frame
    quiet,              \* from now on nothing fails and nobody commands
    lost, late          \* history: an exchange failed; the worker went on before
                        \* its last request was answered

worker == <<stage, step, crashed>>
fields == <<ready, info, statusReady>>
command == <<targetPos, maxStep, noticed>>
outside == <<opened, drive, answers, input>>
vars == <<kind, worker, notActive, reqQueue, fields, command, outside, quiet, lost, late>>

Nothing == [ins |-> "nothing", data |-> 0]
Position == kind.mode = 8
Sign(d) == IF d < 0 THEN -1 ELSE IF d = 0 THEN 0 ELSE 1
Abs(d) == IF d < 0 THEN -d ELSE d
Least(a, b) == IF a < b THEN a ELSE b

\* The fields of the class; the drive may have been left in any state.
Init ==
    /\ kind \in Kinds
    /\ stage = "none" /\ step = 1 /\ crashed = FALSE
    /\ notActive \in (IF kind.shared THEN BOOLEAN ELSE {TRUE})
    /\ reqQueue = <<>> /\ ready = FALSE
    /\ info = [DriverEnable |-> 3, DriverMode |-> 0, ReceivePos |-> 0, RatedCurrent |-> 0]
    /\ statusReady = {}
    /\ targetPos = 0 /\ maxStep = -1 /\ noticed = 0
    /\ opened \in BOOLEAN
    /\ \E p \in Positions, m \in {0, kind.mode}, s \in {"disabled", "on", "fault"} :
          drive = [power |-> s, mode |-> m, set |-> p, real |-> p]
    /\ answers = <<>> /\ input = Nothing
    /\ quiet = FALSE /\ lost = FALSE /\ late = FALSE

-----------------------------------------------------------------------------
(* The worker, Run() *)

PendRequest(frames) ==
    /\ Len(reqQueue) + Len(frames) <= QueueMax
    /\ reqQueue' = reqQueue \o frames

Request(i) == [ins |-> i, data |-> 0]
SetMode == [ins |-> "setMode", data |-> kind.mode]
SetPosition(p) == [ins |-> "setPos", data |-> p]

DisableLoop == <<"clear", "shutdown", "getState">>
EnableLoop == <<"shutdown", "setReady", "setEnable", "getState">>
Loops == [disable |-> DisableLoop, mode |-> kind.modeLoop, enable |-> EnableLoop]
Following == [disable |-> "mode", mode |-> "enable", enable |-> "cycle"]

\* Mistake: any status ends the loop that switches the drive off.
LoopDoneOnAnyStatus ==
    CASE stage = "disable" -> info.DriverEnable # 3
      [] stage = "mode" -> info.DriverMode = kind.mode
      [] stage = "enable" -> info.DriverEnable = 1

\* Mistake: the mode loop runs once, whatever the drive says.
LoopDoneOnce ==
    CASE stage = "disable" -> info.DriverEnable = 0
      [] stage = "mode" -> targetPos = info.ReceivePos
      [] stage = "enable" -> info.DriverEnable = 1

\* The conditions of the three while loops.
LoopDone ==
    CASE stage = "disable" -> info.DriverEnable = 0
      [] stage = "mode" -> info.DriverMode = kind.mode
      [] stage = "enable" -> info.DriverEnable = 1

InLoop == stage \in DOMAIN Loops

\* The worker woke up, perhaps before the request it slept for was answered.
WokeUp == late' = (late \/ reqQueue # <<>> \/ answers # <<>>)

\* Mistake: the initial position does not come from the drive.
LoopRequestZero(i) == IF i = "initPos" THEN SetPosition(0)
                      ELSE IF i = "setMode" THEN SetMode ELSE Request(i)

\* The initial position is the one received so far.
LoopRequest(i) == IF i = "initPos" THEN SetPosition(info.ReceivePos)
                  ELSE IF i = "setMode" THEN SetMode ELSE Request(i)

\* The body of one of the loops: DisableMotor, SetMotorMode, EnableMotor.
LoopStep ==
    /\ InLoop
    /\ step > 1 \/ ~LoopDone
    /\ LET i == Loops[stage][step] IN
         /\ PendRequest(<<LoopRequest(i)>>)
         /\ targetPos' = IF i = "initPos" THEN info.ReceivePos ELSE targetPos
    /\ step' = IF step = Len(Loops[stage]) THEN 1 ELSE step + 1
    /\ WokeUp
    /\ UNCHANGED <<kind, stage, crashed, notActive, fields, maxStep, noticed, outside, quiet,
                   lost>>

\* Mistake: the rated current is not asked for.
AfterLoopsUnrated == <<>>

\* What the worker asks for between the last loop and the cycle.
AfterLoops == IF Position THEN <<>> ELSE <<Request("getRated")>>

\* A loop is done; after the last one a motor in position mode is ready.
LoopEnds ==
    /\ InLoop /\ step = 1 /\ LoopDone
    /\ stage' = Following[stage]
    /\ IF stage' = "cycle"
       THEN PendRequest(AfterLoops) /\ ready' = (ready \/ Position)
       ELSE UNCHANGED <<reqQueue, ready>>
    /\ WokeUp
    /\ UNCHANGED <<kind, step, crashed, notActive, info, statusReady, command, outside,
                   quiet, lost>>

Distance == targetPos - info.ReceivePos

StepAllowed == IF maxStep < 0 THEN 0 ELSE maxStep

\* Mistake: the step is lost in the conversion.
SetPointsHeld == {info.ReceivePos}

\* The set points sent for the distance noticed, from the position received by now: one
\* step nearer; a speed below a count a period moves nothing.  The Eyou motor multiplies
\* its step by up to 36.
SetPoints ==
    IF kind.eyou /\ maxStep > 0
    THEN {p \in Positions : Sign(p - info.ReceivePos) \in {0, Sign(noticed)}}
    ELSE {info.ReceivePos + Sign(noticed) * Least(Abs(noticed), StepAllowed)}

\* One period in position mode begins with a look at the distance.  ZeroErr sends no set
\* point before the first command.
Look ==
    /\ stage = "cycle" /\ Position /\ noticed = 0
    /\ IF Abs(Distance) > Tolerance /\ (kind.eyou \/ maxStep >= 0)
       THEN noticed' = Distance /\ UNCHANGED reqQueue
       ELSE PendRequest(<<Request("getPos")>>) /\ UNCHANGED noticed
    /\ UNCHANGED <<kind, worker, notActive, fields, targetPos, maxStep, outside, quiet, lost,
                   late>>

\* Far from the target a set point follows.
Move ==
    /\ noticed # 0
    /\ \E p \in SetPoints :
          Abs(p) <= Reach /\ PendRequest(<<SetPosition(p), Request("getPos")>>)
    /\ noticed' = 0
    /\ UNCHANGED <<kind, worker, notActive, fields, targetPos, maxStep, outside, quiet, lost,
                   late>>

PositionCycle == Look \/ Move

\* dis / abs(dis) on the target: the division traps, where the hardware does that.
Divide ==
    /\ stage = "cycle" /\ Position /\ kind.eyou /\ noticed = 0 /\ Distance = 0
    /\ crashed' = TRUE
    /\ UNCHANGED <<kind, stage, step, notActive, reqQueue, fields, command, outside, quiet,
                   lost, late>>

\* One period in torque mode; a torque with data 0 was divided by a rated current of 0.
TorqueCycle ==
    /\ stage = "cycle" /\ ~Position
    /\ PendRequest(<<[ins |-> "setTorque", data |-> info.RatedCurrent],
                     Request("getVel"), Request("getPos"), Request("getCur")>>)
    /\ UNCHANGED <<kind, worker, notActive, fields, command, outside, quiet, lost, late>>

Worker == LoopStep \/ LoopEnds \/ PositionCycle \/ TorqueCycle

-----------------------------------------------------------------------------
(* The drive *)

Powered(power, ins) ==
    CASE ins = "clear" -> "disabled"
      [] power # "fault" /\ ins = "shutdown" -> "ready"
      [] power = "ready" /\ ins = "setReady" -> "switched"
      [] power = "switched" /\ ins = "setEnable" -> "on"
      [] OTHER -> power

\* It takes a request, and when on in position mode goes to its set point.
Serve(d, f) ==
    LET p == Powered(d.power, f.ins)
        m == IF f.ins = "setMode" THEN f.data ELSE d.mode
        s == IF f.ins = "setPos" THEN f.data ELSE d.set
    IN  [power |-> p, mode |-> m, set |-> s,
         real |-> IF p = "on" /\ m = 8 THEN s ELSE d.real]

\* The low byte of its status word.
StatusWord(power) ==
    CASE power = "on" -> 55 [] power = "ready" -> kind.off
      [] power = "switched" -> kind.off + 2 [] power = "fault" -> 8 [] OTHER -> 64

\* The value it answers a read request with; writes are confirmed, which is ignored.
Value(d, ins) ==
    CASE ins = "getState" -> StatusWord(d.power) [] ins = "getMode" -> d.mode
      [] ins = "getPos" -> d.real [] ins = "getRated" -> 1 [] OTHER -> 0

Answer(d, f) ==
    IF f.ins \in {"getState", "getMode", "getPos", "getRated", "getVel", "getCur"}
    THEN <<[ins |-> f.ins, data |-> Value(d, f.ins)]>>
    ELSE <<>>

-----------------------------------------------------------------------------
(* A cycle of the bus thread *)

\* OnRequest for both passages: the worker is started, a request is taken, the
\* passage for the answers is opened once.
OnRequest ==
    /\ stage' = IF stage = "none" THEN "disable" ELSE stage
    /\ reqQueue' = IF reqQueue = <<>> THEN <<>> ELSE Tail(reqQueue)
    /\ notActive' = FALSE

Taken == IF reqQueue = <<>> THEN Nothing ELSE Head(reqQueue)

\* Mistake: the status the other make has when off.
EnableOfEyou(word) ==
    IF word = 55 THEN 1 ELSE IF word = 49 THEN 0
    ELSE IF word = 8 /\ ~kind.eyou THEN 4 ELSE info.DriverEnable

\* DriverEnable after a status word; others leave it alone.
Enable(word) ==
    IF word = 55 THEN 1 ELSE IF word = kind.off THEN 0
    ELSE IF word = 8 /\ ~kind.eyou THEN 4 ELSE info.DriverEnable

StatusParts == {"getVel", "getPos", "getCur"}

\* GetInfo(): a status of all three parts leaves in torque mode and makes the motor
\* ready; in position mode each position is a status.
OnResponse(f) ==
    /\ info' = CASE f.ins = "getState" -> [info EXCEPT !.DriverEnable = Enable(f.data)]
                 [] f.ins = "getMode" -> [info EXCEPT !.DriverMode = f.data]
                 [] f.ins = "getPos" -> [info EXCEPT !.ReceivePos = f.data]
                 [] f.ins = "getRated" -> [info EXCEPT !.RatedCurrent = f.data]
                 [] OTHER -> info
    /\ LET parts == statusReady \cup ({f.ins} \cap StatusParts)
           full == IF Position THEN "getPos" \in parts ELSE parts = StatusParts
       IN  /\ statusReady' = IF full THEN {} ELSE parts
           /\ ready' = (ready \/ (full /\ ~Position))

\* The frames go out: the drive is served, its answer is on its way.
Sent ==
    /\ opened' = (opened \/ notActive)
    /\ drive' = Serve(drive, Taken)

OnTheWay == answers \o (IF opened \/ notActive THEN Answer(drive', Taken) ELSE <<>>)

\* An exchange that works brings the next answer, if there is one yet.
Exchange ==
    /\ OnRequest
    /\ Sent
    /\ \/ /\ OnTheWay # <<>>
          /\ input' = Head(OnTheWay)
          /\ answers' = Tail(OnTheWay)
       \/ /\ OnTheWay = <<>> \/ (~quiet /\ answers = <<>>)
          /\ input' = Nothing
          /\ answers' = OnTheWay
    /\ OnResponse(input')
    /\ UNCHANGED <<kind, step, crashed, command, quiet, lost, late>>

\* An exchange fails on the way out or back: the input frame stays what it was, and is
\* handed to the device again.
LoseExchange ==
    /\ ~quiet
    /\ lost' = TRUE
    /\ OnRequest
    /\ \/ UNCHANGED <<opened, drive, answers>>
       \/ /\ Sent
          /\ answers' = IF OnTheWay = <<>> THEN <<>> ELSE Tail(OnTheWay)
    /\ OnResponse(input)
    /\ UNCHANGED <<kind, step, crashed, command, input, quiet, late>>

Bus == Exchange \/ LoseExchange

-----------------------------------------------------------------------------
(* The handlers and the rest of the world *)

\* SetPos, called by a handler that found the motor ready.
SetPos ==
    /\ ready /\ Position /\ ~quiet
    /\ targetPos' \in Positions
    /\ maxStep' \in Steps
    /\ UNCHANGED <<kind, worker, notActive, reqQueue, fields, noticed, outside, quiet, lost,
                   late>>

\* The drive reports a fault, as with a low battery, and switches itself off.
Fault ==
    /\ ~quiet
    /\ drive' = [drive EXCEPT !.power = "fault"]
    /\ UNCHANGED <<kind, worker, notActive, reqQueue, fields, command, opened, answers, input,
                   quiet, lost, late>>

Settles ==
    /\ ~quiet
    /\ quiet' = TRUE
    /\ UNCHANGED <<kind, worker, notActive, reqQueue, fields, command, outside, lost, late>>

Next == ~crashed /\ (Worker \/ Divide \/ Bus \/ SetPos \/ Fault \/ Settles)

\* Both threads run; which periods end in a trap is not promised.
Spec ==
    /\ Init /\ [][Next]_vars
    /\ WF_vars(~crashed /\ Worker)
    /\ WF_vars(~crashed /\ Bus)
=============================================================================
