----------------------------- MODULE StatusBatch -----------------------------
(***************************************************************************)
(* How a device manager assembles the status message it publishes:         *)
(* MotorDeviceManager, and with the same code TsinghuaHandDeviceManager,   *)
(* EyouMotorDevMgr and ZeroErrMotorDevMgr.  Every bus cycle the EtherCAT   *)
(* thread hands each registered device, in registration order, the frame   *)
(* found in its CAN passage; but a gateway in mode TIME_SHARING carries    *)
(* standard and extended frames in turn, and its devices are called in     *)
(* every second cycle.  A frame of the device itself adds a status         *)
(* to the message under construction; an empty passage counts as a report  *)
(* of a motor without adding one; a frame of somebody else is ignored (an  *)
(* empty passage too, in the three managers without a miss callback).  The *)
(* message leaves when every device was heard of once in its life and has  *)
(* reported since the previous message.                                    *)
(*                                                                         *)
(* A message is abstracted to how many statuses of each device it holds    *)
(* (3 stands for several) and to the age in cycles of its oldest status.   *)
(* A CANopen motor in a position mode is ready when its own thread says    *)
(* so, before or after its first status.  The initialisation thread also   *)
(* calls IsReady(); it latches a condition the next callback works out for *)
(* itself, so it is not a step here.                                       *)
(***************************************************************************)
EXTENDS Naturals

CONSTANTS
    N,          \* number of devices, numbered in registration order
    Managers,   \* for each manager, what the passages of its devices may hold, of
                \* "own", "none", "other"; "thread": ready by a thread of their own;
                \* "extended": devices with extended frames
    MaxAge      \* ages are counted up to this bound

ASSUME BatchAssumption ==
    /\ N \in Nat \ {0}
    /\ Managers \subseteq SUBSET {"own", "none", "other", "thread", "extended"}
    /\ \A m \in Managers : ~({"none", "thread"} \subseteq m)
    /\ MaxAge \in Nat \ {0, 1, 2}

Devices == 1..N

VARIABLES
    frames,     \* what the passages of this manager's devices may hold; never changes
    gateway,    \* how a device's gateway carries its frames: always, in turns with the
                \* other kind, or never; never changes
    theirs,     \* vecCurTsMode: the turn of this manager's frames
    turn,       \* the device SendResponseToDevices deals with next
    heard,      \* devices whose IsReady() holds
    ready,      \* MotorDeviceManager::ready
    reported,   \* devices d with statusReady[d]
    count, age, \* msgStatus: statuses of each device, and age of the oldest status
    sent,       \* messages published so far: 0, 1 or 2 (several)
    msg,        \* the last one, as [count, age]
    phase,      \* the turn in which it left, 0 before the first
    since       \* history: turns since then, counted where no frame is dropped

vars == <<frames, gateway, theirs, turn, heard, ready, reported, count, age, sent, msg,
          phase, since>>

Least(a, b) == IF a < b THEN a ELSE b
Nothing == [d \in Devices |-> 0]

\* The constructor and NewDevice for every device.
Init ==
    /\ frames \in Managers
    /\ gateway \in [Devices -> {"always", "turns", "never"}]
    /\ theirs = ("extended" \notin frames)
    /\ turn = 1
    /\ heard = {}
    /\ ready = FALSE
    /\ reported = {}
    /\ count = Nothing
    /\ age = 0
    /\ sent = 0
    /\ msg = [count |-> Nothing, age |-> 0]
    /\ phase = 0
    /\ since = 0

\* The devices whose gateway is in mode TIME_SHARING.
Shared == {d \in Devices : gateway[d] = "turns"}

\* The gateway carries the device's frames in this cycle.
Called(d) == gateway[d] = "always" \/ (d \in Shared /\ theirs)

\* The loop of SendResponseToDevices goes on; at the end of a cycle gateways that share
\* time change to the other kind, and what was not sent is one cycle older.
EndTurn(newCount, newAge) ==
    /\ UNCHANGED <<frames, gateway>>
    /\ turn' = IF turn = N THEN 1 ELSE turn + 1
    /\ theirs' = IF turn = N THEN ~theirs ELSE theirs
    /\ count' = newCount
    /\ age' = IF newCount = Nothing THEN 0
              ELSE IF turn = N THEN Least(newAge + 1, MaxAge) ELSE newAge

\* One turn more since the last message, up to those of two cycles.
LaterSince == IF sent = 0 \/ "other" \in frames THEN 0 ELSE Least(since + 1, 2 * N)

\* The device's turn passes without a call of the manager.
PassBy ==
    /\ EndTurn(count, age)
    /\ since' = LaterSince
    /\ UNCHANGED <<heard, ready, reported, sent, msg, phase>>

\* Mistake: one device that answered makes the manager ready.
IsReadyAny(h) == ready \/ h # {}

\* IsReady(): all devices were heard of; latched.
IsReady(h) == ready \/ h = Devices

\* Mistake: the flags of the devices survive the message.
FlagsAfterMessageKept == Devices

\* statusReady of every device is cleared when a message has left.
FlagsAfterMessage == {}

\* CheckAndSendStatus(), on the fields as the callback has just left them.
CheckAndSendStatus(h, rep, newCount, newAge) ==
    /\ heard' = h
    /\ ready' = IsReady(h)
    /\ IF IsReady(h) /\ rep = Devices
       THEN /\ reported' = FlagsAfterMessage
            /\ sent' = Least(sent + 1, 2)
            /\ msg' = [count |-> newCount, age |-> newAge]
            /\ phase' = turn
            /\ since' = 0
            /\ EndTurn(Nothing, 0)
       ELSE /\ reported' = rep
            /\ since' = LaterSince
            /\ UNCHANGED <<sent, msg, phase>>
            /\ EndTurn(newCount, newAge)

\* A frame with the device's id: OnStatus, then the manager's callback.
Own ==
    /\ "own" \in frames
    /\ CheckAndSendStatus(IF "thread" \in frames THEN heard ELSE heard \cup {turn},
                          reported \cup {turn},
                          [count EXCEPT ![turn] = Least(@ + 1, 3)], age)

\* Mistake: a motor that is silent does not count as reported.
MissIgnored ==
    /\ "none" \in frames
    /\ CheckAndSendStatus(heard, reported, count, age)

\* An empty passage: the miss callback of a motor.
Miss ==
    /\ "none" \in frames
    /\ CheckAndSendStatus(heard, reported \cup {turn}, count, age)

\* A frame of another device is dropped.
Other ==
    /\ "other" \in frames
    /\ PassBy

\* The device whose turn it is gets what its passage holds, if its gateway carries it.
Turn ==
    \/ Called(turn) /\ (Own \/ Miss \/ Other)
    \/ ~Called(turn) /\ PassBy

\* The thread of a CANopen motor has switched it on: SetReady().  It needs answers
\* of the motor.
SetReady ==
    /\ "thread" \in frames
    /\ \E d \in Devices \ heard : gateway[d] # "never" /\ heard' = heard \cup {d}
    /\ UNCHANGED <<frames, gateway, theirs, turn, ready, reported, count, age, sent, msg,
                   phase, since>>

Next == Turn \/ SetReady

\* The EtherCAT thread never stops calling its devices.
Spec == Init /\ [][Next]_vars /\ WF_vars(Turn)
=============================================================================
