---------------------------- MODULE CommandFanout ----------------------------
(***************************************************************************)
(* How one command message reaches many motors.  The executor thread pushes *)
(* one frame after the other into the queues of the motors (OnCmd... in     *)
(* BodyControlPlugin.cpp); the bus thread meanwhile takes at most one frame *)
(* out of each queue per cycle (MotorDevice::OnRequest), motor by motor,    *)
(* and sends each motor its last frame again when there is no new one.      *)
(* Motors on gateways that share time have a turn in every second cycle,    *)
(* all in the same one.                                                     *)
(*                                                                         *)
(* The module describes the node once it is RUNNING with every motor ready  *)
(* (neither is ever taken back), for messages that command every motor.     *)
(* Messages are numbered; a queue always holds consecutive numbers, so it   *)
(* is described by the last number pushed and the last number sent.         *)
(***************************************************************************)
EXTENDS Naturals

CONSTANTS
    M,          \* number of motors, in the order of SoemMaster::devices
    Order,      \* Order[i]: the i-th motor a message names
    MaxReceived     \* bound of the model: number of messages received

Motors == 1..M

ASSUME FanoutAssumption ==
    /\ M \in Nat \ {0}
    /\ Order \in [Motors -> Motors]
    /\ \A i, j \in Motors : Order[i] = Order[j] => i = j
    /\ \A m \in Motors : \E i \in Motors : Order[i] = m
    /\ MaxReceived \in Nat

VARIABLES
    received,   \* number of the message received last
    next,       \* the place in msg->cmds to be pushed next, 0 between messages
    pushed,     \* pushed[m]: the message whose frame was last pushed to reqQueue
    asked,      \* asked[m]: the message whose frame is in reqBuff
    turn,       \* the motor asked next in the cycle, M + 1 at the exchange
    shared,     \* the motors whose gateway is TIME_SHARING; the others' is STANDARD
    theirs      \* the cycle is one of those in which vecCurTsMode is STANDARD

fanoutVars == <<received, next, pushed, asked, turn, shared, theirs>>

\* Message 0 is the stop that the constructor of MotorDevice pushes.
FanoutInit ==
    /\ received = 0
    /\ next = 0
    /\ pushed = [m \in Motors |-> 0]
    /\ asked = [m \in Motors |-> 0]
    /\ turn = 1
    /\ shared \in SUBSET Motors
    /\ theirs \in BOOLEAN

\* The executor thread calls the handler.
Receive ==
    /\ next = 0
    /\ received < MaxReceived
    /\ received' = received + 1
    /\ next' = 1
    /\ UNCHANGED <<pushed, asked, turn, shared, theirs>>

\* The loop over msg->cmds pushes the frame of one motor.
PushNext ==
    /\ next # 0
    /\ pushed' = [pushed EXCEPT ![Order[next]] = received]
    /\ next' = IF next = M THEN 0 ELSE next + 1
    /\ UNCHANGED <<received, asked, turn, shared, theirs>>

\* Mistake: OnRequest skips to the newest frame.
TakenNewest(m) == pushed[m]

\* The message in reqBuff after OnRequest: one frame further, if there is one.
Taken(m) == IF asked[m] < pushed[m] THEN asked[m] + 1 ELSE asked[m]

\* In this cycle the motor's gateway carries its kind of frames.
HasTurn(m) == m \notin shared \/ theirs

\* GetRequestFromDevices asks the motor whose turn it is, if it is served.
OnRequest ==
    /\ turn \in Motors
    /\ asked' = IF HasTurn(turn) THEN [asked EXCEPT ![turn] = Taken(turn)] ELSE asked
    /\ turn' = turn + 1
    /\ UNCHANGED <<received, next, pushed, shared, theirs>>

\* The frames of all motors go out together; SendResponseToDevices changes the kind
\* that the gateways carry, and the next cycle begins.
Exchange ==
    /\ turn = M + 1
    /\ turn' = 1
    /\ theirs' = ~theirs
    /\ UNCHANGED <<received, next, pushed, asked, shared>>

Bus == OnRequest \/ Exchange

FanoutNext == Receive \/ PushNext \/ Bus

\* Neither thread stops in the middle of a message or a cycle.
FanoutSpec == FanoutInit /\ [][FanoutNext]_fanoutVars /\ WF_fanoutVars(PushNext) /\ WF_fanoutVars(Bus)

-----------------------------------------------------------------------------
(* Properties *)

\* Types, and what a half-distributed message looks like.
FanoutTypeOK ==
    /\ received \in 0..MaxReceived
    /\ next \in 0..M
    /\ turn \in 1..(M + 1)
    /\ pushed \in [Motors -> Nat]
    /\ asked \in [Motors -> Nat]
    /\ shared \subseteq Motors
    /\ theirs \in BOOLEAN
    /\ next # 0 => received > 0
    /\ \A i \in Motors : pushed[Order[i]] = IF next # 0 /\ i >= next THEN received - 1 ELSE received
    /\ \A m \in Motors : asked[m] <= pushed[m]

\* Motor b has a turn whenever motor a has one.
AsOften(a, b) == a \in shared \/ b \notin shared

\* The motor was asked in this cycle.
Passed(m) == m < turn /\ HasTurn(m)

\* By how many messages motor a may be ahead of motor b: within a cycle this
\* depends on which of them was asked.
Lead(a, b) ==
    IF Passed(a) THEN (IF Passed(b) THEN 2 ELSE 3)
                 ELSE (IF Passed(b) THEN 1 ELSE 2)

\* The inductive invariant of the distribution.
FanoutInv ==
    /\ FanoutTypeOK
    /\ \A a, b \in Motors : AsOften(a, b) => asked[a] <= asked[b] + Lead(a, b)

\* Nothing ties the frames of one message together, yet at every exchange no
\* motor is more than two messages ahead of another that is asked at least as often,
\* however fast commands come and in whatever order a message names the motors.  Of
\* a motor on a gateway that shares time the others may be ahead by any number: its
\* queue grows when there is a command in every cycle.
FramesTogether ==
    turn = M + 1 => \A a, b \in Motors : AsOften(a, b) => asked[a] <= asked[b] + 2
=============================================================================
