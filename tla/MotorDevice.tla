----------------------------- MODULE MotorDevice -----------------------------
(***************************************************************************)
(* MotorDevice.cpp: one motor between the executor thread, which turns the *)
(* commands of clients into frames, and the bus thread, which sends the    *)
(* next frame (or the last one again), stores the answer and reports it.   *)
(* Positions are integers; raw positions are the motor's own, a client's   *)
(* position is the raw one less the zero offset.                           *)
(***************************************************************************)
EXTENDS Integers, Sequences

CONSTANTS
    Lim,        \* raw positions are -Lim..Lim, POS_MAX is 12.5 rad in the code
    Offset,     \* zeroOffset
    Positions,  \* positions clients ask for
    Distances,  \* distances clients ask for
    QueueMax    \* bound of the model: frames waiting in reqQueue

ASSUME MotorAssumption ==
    /\ Lim \in Nat
    /\ Offset \in Int
    /\ Positions \subseteq Int
    /\ Distances \subseteq Int
    /\ QueueMax \in Nat

Raw == (-Lim)..Lim
Frames == [kind : {"speed", "position"}, val : Int]
Stop == [kind |-> "speed", val |-> 0]

VARIABLES
    node,       \* nodeState
    reqQueue,   \* frames pushed and not yet sent
    reqBuff,    \* the frame sent in every cycle
    phase,      \* the next step of the bus thread
    answered,   \* the motor's answer of this cycle arrived
    position,   \* MotorDevice::position, not initialised
    heard,      \* history: position was stored at least once
    ready,      \* SoemDevice::ready
    report,     \* the position in the last status, a client's position
    goal,       \* history: where the last command was to take the motor
    last,       \* history: the kind of the last command
    real,       \* external: the motor's raw position
    quiet       \* external: no more commands, every answer arrives

history == <<heard, goal, last>>
vars == <<node, reqQueue, reqBuff, phase, answered, position, ready, report, history,
          real, quiet>>

\* The constructor pushes SetMotorSpeed(0, 1).
MotorInit ==
    /\ node = "IDLE"
    /\ reqQueue = <<Stop>>
    /\ reqBuff = Stop
    /\ phase = "request"
    /\ answered = FALSE
    /\ position \in Raw
    /\ heard = FALSE
    /\ ready = FALSE
    /\ report = 0
    /\ goal = 0
    /\ last = "none"
    /\ real \in Raw
    /\ quiet = FALSE

-----------------------------------------------------------------------------
(* The executor thread: the command handlers *)

\* CheckReady or WaitAndSendReady, in the initialisation thread.
NodeRuns ==
    /\ node = "IDLE"
    /\ node' = "RUNNING"
    /\ UNCHANGED <<reqQueue, reqBuff, phase, answered, position, ready, report, history,
                   real, quiet>>

\* Mistake: the handler does not ask whether the motor was heard of.
AcceptsUnheard == node = "RUNNING"

\* The tests of a handler before it calls the device.
Accepts == node = "RUNNING" /\ ready

\* The limits of the motor.
Limit(raw) == IF raw > Lim THEN Lim ELSE IF raw < -Lim THEN -Lim ELSE raw

\* Mistake: the zero offset is subtracted.
TargetMinus(pos) == Limit(pos - Offset)

\* SetMotorPosition and SendMotorCtrlCmd: a client's position as a raw target.
Target(pos) == Limit(pos + Offset)

\* The handler pushes a frame; cmd and where are the history of the command.
PushFrame(frame, cmd, where) ==
    /\ ~quiet
    /\ Accepts
    /\ Len(reqQueue) < QueueMax
    /\ reqQueue' = Append(reqQueue, frame)
    /\ goal' = where
    /\ last' = cmd
    /\ UNCHANGED <<node, reqBuff, phase, answered, position, heard, ready, report, real,
                   quiet>>

\* SetMotorPosition and SendMotorCtrlCmd.
SetMotorPosition ==
    \E pos \in Positions :
        PushFrame([kind |-> "position", val |-> Target(pos)], "position",
                  Limit(pos + Offset) - Offset)

\* SetMotorDistance: the distance is added to the raw position and the sum is
\* handed to SetMotorPosition, which takes a client's position.
SetMotorDistance ==
    \E d \in Distances :
        PushFrame([kind |-> "position", val |-> Target(position + d)], "distance",
                  Limit(position + d) - Offset)

\* SetMotorSpeed.
SetMotorSpeed ==
    \E v \in {-1, 0, 1} : PushFrame([kind |-> "speed", val |-> v], "speed", goal)

-----------------------------------------------------------------------------
(* The bus thread and the motor *)

\* One frame of the queue replaces reqBuff, and reqBuff is sent.
OnRequest ==
    /\ phase = "request"
    /\ reqBuff' = IF reqQueue # <<>> THEN Head(reqQueue) ELSE reqBuff
    /\ reqQueue' = IF reqQueue # <<>> THEN Tail(reqQueue) ELSE reqQueue
    /\ phase' = "exchange"
    /\ UNCHANGED <<node, answered, position, ready, report, history, real, quiet>>

\* One step towards the target, or with the speed.
Moved ==
    Limit(IF reqBuff.kind = "speed" THEN real + reqBuff.val
          ELSE IF real < reqBuff.val THEN real + 1
          ELSE IF real > reqBuff.val THEN real - 1 ELSE real)

\* The motor receives the frame, moves and answers; frames may be lost.
Exchange ==
    /\ phase = "exchange"
    /\ \/ real' = Moved
       \/ ~quiet /\ real' = real
    /\ answered' \in (IF quiet THEN {TRUE} ELSE BOOLEAN)
    /\ phase' = "response"
    /\ UNCHANGED <<node, reqQueue, reqBuff, position, ready, report, history, quiet>>

\* OnResponse without an answer: funcOnMiss.
Miss ==
    /\ phase = "response"
    /\ ~answered
    /\ phase' = "request"
    /\ UNCHANGED <<node, reqQueue, reqBuff, answered, position, ready, report, history,
                   real, quiet>>

\* OnStatus stores the answer.
Store ==
    /\ phase = "response"
    /\ answered
    /\ position' = real
    /\ heard' = TRUE
    /\ phase' = "flag"
    /\ UNCHANGED <<node, reqQueue, reqBuff, answered, ready, report, goal, last, real, quiet>>

\* OnStatus raises ready and reports: a step of its own, the executor thread
\* reads both without a lock.
Flag ==
    /\ phase = "flag"
    /\ ready' = TRUE
    /\ report' = position - Offset
    /\ phase' = "request"
    /\ UNCHANGED <<node, reqQueue, reqBuff, answered, position, history, real, quiet>>

\* The clients fall silent and the wiring settles.
BecomesQuiet ==
    /\ ~quiet
    /\ quiet' = TRUE
    /\ UNCHANGED <<node, reqQueue, reqBuff, phase, answered, position, ready, report,
                   history, real>>

Commands == SetMotorPosition \/ SetMotorDistance \/ SetMotorSpeed
Bus == OnRequest \/ Exchange \/ Miss \/ Store \/ Flag

MotorNext == NodeRuns \/ Commands \/ Bus \/ BecomesQuiet

MotorSpec == MotorInit /\ [][MotorNext]_vars /\ WF_vars(Bus)
=============================================================================
