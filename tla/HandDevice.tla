----------------------------- MODULE HandDevice -----------------------------
(***************************************************************************)
(* TsinghuaHandDevice.cpp on the bus of SoemDispatch.  Its handlers push   *)
(* commands of several CAN frames on a queue; OnRequest sends one frame in *)
(* each cycle it is called in, and a status query when there is no         *)
(* command.  A frame is deleted as it is written, before the exchange that *)
(* carries it, so a lost exchange loses it.                                *)
(*                                                                         *)
(* External: the hand, which carries out a command if it receives its      *)
(* frames completely and in order.                                         *)
(***************************************************************************)
EXTENDS SoemDispatchProps

CONSTANTS
    Hand,           \* the entry the hand's manager registers, an EXTENDED one
    MaxCommands     \* bound: commands given

ASSUME HandAssumption ==
    /\ {"query", "command"} \subseteq Asks
    /\ Hand \in Entries
    /\ Hand.mode = "extended"
    /\ Hand.asks = {"query", "command"}
    /\ MaxCommands \in Nat

Commands == {"pos", "motion", "stop"}

\* Mistake: a motion command ends without a query.
FramesUnasked ==
    [pos    |-> <<"pos1", "pos2", "query">>,
     motion |-> <<"halt", "set1", "set2", "set3", "set4", "set5", "start">>,
     stop   |-> <<"stop">>]

\* The frames of a command: SetPos, SetMotionCtrl and SetEmergencyStop (to stop
\* and to clear a stop).  The first two end with a query of the status.
FramesOf ==
    [pos    |-> <<"pos1", "pos2", "query">>,
     motion |-> <<"halt", "set1", "set2", "set3", "set4", "set5", "start", "query">>,
     stop   |-> <<"stop">>]

VARIABLES
    cmdQueue,       \* cmdQueue, a LockFreeQueue
    curReqFrames,   \* curReqFrames: frames of the list taken last, not yet sent
    ready,          \* SoemDevice::ready
    sent,           \* the frame OnRequest wrote in this cycle, or "nothing"
    current,        \* history: the command curReqFrames was taken for, or "none"
    accepted,       \* history: number of commands pushed
    since,          \* history: frames written since the last query, stops apart
    got,            \* external: the frames of current that reached the hand, as long
                    \*   as all of them did
    hit,            \* history: a frame of current did not
    outcomes        \* history: how the commands ended

handVars == <<cmdQueue, curReqFrames, ready, sent, current, accepted, since, got, hit,
              outcomes>>

HandInit ==
    /\ DispatchInit
    /\ cmdQueue = <<>>
    /\ curReqFrames = <<>>
    /\ ready = FALSE
    /\ sent = "nothing"
    /\ current = "none"
    /\ accepted = 0
    /\ since = 0
    /\ got = <<>>
    /\ hit = FALSE
    /\ outcomes = <<>>

-----------------------------------------------------------------------------
(* The handlers *)

\* SetPos, SetMotionCtrl or SetEmergencyStop under mtxOpt.  The plugin calls the
\* first two, from the executor, once the hand is ready; nobody calls the third.
Command(c) ==
    /\ accepted < MaxCommands
    /\ c # "stop" => ready
    /\ cmdQueue' = Append(cmdQueue, c)
    /\ accepted' = accepted + 1
    /\ UNCHANGED <<dispatchVars, curReqFrames, ready, sent, current, since, got, hit, outcomes>>

-----------------------------------------------------------------------------
(* The bus thread *)

\* The bus thread calls the hand in this cycle.
Called == Registered(Hand) /\ Served(Hand)

\* Mistake: a command is taken as soon as there is one.
TakesEagerly == cmdQueue # <<>>

\* OnRequest takes the next command only when the last was sent.
TakesCommand == curReqFrames = <<>> /\ cmdQueue # <<>>

\* The list OnRequest sends a frame of; a query if there is nothing to send.
ToSend ==
    IF TakesCommand THEN FramesOf[Head(cmdQueue)]
    ELSE IF curReqFrames = <<>> THEN <<"query">> ELSE curReqFrames

\* OnRequest.
OnRequest(pick) ==
    /\ pick[Hand] = IF Head(ToSend) = "query" THEN "query" ELSE "command"
    /\ sent' = Head(ToSend)
    /\ curReqFrames' = Tail(ToSend)
    /\ cmdQueue' = IF TakesCommand THEN Tail(cmdQueue) ELSE cmdQueue
    /\ current' = IF TakesCommand THEN Head(cmdQueue) ELSE current
    /\ since' = CASE Head(ToSend) = "query" -> 0
                  [] Head(ToSend) = "stop"  -> since
                  [] OTHER                  -> since + 1
    /\ UNCHANGED <<ready, accepted, got, hit, outcomes>>

\* GetRequestFromDevices with the hand among the devices.
HandRequests ==
    \E pick \in Picks :
        /\ GetRequests(pick)
        /\ IF Called THEN OnRequest(pick) ELSE UNCHANGED handVars

\* The hand sees the frame in its slot if the outputs reach its gateway and no
\* device called later has overwritten it.
Arrives(reached) ==
    LET answer == Answers[Hand.gateway][Hand.passage]
    IN  reached /\ answer # None /\ answer.from = Hand

\* The frame of a command arrives or is lost.
Deliver(reached) ==
    /\ IF sent = "nothing" \/ current = "none" THEN UNCHANGED <<got, hit>>
       ELSE /\ hit' = (hit \/ ~Arrives(reached))
            /\ got' = IF hit' THEN <<>> ELSE Append(got, sent)
    /\ UNCHANGED <<cmdQueue, curReqFrames, ready, sent, current, accepted, since, outcomes>>

HandExchange == \/ Exchange /\ Deliver(TRUE)
                \/ \E reached \in BOOLEAN : LoseExchange(reached) /\ Deliver(reached)

\* The last frame of a command was sent.
LastSent == sent # "nothing" /\ current # "none" /\ curReqFrames = <<>>

\* SendResponseToDevices with the hand among the devices: OnResponse and OnStatus.
HandResponses ==
    /\ SendResponses
    /\ LET answer == inputs[Hand.gateway][Hand.passage]
       IN  ready' = \/ ready
                    \/ Called /\ answer # None /\ answer.from = Hand /\ answer.ask = "query"
    /\ IF LastSent
       THEN /\ outcomes' = Append(outcomes, IF got = FramesOf[current] THEN "whole"
                                                                    ELSE "spoilt")
            /\ current' = "none"
            /\ got' = <<>>
            /\ hit' = FALSE
       ELSE UNCHANGED <<outcomes, current, got, hit>>
    /\ sent' = "nothing"
    /\ UNCHANGED <<cmdQueue, curReqFrames, accepted, since>>

HandCycle == HandRequests \/ HandExchange \/ HandResponses

HandNext ==
    \/ (Load \/ CalmsDown) /\ UNCHANGED handVars
    \/ \E c \in Commands : Command(c)
    \/ HandCycle

handDispatchVars == <<dispatchVars, handVars>>

HandSpec == HandInit /\ [][HandNext]_handDispatchVars /\ WF_handDispatchVars(HandCycle)
=============================================================================
