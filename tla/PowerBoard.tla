------------------------------ MODULE PowerBoard ------------------------------
(***************************************************************************)
(* PowerBoardDevice.cpp and PowerMgr.cpp: the driver asks the power board  *)
(* for one instruction after the other, repeats a request that was not     *)
(* answered, starts a new round every second and publishes the status when *)
(* every instruction was answered or the board's switches changed.  Both   *)
(* run in the bus thread: OnRequest before the exchange, OnResponse after. *)
(* Requests and answers get lost, late and duplicated until the            *)
(* environment becomes quiet.  Time is counted in bus cycles.              *)
(***************************************************************************)
EXTENDS Naturals

CONSTANTS
    N,          \* number of instructions, 14 in the code; N asks for the switches
    Round,      \* cycles in 1 s, after which a new round starts
    Retry,      \* cycles in 10 ms, after which a request is repeated
    BeepGap     \* cycles in 100 ms, between two beeps

ASSUME PowerAssumption ==
    /\ N \in Nat \ {0}
    /\ Round \in Nat \ {0} /\ Retry \in Nat \ {0} /\ BeepGap \in Nat \ {0}

Ins == 1..N
Switches == {"off", "on"}
Answers == [ins : Ins, word : Switches]

VARIABLES
    phase,      \* "request" or "response": the half of the bus cycle to come
    reqId,      \* req_id_: the instruction to ask for, 0 when the round is over
    lastReq,    \* last_req_id_
    sinceRound, \* cycles since last_request_time_, at most Round
    sinceSend,  \* cycles since last_req_time_, at most Retry
    sinceBeep,  \* cycles since last_beep_time_, at most BeepGap
    beeping,    \* is_beeping_
    frame,      \* what OnRequest put on the bus: an instruction, "beep" or "nothing"
    readyBits,  \* readyBits, as the set of the instructions whose bit is set
    known,      \* the switches as PowerBoardStatus holds them
    taken,      \* history: the instructions whose data was ever stored
    topic,      \* the switches in the last message, "none" before the first
    out,        \* what the last OnResponse published: "nothing", "change", "full"
    pending,    \* external: answers of the board not yet delivered
    board,      \* external: the switches of the board
    quiet       \* external: nothing is lost, late, duplicated or switched any more

timers == <<sinceRound, sinceSend, sinceBeep>>
external == <<pending, board, quiet>>
vars == <<phase, reqId, lastReq, timers, beeping, frame, readyBits, known, taken,
          topic, out, external>>

\* last_req_id_ is not initialised; the times are the epoch, long ago.
PowerInit ==
    /\ phase = "request"
    /\ reqId = 0
    /\ lastReq \in 0..N
    /\ sinceRound = Round
    /\ sinceSend = Retry
    /\ sinceBeep = BeepGap
    /\ beeping = FALSE
    /\ frame = "nothing"
    /\ readyBits = {}
    /\ known = "off"
    /\ taken = {}
    /\ topic = "none"
    /\ out = "nothing"
    /\ pending = {}
    /\ board \in Switches
    /\ quiet = FALSE

-----------------------------------------------------------------------------
(* OnRequest *)

\* A timer one cycle later, restarted when it is used.
Elapsed(timer, used, limit) ==
    IF used THEN 1 ELSE IF timer < limit THEN timer + 1 ELSE limit

\* A new round starts every second, whether the last one is over or not.
RoundDue == sinceRound = Round

\* Mistake: a request is never repeated.
MayAskOnce(id) == lastReq # id

\* A request is sent when it is a new one or was sent 10 ms ago.
MayAsk(id) == lastReq # id \/ sinceSend = Retry

\* The beep uses a cycle without a request.
BeepDue(ask) == ~ask /\ beeping /\ sinceBeep = BeepGap

\* The board answers a request, now or later, unless the frame is lost.
Delivered(id) ==
    \/ pending' = pending \cup {[ins |-> id, word |-> board]}
    \/ ~quiet /\ pending' = pending

OnRequest ==
    /\ phase = "request"
    /\ LET id   == IF RoundDue THEN 1 ELSE reqId
           ask  == MayAsk(id) /\ id # 0
           beep == BeepDue(ask)
       IN  /\ reqId' = id
           /\ lastReq' = IF MayAsk(id) THEN id ELSE lastReq
           /\ sinceRound' = Elapsed(sinceRound, RoundDue, Round)
           /\ sinceSend' = Elapsed(sinceSend, ask, Retry)
           /\ sinceBeep' = Elapsed(sinceBeep, beep, BeepGap)
           /\ frame' = IF beep THEN "beep" ELSE IF ask THEN "request" ELSE "nothing"
           /\ IF ask THEN Delivered(id) ELSE pending' = pending
    /\ phase' = "response"
    /\ UNCHANGED <<beeping, readyBits, known, taken, topic, out, board, quiet>>

-----------------------------------------------------------------------------
(* OnResponse *)

\* ParseCanPackage stores the data only of the instruction asked for.
Matches(a) == a.ins = reqId

\* Mistake: every other instruction is skipped.
NextReqSkips(ins) == IF ins + 1 >= N THEN 0 ELSE ins + 2

\* The next instruction, or 0 when the round is over.
NextReq(ins) == IF ins = N THEN 0 ELSE ins + 1

\* The data are the switches.
Stores(a) == Matches(a) /\ a.ins = N

\* Mistake: only a pressed switch counts as a change.
ChangedPressed(a) == Stores(a) /\ a.word # known /\ a.word = "on"

\* PowerBoardStatus::is_update, after the answer.
Changed(a) == Stores(a) /\ a.word # known

\* Mistake: one answer is enough.
FullAny(bits) == bits # {}

\* Every instruction was answered since the last message.
Full(bits) == bits = Ins

\* ParseCanPackage, IsReady, the message and ClearReady.  The bit is set for
\* every answer, the data is stored only if the answer matches.
Parse(a) ==
    LET bits == readyBits \cup {a.ins}
        send == Full(bits) \/ Changed(a)
    IN  /\ reqId' = IF Matches(a) THEN NextReq(a.ins) ELSE reqId
        /\ known' = IF Stores(a) THEN a.word ELSE known
        /\ taken' = IF Matches(a) THEN taken \cup {a.ins} ELSE taken
        /\ readyBits' = IF send THEN {} ELSE bits
        /\ topic' = IF send THEN known' ELSE topic
        /\ out' = IF Full(bits) THEN "full" ELSE IF send THEN "change" ELSE "nothing"

\* An answer arrives; it may stay in the buffers and arrive again.
OnResponse ==
    /\ phase = "response"
    /\ \E a \in pending :
        /\ Parse(a)
        /\ \/ pending' = pending \ {a}
           \/ ~quiet /\ pending' = pending
    /\ phase' = "request"
    /\ UNCHANGED <<lastReq, timers, beeping, frame, board, quiet>>

\* No answer in this cycle: the frame has id 0.
OnNoResponse ==
    /\ phase = "response"
    /\ quiet => pending = {}
    /\ out' = "nothing"
    /\ phase' = "request"
    /\ UNCHANGED <<reqId, lastReq, timers, beeping, frame, readyBits, known, taken,
                   topic, external>>

-----------------------------------------------------------------------------
(* Other threads and the board *)

\* LoadMotors' status callback: a motor is too hot, or none any more.
Beep ==
    /\ ~quiet
    /\ beeping' = ~beeping
    /\ UNCHANGED <<phase, reqId, lastReq, timers, frame, readyBits, known, taken, topic,
                   out, external>>

\* A switch is pressed or released, or the power comes or goes.
SwitchChanges ==
    /\ ~quiet
    /\ board' \in Switches \ {board}
    /\ UNCHANGED <<phase, reqId, lastReq, timers, beeping, frame, readyBits, known, taken,
                   topic, out, pending, quiet>>

\* An answer is lost on its way.
AnswerLost ==
    /\ \E a \in pending : pending' = pending \ {a}
    /\ ~quiet
    /\ UNCHANGED <<phase, reqId, lastReq, timers, beeping, frame, readyBits, known, taken,
                   topic, out, board, quiet>>

\* From here on nothing is on its way but answers to new requests.
BecomesQuiet ==
    /\ ~quiet
    /\ pending = {}
    /\ quiet' = TRUE
    /\ UNCHANGED <<phase, reqId, lastReq, timers, beeping, frame, readyBits, known, taken,
                   topic, out, pending, board>>

BusThread == OnRequest \/ OnResponse \/ OnNoResponse

PowerNext == BusThread \/ Beep \/ SwitchChanges \/ AnswerLost \/ BecomesQuiet

\* The bus thread goes on, cycle after cycle.
PowerSpec == PowerInit /\ [][PowerNext]_vars /\ WF_vars(BusThread)
=============================================================================
