-------------------------- MODULE PowerBoardProofs --------------------------
(***************************************************************************)
(* Proofs about PowerBoard for any number of instructions and any times:   *)
(* whatever is lost, late or duplicated, the instructions are asked for in *)
(* order, a complete status holds a received value of each but the last,   *)
(* a change of the switches is published at once, and once the bus is      *)
(* quiet the switches of the board are known and published at last.        *)
(***************************************************************************)
EXTENDS PowerBoardProps, Integers, TLAPS

\* An answer is to an instruction.
LEMMA AnswerIns == \A a \in Answers : a.ins \in Ins /\ a.word \in Switches
  BY DEF Answers

\* The timers stay in their ranges.
LEMMA ElapsedRange ==
  ASSUME NEW limit \in Nat \ {0}, NEW timer \in 1..limit, NEW used
  PROVE  Elapsed(timer, used, limit) \in 1..limit
  BY DEF Elapsed

\* PowerInv holds when the driver is created.
LEMMA PowerInvInit == PowerInit => PowerInv
  <1> SUFFICES ASSUME PowerInit PROVE PowerInv
    OBVIOUS
  <1>1. beeping \in BOOLEAN /\ quiet \in BOOLEAN
    BY Zenon DEF PowerInit
  <1>2. TypeOK
    BY <1>1, PowerAssumption DEF PowerInit, TypeOK, Switches
  <1>3. AskedInOrder
    BY DEF PowerInit, AskedInOrder, Before, Ins
  <1> QED  BY <1>2, <1>3 DEF PowerInv

\* A request is made only for an instruction whose turn it is.
LEMMA PowerInvRequest == PowerInv /\ OnRequest => PowerInv'
  <1> SUFFICES ASSUME TypeOK, AskedInOrder, OnRequest PROVE TypeOK' /\ AskedInOrder'
    BY DEF PowerInv
  <1> DEFINE id == IF RoundDue THEN 1 ELSE reqId
  <1> USE PowerAssumption
  <1>1. id \in 0..N /\ Before(id)
    BY DEF TypeOK, AskedInOrder, Before, Ins
  <1>2. reqId' = id /\ lastReq' \in {id, lastReq}
    BY DEF OnRequest
  <1>3. pending' = pending \/ (id # 0 /\ pending' = pending \cup {[ins |-> id, word |-> board]})
    BY DEF OnRequest, Delivered
  <1>4. pending' \subseteq Answers
    BY <1>1, <1>3 DEF TypeOK, Answers, Ins
  <1>5. sinceRound' \in 1..Round /\ sinceSend' \in 1..Retry /\ sinceBeep' \in 1..BeepGap
    BY ElapsedRange DEF OnRequest, TypeOK
  <1>6. frame' \in {"beep", "request", "nothing"}
    BY DEF OnRequest
  <1>7. beeping' \in BOOLEAN /\ quiet' \in BOOLEAN
    BY DEF OnRequest, TypeOK
  <1>8. TypeOK'
    <2>1. phase' = "response" /\ UNCHANGED <<readyBits, taken, known, board, topic, out>>
      BY DEF OnRequest
    <2> QED  BY <1>1, <1>2, <1>4, <1>5, <1>6, <1>7, <2>1 DEF TypeOK
  <1>9. AskedInOrder'
    <2>1. \A k : Before(k)' <=> Before(k)
      BY DEF OnRequest, Before
    <2>2. UNCHANGED readyBits
      BY DEF OnRequest
    <2> QED  BY <1>1, <1>2, <1>3, <2>1, <2>2 DEF AskedInOrder
  <1> QED  BY <1>8, <1>9

\* What an answer in flight does: it can only move the turn to the next
\* instruction after its data were stored.
LEMMA ParseFacts ==
  ASSUME TypeOK, AskedInOrder, NEW a \in pending, Parse(a)
  PROVE  /\ reqId' \in 0..N /\ known' \in Switches /\ topic' \in {"none"} \cup Switches
         /\ taken \subseteq taken' /\ taken' \subseteq Ins
         /\ readyBits' \subseteq readyBits \cup {a.ins}
         /\ out' \in {"nothing", "change", "full"}
         /\ Before(reqId)' /\ Before(a.ins)'
  <1> USE PowerAssumption
  <1>1. a.ins \in Ins /\ a.word \in Switches /\ Before(a.ins) /\ Before(reqId)
    BY AnswerIns DEF TypeOK, AskedInOrder
  <1>2. reqId' \in 0..N /\ known' \in Switches /\ topic' \in {"none"} \cup Switches
    BY <1>1 DEF Parse, TypeOK, NextReq, Ins
  <1>3. taken \subseteq taken' /\ taken' \subseteq Ins
    BY <1>1 DEF Parse, TypeOK
  <1>4. readyBits' \subseteq readyBits \cup {a.ins}
    BY DEF Parse
  <1>5. out' \in {"nothing", "change", "full"}
    BY DEF Parse
  <1>6. Before(a.ins)'
    BY <1>1, <1>3 DEF Before
  <1>7. Before(reqId)'
    <2>1. CASE Matches(a)
      <3>1. reqId' = NextReq(a.ins) /\ a.ins \in taken'
        BY <2>1 DEF Parse
      <3> QED  BY <1>1, <1>6, <3>1 DEF Before, NextReq, Ins
    <2>2. CASE ~Matches(a)
      BY <1>1, <1>3, <2>2 DEF Parse, Before
    <2> QED  BY <2>1, <2>2
  <1> QED  BY <1>2, <1>3, <1>4, <1>5, <1>6, <1>7

\* An answer keeps the order of the instructions.
LEMMA PowerInvResponse == PowerInv /\ OnResponse => PowerInv'
  <1> SUFFICES ASSUME TypeOK, AskedInOrder, OnResponse PROVE TypeOK' /\ AskedInOrder'
    BY DEF PowerInv
  <1> PICK a \in pending : Parse(a) /\ pending' \subseteq pending
    BY DEF OnResponse
  <1>1. /\ phase' = "request"
        /\ UNCHANGED <<lastReq, sinceRound, sinceSend, sinceBeep, frame, board>>
    BY DEF OnResponse, timers
  <1>2. UNCHANGED <<beeping, quiet>>
    BY DEF OnResponse
  <1>3. a.ins \in Ins
    BY AnswerIns DEF TypeOK
  <1>4. TypeOK'
    BY <1>1, <1>2, <1>3, ParseFacts DEF TypeOK
  <1>5. \A k : Before(k) => Before(k)'
    BY ParseFacts DEF Before
  <1>6. AskedInOrder'
    BY <1>5, ParseFacts DEF AskedInOrder
  <1> QED  BY <1>4, <1>6

\* All other steps keep the order of the instructions.
LEMMA PowerInvOther ==
  PowerInv /\ (OnNoResponse \/ Beep \/ SwitchChanges \/ AnswerLost \/ BecomesQuiet
               \/ UNCHANGED vars) => PowerInv'
  <1> SUFFICES ASSUME TypeOK, AskedInOrder,
                      OnNoResponse \/ Beep \/ SwitchChanges \/ AnswerLost \/ BecomesQuiet
                      \/ UNCHANGED vars
               PROVE  TypeOK' /\ AskedInOrder'
    BY DEF PowerInv
  <1> USE DEF OnNoResponse, Beep, SwitchChanges, AnswerLost, BecomesQuiet, vars, timers,
              external
  <1>1. /\ phase' \in {"request", "response"} /\ board' \in Switches
        /\ out' \in {"nothing", "change", "full"}
        /\ UNCHANGED <<reqId, lastReq, sinceRound, sinceSend, sinceBeep, frame, readyBits,
                       known, taken, topic>>
        /\ pending' \subseteq pending
    BY DEF TypeOK
  <1>2. beeping' \in BOOLEAN /\ quiet' \in BOOLEAN
    BY DEF TypeOK
  <1>3. TypeOK'
    BY <1>1, <1>2 DEF TypeOK
  <1>4. AskedInOrder'
    BY <1>1 DEF AskedInOrder, Before
  <1> QED  BY <1>3, <1>4

\* The inductive invariant of the polling holds in every reachable state.
THEOREM PowerInvariant == PowerSpec => []PowerInv
  <1>1. PowerInv /\ [PowerNext]_vars => PowerInv'
    BY PowerInvRequest, PowerInvResponse, PowerInvOther DEF PowerNext, BusThread
  <1> QED  BY PowerInvInit, <1>1, PTL DEF PowerSpec

\* A complete status needs the bit of the last instruction, which can be set
\* only after all those before it were asked for, answered and stored.
THEOREM CompleteStatus == PowerSpec => []StatusHasValues
  <1>1. PowerInit => StatusHasValues
    BY DEF PowerInit, StatusHasValues
  <1>2. PowerInv /\ StatusHasValues /\ [PowerNext]_vars => StatusHasValues'
    <2> SUFFICES ASSUME TypeOK, AskedInOrder, StatusHasValues, [PowerNext]_vars
                 PROVE  StatusHasValues'
      BY DEF PowerInv
    <2>1. CASE OnResponse
      <3> PICK a \in pending : Parse(a)
        BY <2>1 DEF OnResponse
      <3>1. a.ins \in Ins
        BY AnswerIns DEF TypeOK
      <3>2. out' = "full" => N \in readyBits \cup {a.ins}
        BY PowerAssumption DEF Parse, Full, Ins
      <3>3. \A k : Before(k) => Before(k)'
        BY ParseFacts DEF Before
      <3> QED  BY <3>1, <3>2, <3>3 DEF StatusHasValues, AskedInOrder
    <2>2. CASE ~OnResponse
      <3>1. out' \in {out, "nothing"} /\ taken' = taken
        BY <2>2 DEF PowerNext, BusThread, OnRequest, OnNoResponse, Beep, SwitchChanges,
                    AnswerLost, BecomesQuiet, vars
      <3> QED  BY <3>1 DEF StatusHasValues, Before
    <2> QED  BY <2>1, <2>2
  <1> QED  BY PowerInvariant, <1>1, <1>2, PTL DEF PowerSpec

\* The switches are stored only together with a message that shows them.
THEOREM TopicFollows == PowerSpec => []TopicIsCurrent
  <1>1. PowerInit => TopicIsCurrent
    BY DEF PowerInit, TopicIsCurrent
  <1>2. TopicIsCurrent /\ [PowerNext]_vars => TopicIsCurrent'
    <2>1. CASE OnResponse
      BY <2>1 DEF OnResponse, Parse, Stores, Changed, TopicIsCurrent
    <2>2. CASE [PowerNext]_vars /\ ~OnResponse
      <3>1. UNCHANGED <<topic, known>>
        BY <2>2 DEF PowerNext, BusThread, OnRequest, OnNoResponse, Beep, SwitchChanges,
                    AnswerLost, BecomesQuiet, vars
      <3> QED  BY <3>1 DEF TopicIsCurrent
    <2> QED  BY <2>1, <2>2
  <1> QED  BY <1>1, <1>2, PTL DEF PowerSpec

-----------------------------------------------------------------------------
(* The switches are reported *)

\* A round can be completed before the next is due, a repeated request included:
\* 1000 cycles for 14 instructions and 10 cycles in the code.
RoundIsLong == Round >= N + Retry

\* In a quiet bus the answer to a request comes in the cycle of the request.
AnsweredAtOnce ==
    quiet => pending \subseteq IF phase = "request" THEN {} ELSE {[ins |-> reqId, word |-> board]}

\* The three ways a round that began in a quiet bus stands: its first request waits
\* for its time, the last answer was stored, a request is answered in this cycle.
Waits == reqId = 1 /\ lastReq = 1 /\ sinceRound < sinceSend /\ pending = {}
Stored ==
    /\ phase = "request" /\ reqId > 1
    /\ lastReq = reqId - 1 /\ sinceRound <= Retry + reqId - 2
Answered ==
    /\ phase = "response" /\ pending # {}
    /\ lastReq = reqId /\ sinceRound <= Retry + reqId - 1

\* Before the first message the bits of the round are kept.
InRound ==
    /\ quiet /\ reqId \in Ins
    /\ topic = "none" => \A k \in Ins : k < reqId => k \in readyBits
    /\ Waits \/ Stored \/ Answered

\* The topic shows the switches of the board.
Shown == quiet /\ known = board /\ topic = board

\* The steps of the bus thread to the next round, and from there to the last answer.
ToRound == 2 * (Round - sinceRound) + (IF phase = "response" THEN 1 ELSE 0)
ToReport ==
    IF Answered THEN 2 * (N + 1 - reqId) - 1
    ELSE IF Stored THEN 2 * (N + 1 - reqId)
    ELSE 2 * (N + Retry - sinceSend) + (IF phase = "response" THEN 1 ELSE 0)

LEMMA AnsweredAtOnceAlways == PowerSpec => []AnsweredAtOnce
  <1>1. PowerInit => AnsweredAtOnce
    BY DEF PowerInit, AnsweredAtOnce
  <1>2. AnsweredAtOnce /\ [PowerNext]_vars => AnsweredAtOnce'
    <2> SUFFICES ASSUME AnsweredAtOnce, [PowerNext]_vars, quiet' PROVE AnsweredAtOnce'
      BY DEF AnsweredAtOnce
    <2> USE DEF AnsweredAtOnce, external, timers
    <2>1. CASE OnRequest
      BY <2>1 DEF OnRequest, Delivered
    <2>2. CASE OnResponse
      <3>1. PICK a \in pending : pending' = pending \ {a}
        BY <2>2 DEF OnResponse
      <3> QED  BY <2>2, <3>1 DEF OnResponse
    <2>3. CASE OnNoResponse
      BY <2>3 DEF OnNoResponse
    <2>4. CASE Beep \/ SwitchChanges \/ AnswerLost \/ BecomesQuiet \/ UNCHANGED vars
      BY <2>4 DEF Beep, SwitchChanges, AnswerLost, BecomesQuiet, vars
    <2> QED  BY <2>1, <2>2, <2>3, <2>4 DEF PowerNext, BusThread
  <1> QED  BY <1>1, <1>2, PTL DEF PowerSpec

\* In a quiet bus only the bus thread does anything.
LEMMA QuietSteps ==
  ASSUME quiet, [PowerNext]_vars
  PROVE  BusThread \/ UNCHANGED vars
  BY DEF PowerNext, Beep, SwitchChanges, AnswerLost, BecomesQuiet

\* A request in a quiet bus.
LEMMA QuietRequest ==
  ASSUME PowerInv, AnsweredAtOnce, quiet, OnRequest,
         NEW id, id = IF RoundDue THEN 1 ELSE reqId, id # 0
  PROVE  /\ phase = "request" /\ phase' = "response"
         /\ quiet' /\ UNCHANGED <<board, known, topic, readyBits>>
         /\ reqId' = id
         /\ MayAsk(id) => lastReq' = id /\ pending' # {}
         /\ ~MayAsk(id) => /\ lastReq = id /\ lastReq' = id /\ pending' = {}
                           /\ sinceSend < Retry /\ sinceSend' = sinceSend + 1
  <1> USE PowerAssumption DEF PowerInv, TypeOK, OnRequest, AnsweredAtOnce, Elapsed
  <1>1. /\ phase = "request" /\ phase' = "response" /\ pending = {}
        /\ quiet' /\ UNCHANGED <<board, known, topic, readyBits>>
        /\ reqId' = id
    OBVIOUS
  <1>2. ASSUME MayAsk(id) PROVE lastReq' = id /\ pending' # {}
    <2>1. lastReq' = id /\ Delivered(id)
      BY <1>2
    <2> QED  BY <1>1, <2>1 DEF Delivered
  <1>3. ASSUME ~MayAsk(id)
        PROVE  /\ lastReq = id /\ lastReq' = id /\ pending' = {}
               /\ sinceSend < Retry /\ sinceSend' = sinceSend + 1
    <2>1. lastReq' = lastReq /\ pending' = {} /\ sinceSend' = Elapsed(sinceSend, FALSE, Retry)
      BY <1>1, <1>3
    <2>2. lastReq = id /\ sinceSend # Retry
      BY <1>3 DEF MayAsk
    <2> QED  BY <2>1, <2>2
  <1> QED  BY <1>1, <1>2, <1>3

\* The time of a round goes on or starts anew.
LEMMA RoundTime ==
  ASSUME PowerInv, OnRequest
  PROVE  sinceRound' = IF RoundDue THEN 1 ELSE sinceRound + 1
  BY PowerAssumption DEF PowerInv, TypeOK, OnRequest, Elapsed, RoundDue

\* A round begins.
LEMMA RoundBegins ==
  ASSUME PowerInv, AnsweredAtOnce, quiet, OnRequest, RoundDue
  PROVE  InRound'
  <1> USE PowerAssumption
  <1>1. /\ phase' = "response" /\ quiet' /\ reqId' = 1 /\ sinceRound' = 1
        /\ MayAsk(1) => lastReq' = 1 /\ pending' # {}
        /\ ~MayAsk(1) => lastReq' = 1 /\ pending' = {} /\ sinceSend' = sinceSend + 1
    BY QuietRequest, RoundTime
  <1>2. sinceSend \in 1..Retry
    BY DEF PowerInv, TypeOK
  <1>3. Waits' \/ Answered'
    BY <1>1, <1>2 DEF Waits, Answered
  <1>4. 1 \in Ins /\ \A k \in Ins : ~(k < 1)
    BY DEF Ins
  <1> QED  BY <1>1, <1>3, <1>4 DEF InRound

\* The bus thread comes nearer to the next round, in which nothing is lost.
LEMMA NearerToRound ==
  ASSUME PowerInv, AnsweredAtOnce, quiet, [PowerNext]_vars
  PROVE  /\ ToRound \in Nat
         /\ (quiet' /\ ToRound' <= ToRound) \/ InRound'
         /\ BusThread => InRound' \/ ToRound' < ToRound
  <1> USE PowerAssumption DEF PowerInv, TypeOK
  <1>0. ToRound \in Nat /\ sinceRound \in 1..Round
    BY DEF ToRound
  <1>1. CASE OnRequest
    <2>1. phase = "request" /\ phase' = "response" /\ quiet'
          /\ sinceRound' = IF RoundDue THEN 1 ELSE sinceRound + 1
      BY <1>1, RoundTime DEF OnRequest, external
    <2>2. CASE RoundDue
      BY <1>0, <1>1, <2>2, RoundBegins
    <2>3. CASE ~RoundDue
      BY <1>0, <2>1, <2>3 DEF ToRound
    <2> QED  BY <2>2, <2>3
  <1>2. CASE OnResponse \/ OnNoResponse
    <2>1. phase = "response" /\ phase' = "request" /\ quiet' = quiet /\ sinceRound' = sinceRound
      BY <1>2 DEF OnResponse, OnNoResponse, timers, external
    <2> QED  BY <1>0, <2>1 DEF ToRound
  <1>3. CASE ~BusThread
    <2>1. UNCHANGED <<quiet, sinceRound, phase>>
      BY <1>3, QuietSteps DEF vars, timers, external
    <2> QED  BY <1>0, <1>3, <2>1 DEF ToRound
  <1> QED  BY <1>1, <1>2, <1>3 DEF BusThread

\* The request of a round is not disturbed by the next round.
LEMMA RequestInRound ==
  ASSUME PowerInv, AnsweredAtOnce, RoundIsLong, InRound, OnRequest
  PROVE  InRound' /\ ToReport' < ToReport
  <1> USE PowerAssumption
  <1>1. /\ reqId \in 1..N /\ N \in Int /\ Round \in Int /\ Retry \in Int
        /\ sinceSend \in 1..Retry /\ sinceRound \in 1..Round /\ phase = "request" /\ quiet
    BY DEF PowerInv, TypeOK, InRound, Ins, OnRequest
  <1>2. ~Answered /\ (Waits \/ Stored) /\ ~(Waits /\ Stored)
    BY <1>1 DEF InRound, Answered, Waits, Stored
  <1>3. ~RoundDue
    BY <1>1, <1>2 DEF RoundDue, Waits, Stored, RoundIsLong
  <1>4. /\ phase' = "response" /\ reqId' = reqId /\ sinceRound' = sinceRound + 1 /\ quiet'
        /\ UNCHANGED <<topic, readyBits>>
        /\ MayAsk(reqId) => lastReq' = reqId /\ pending' # {}
        /\ ~MayAsk(reqId) => /\ lastReq' = lastReq /\ lastReq = reqId /\ pending' = {}
                             /\ sinceSend < Retry /\ sinceSend' = sinceSend + 1
    BY <1>1, <1>3, QuietRequest, RoundTime
  <1>5. CASE MayAsk(reqId)
    <2>1. Answered'
      <3>1. sinceRound' <= Retry + reqId - 1
        BY <1>1, <1>2, <1>4 DEF Waits, Stored
      <3> QED  BY <1>4, <1>5, <3>1 DEF Answered
    <2>2. ToReport' = 2 * (N + 1 - reqId) - 1
      BY <1>4, <2>1 DEF ToReport
    <2>3. ToReport \in Int /\ ToReport >= 2 * (N + 1 - reqId)
      BY <1>1, <1>2 DEF ToReport, Waits
    <2>4. InRound'
      BY <1>1, <1>4, <2>1 DEF InRound
    <2> QED  BY <1>1, <2>2, <2>3, <2>4
  <1>6. CASE ~MayAsk(reqId)
    <2>1. Waits
      BY <1>1, <1>2, <1>4, <1>6 DEF Stored
    <2>2. Waits'
      BY <1>1, <1>4, <1>6, <2>1 DEF Waits
    <2>3. ~Answered' /\ ~Stored'
      BY <1>4, <1>6 DEF Answered, Stored
    <2>4. /\ ToReport' = 2 * (N + Retry - (sinceSend + 1)) + 1
          /\ ToReport = 2 * (N + Retry - sinceSend)
      BY <1>1, <1>2, <1>4, <1>6, <2>1, <2>3 DEF ToReport
    <2> QED  BY <1>1, <1>4, <2>2, <2>4 DEF InRound
  <1> QED  BY <1>5, <1>6

\* An answer of a round is stored; the last shows the switches of the board.
LEMMA ResponseInRound ==
  ASSUME PowerInv, AnsweredAtOnce, TopicIsCurrent, InRound, OnResponse
  PROVE  Shown' \/ (InRound' /\ ToReport' < ToReport)
  <1> USE PowerAssumption
  <1>1. /\ reqId \in 1..N /\ N \in Int /\ Round \in Int /\ Retry \in Int
        /\ sinceSend \in 1..Retry /\ sinceRound \in 1..Round /\ phase = "response" /\ quiet
        /\ pending # {}
    BY DEF PowerInv, TypeOK, InRound, Ins, OnResponse
  <1>2. Answered
    BY <1>1 DEF InRound, Waits, Stored
  <1> DEFINE a == [ins |-> reqId, word |-> board]
  <1>3. Parse(a) /\ pending' \subseteq pending \ {a}
    BY <1>1 DEF OnResponse, AnsweredAtOnce
  <1>4. /\ phase' = "request" /\ quiet' = quiet /\ board' = board /\ lastReq' = lastReq
        /\ sinceSend' = sinceSend /\ sinceRound' = sinceRound /\ pending' = {}
    BY <1>1, <1>3 DEF OnResponse, timers, AnsweredAtOnce
  <1>5. Matches(a) /\ a.ins = reqId /\ a.word = board /\ (Stores(a) <=> reqId = N)
    BY DEF Matches, Stores
  <1>6. /\ reqId' = NextReq(reqId)
        /\ known' = IF reqId = N THEN board ELSE known
        /\ Full(readyBits \cup {reqId}) \/ Changed(a) => topic' = known'
        /\ ~(Full(readyBits \cup {reqId}) \/ Changed(a)) =>
              topic' = topic /\ readyBits' = readyBits \cup {reqId}
    BY <1>3, <1>5 DEF Parse
  <1>7. CASE reqId = N
    <2>1. topic' = board
      <3>1. CASE topic = "none"
        <4>1. \A k \in Ins : k \in readyBits \cup {N}
          <5>1. \A k \in Ins : k < N \/ k = N
            BY DEF Ins
          <5> QED  BY <1>7, <3>1, <5>1 DEF InRound
        <4>2. readyBits \subseteq Ins /\ N \in Ins
          BY DEF PowerInv, TypeOK, Ins
        <4>3. Full(readyBits \cup {reqId})
          BY <1>7, <4>1, <4>2 DEF Full
        <4> QED  BY <1>6, <1>7, <4>3
      <3>2. CASE topic # "none"
        <4>1. topic = known
          BY <3>2 DEF TopicIsCurrent
        <4>2. Changed(a) <=> board # known
          BY <1>5, <1>7 DEF Changed
        <4> QED  BY <1>6, <1>7, <4>1, <4>2
      <3> QED  BY <3>1, <3>2
    <2> QED  BY <1>1, <1>4, <1>6, <1>7, <2>1 DEF Shown
  <1>8. CASE reqId # N
    <2>1. reqId' = reqId + 1 /\ reqId' \in Ins
      BY <1>1, <1>6, <1>8 DEF NextReq, Ins
    <2>2. Stored' /\ ~Answered'
      BY <1>1, <1>2, <1>4, <2>1 DEF Stored, Answered
    <2>3. ToReport = 2 * (N + 1 - reqId) - 1 /\ ToReport' = 2 * (N + 1 - reqId')
      BY <1>2, <2>2 DEF ToReport
    <2>4. ASSUME topic' = "none" PROVE \A k \in Ins : k < reqId' => k \in readyBits'
      <3>1. known' \in Switches /\ "none" \notin Switches
        BY <1>1, <1>6, <1>8 DEF PowerInv, TypeOK, Switches
      <3>2. topic = "none" /\ readyBits' = readyBits \cup {reqId}
        BY <1>6, <2>4, <3>1
      <3>3. \A k \in Ins : k < reqId + 1 => k < reqId \/ k = reqId
        BY <1>1 DEF Ins
      <3> QED  BY <2>1, <3>2, <3>3 DEF InRound
    <2>5. InRound'
      BY <1>1, <1>4, <2>1, <2>2, <2>4 DEF InRound
    <2> QED  BY <1>1, <2>1, <2>3, <2>5
  <1> QED  BY <1>7, <1>8

\* In a round that began in a quiet bus every step of the bus thread brings the
\* report nearer, and what was reported stays true.
LEMMA NearerToReport ==
  ASSUME PowerInv, AnsweredAtOnce, TopicIsCurrent, RoundIsLong, [PowerNext]_vars
  PROVE  /\ InRound => /\ ToReport \in Nat
                       /\ BusThread => Shown' \/ (InRound' /\ ToReport' < ToReport)
                       /\ ~BusThread => InRound' /\ ToReport' = ToReport
         /\ Shown => Shown'
  <1> USE PowerAssumption
  <1>1. ASSUME InRound PROVE ToReport \in Nat
    <2>1. reqId \in 1..N /\ sinceSend \in 1..Retry /\ N \in Nat /\ Retry \in Nat
      BY <1>1 DEF PowerInv, TypeOK, InRound, Ins
    <2> QED  BY <2>1 DEF ToReport
  <1>2. ASSUME InRound, OnNoResponse PROVE InRound' /\ ToReport' < ToReport
    <2>1. phase = "response" /\ pending = {} /\ quiet
      BY <1>2 DEF OnNoResponse, InRound
    <2>2. /\ phase' = "request" /\ quiet'
          /\ UNCHANGED <<reqId, lastReq, sinceRound, sinceSend, readyBits, topic, pending>>
      BY <1>2, <2>1 DEF OnNoResponse, timers, external
    <2>3. Waits /\ ~Answered /\ ~Stored
      BY <1>2, <2>1 DEF InRound, Answered, Stored
    <2>4. Waits' /\ ~Answered' /\ ~Stored'
      BY <2>2, <2>3 DEF Waits, Answered, Stored
    <2>5. N \in Int /\ Retry \in Int /\ sinceSend \in Int
      BY DEF PowerInv, TypeOK
    <2>6. /\ ToReport = 2 * (N + Retry - sinceSend) + 1
          /\ ToReport' = 2 * (N + Retry - sinceSend)
      BY <2>1, <2>2, <2>3, <2>4, <2>5 DEF ToReport
    <2>7. InRound'
      BY <1>2, <2>2, <2>4 DEF InRound
    <2> QED  BY <2>5, <2>6, <2>7
  <1>3. ASSUME InRound, ~BusThread PROVE InRound' /\ ToReport' = ToReport
    <2>1. UNCHANGED vars
      BY <1>3, QuietSteps DEF InRound
    <2>2. UNCHANGED <<phase, quiet, reqId, lastReq, sinceRound, sinceSend, readyBits, topic,
                      pending>>
      BY <2>1 DEF vars, timers, external
    <2>3. (Waits' <=> Waits) /\ (Stored' <=> Stored) /\ (Answered' <=> Answered)
      BY <2>2 DEF Waits, Stored, Answered
    <2> QED  BY <1>3, <2>2, <2>3 DEF InRound, ToReport
  <1>4. ASSUME Shown PROVE Shown'
    <2>1. CASE OnResponse
      <3>1. PICK a \in pending : Parse(a) /\ a = [ins |-> reqId, word |-> board]
        BY <1>4, <2>1 DEF OnResponse, AnsweredAtOnce, Shown
      <3>2. known' = board /\ topic' = board
        BY <1>4, <3>1 DEF Parse, Shown
      <3> QED  BY <1>4, <2>1, <3>2 DEF OnResponse, Shown
    <2>2. CASE ~OnResponse
      <3>1. OnRequest \/ OnNoResponse \/ UNCHANGED vars
        BY <1>4, <2>2, QuietSteps DEF BusThread, Shown
      <3> QED  BY <1>4, <3>1 DEF OnRequest, OnNoResponse, vars, external, Shown
    <2> QED  BY <2>1, <2>2
  <1> QED  BY <1>1, <1>2, <1>3, <1>4, RequestInRound, ResponseInRound DEF BusThread

\* The rule of descent on the natural numbers, for states: from P one comes to Q
\* if from P with R = n one comes to Q, or to P with a smaller R, for every n.
\* It holds of every behaviour; theorems take the instances they need of it.
Falls(P, Q, R, n) == (P /\ R = n) ~> (Q \/ (P /\ R < n))
ByDescent(P, Q, R) == [](P => R \in Nat) /\ (\A n \in Nat : Falls(P, Q, R, n)) => (P ~> Q)

LEMMA RoundFalls ==
  ASSUME []ENABLED <<BusThread>>_vars, NEW n \in Nat
  PROVE  PowerSpec => Falls(quiet, InRound, ToRound, n)
  <1> DEFINE Here == quiet /\ ToRound = n
             Gone == InRound \/ (quiet /\ ToRound < n)
  <1>1. PowerInv /\ PowerInv' /\ AnsweredAtOnce /\ AnsweredAtOnce' /\ Here
          /\ [PowerNext]_vars => Here' \/ Gone'
    <2> SUFFICES ASSUME PowerInv, PowerInv', AnsweredAtOnce, AnsweredAtOnce', Here,
                        [PowerNext]_vars
                 PROVE  Here' \/ Gone'
      OBVIOUS
    <2>1. InRound' \/ (quiet' /\ ToRound' <= n)
      BY NearerToRound
    <2>2. ToRound' \in Int
      BY PowerAssumption DEF ToRound, PowerInv, TypeOK
    <2> QED  BY <2>1, <2>2
  <1>2. PowerInv /\ AnsweredAtOnce /\ Here /\ [PowerNext]_vars /\ <<BusThread>>_vars => Gone'
    <2> SUFFICES ASSUME PowerInv, AnsweredAtOnce, Here, [PowerNext]_vars, BusThread
                 PROVE  Gone'
      OBVIOUS
    <2>1. InRound' \/ (quiet' /\ ToRound' < n)
      <3>1. quiet' \/ InRound'
        BY NearerToRound
      <3> QED  BY <3>1, NearerToRound
    <2> QED  BY <2>1
  <1> HIDE DEF Here, Gone
  <1>3. PowerSpec => (Here ~> Gone)
    BY <1>1, <1>2, PowerInvariant, AnsweredAtOnceAlways, PTL DEF PowerSpec
  <1> QED  BY <1>3 DEF Here, Gone, Falls

LEMMA ReportFalls ==
  ASSUME RoundIsLong, []ENABLED <<BusThread>>_vars, NEW n \in Nat
  PROVE  PowerSpec => Falls(InRound, Shown, ToReport, n)
  <1> DEFINE Here == InRound /\ ToReport = n
             Gone == Shown \/ (InRound /\ ToReport < n)
             Inv == PowerInv /\ AnsweredAtOnce /\ TopicIsCurrent
  <1>1. Inv /\ Here /\ [PowerNext]_vars => Here' \/ Gone'
    BY NearerToReport
  <1>2. Inv /\ Here /\ [PowerNext]_vars /\ <<BusThread>>_vars => Gone'
    BY NearerToReport
  <1>3. PowerSpec => []Inv
    BY PowerInvariant, AnsweredAtOnceAlways, TopicFollows, PTL
  <1> HIDE DEF Here, Gone, Inv
  <1>4. PowerSpec => (Here ~> Gone)
    BY <1>1, <1>2, <1>3, PTL DEF PowerSpec
  <1> QED  BY <1>4 DEF Here, Gone, Falls

\* Once the bus is quiet the topic shows the switches of the board at last and from
\* then on, for any number of instructions and any times that leave a round room
\* for its requests: the next round stores every answer, and its last either
\* changes the switches the driver knows, or completes the first status, or finds
\* them reported.  By the fairness of the bus thread, and descent to the next round
\* and along it.
THEOREM SwitchesAreReported ==
  ASSUME RoundIsLong, []ENABLED <<BusThread>>_vars
  PROVE  /\ ByDescent(quiet, InRound, ToRound)
         /\ ByDescent(InRound, Shown, ToReport)
         => (PowerSpec => SwitchesReported)
  <1> DEFINE Inv == PowerInv /\ AnsweredAtOnce /\ TopicIsCurrent
  <1>1. PowerSpec => \A n \in Nat : Falls(quiet, InRound, ToRound, n)
    BY RoundFalls
  <1>2. PowerSpec => \A n \in Nat : Falls(InRound, Shown, ToReport, n)
    BY ReportFalls
  <1>3. PowerInv => ToRound \in Nat
    BY PowerAssumption DEF ToRound, PowerInv, TypeOK
  <1>4. PowerInv /\ InRound => ToReport \in Nat
    <2>1. PowerInv /\ InRound => reqId \in 1..N /\ sinceSend \in 1..Retry
      BY DEF PowerInv, TypeOK, InRound, Ins
    <2> QED  BY <2>1, PowerAssumption DEF ToReport
  <1>5. Inv /\ [PowerNext]_vars => (Shown => Shown') /\ (quiet => quiet')
    <2>1. quiet /\ [PowerNext]_vars => quiet'
      BY QuietSteps DEF BusThread, OnRequest, OnResponse, OnNoResponse, vars, external
    <2> QED  BY <2>1, NearerToReport
  <1>6. Shown => (quiet => topic = board)
    BY DEF Shown
  <1>7. PowerSpec => []Inv
    BY PowerInvariant, AnsweredAtOnceAlways, TopicFollows, PTL
  <1> HIDE DEF Inv
  <1>8. /\ PowerSpec /\ ByDescent(quiet, InRound, ToRound) => (quiet ~> InRound)
        /\ PowerSpec /\ ByDescent(InRound, Shown, ToReport) => (InRound ~> Shown)
    BY <1>1, <1>2, <1>3, <1>4, PowerInvariant, PTL DEF ByDescent
  <1> QED  BY <1>5, <1>6, <1>7, <1>8, PTL DEF PowerSpec, SwitchesReported
=============================================================================
