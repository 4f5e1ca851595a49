------------------------- MODULE MotorDeviceProofs -------------------------
(***************************************************************************)
(* Proofs about MotorDevice for any limits, any zero offset and any        *)
(* commands: nothing but a stop goes out before the motor was heard of,    *)
(* no frame asks for a position beyond the limits, and the last command    *)
(* is the one that is obeyed at last.                                      *)
(***************************************************************************)
EXTENDS MotorDeviceProps, TLAPS

\* The limits are kept for every number.
LEMMA LimitInRaw == \A x \in Int : Limit(x) \in Raw
  BY MotorAssumption DEF Limit, Raw

\* The motor stays within its limits, and what it reports is a number.
LEMMA MovedInRaw ==
  ASSUME MotorTypeOK
  PROVE  Moved \in Raw /\ position - Offset \in Int
  <1>1. reqBuff.val \in Int
    BY DEF MotorTypeOK, Frames
  <1>2. Lim \in Nat /\ Offset \in Int
    BY MotorAssumption
  <1>3. real \in Int /\ position \in Int
    BY <1>2 DEF MotorTypeOK, Raw
  <1> QED  BY <1>1, <1>2, <1>3, LimitInRaw DEF Moved

\* A pushed frame becomes sendable, and no other.
LEMMA SendableAppend ==
  ASSUME NEW f \in Frames, reqQueue \in Seq(Frames), reqQueue' = Append(reqQueue, f),
         reqBuff' = reqBuff
  PROVE  Sendable' \subseteq Sendable \cup {f}
  BY DEF Sendable

\* Sending a frame makes none sendable.
LEMMA SendableHead ==
  ASSUME reqQueue \in Seq(Frames), OnRequest
  PROVE  Sendable' \subseteq Sendable /\ reqQueue' \in Seq(Frames) /\ reqBuff' \in Sendable
  <1>1. CASE reqQueue = <<>>
    BY <1>1 DEF OnRequest, Sendable
  <1>2. CASE reqQueue # <<>>
    <2>1. /\ reqBuff' = reqQueue[1] /\ reqQueue' = Tail(reqQueue)
          /\ Len(reqQueue) \in Nat \ {0}
      BY <1>2 DEF OnRequest
    <2>2. reqQueue' \in Seq(Frames) /\ Len(reqQueue') = Len(reqQueue) - 1
      BY <1>2, <2>1
    <2>3. \A i \in 1..Len(reqQueue') : reqQueue'[i] = reqQueue[i + 1] /\ i + 1 \in 1..Len(reqQueue)
      BY <1>2, <2>1, <2>2
    <2> QED  BY <2>1, <2>2, <2>3 DEF Sendable
  <1> QED  BY <1>1, <1>2

\* Every frame a handler pushes is well-formed and within the limits, and the
\* handler has seen the motor ready.
LEMMA CommandFrame ==
  ASSUME MotorTypeOK, Commands
  PROVE  \E f \in Frames :
           /\ f.kind = "position" => f.val \in Raw
           /\ reqQueue' = Append(reqQueue, f)
           /\ node = "RUNNING" /\ ready
           /\ goal' \in Int /\ last' \in {"position", "distance", "speed"}
           /\ UNCHANGED <<node, reqBuff, phase, answered, position, heard, ready, report,
                          real, quiet>>
  <1> USE MotorAssumption
  <1>1. goal \in Int /\ position \in Int /\ Offset \in Int
    BY DEF MotorTypeOK, Raw
  <1>2. \A x \in Int : Limit(x) \in Raw /\ Limit(x) \in Int /\ Limit(x) - Offset \in Int
    BY <1>1, LimitInRaw DEF Raw
  <1>3. CASE SetMotorPosition
    <2> PICK pos \in Positions :
          PushFrame([kind |-> "position", val |-> Target(pos)], "position",
                    Limit(pos + Offset) - Offset)
      BY <1>3 DEF SetMotorPosition
    <2>1. pos + Offset \in Int
      BY <1>1
    <2> DEFINE f == [kind |-> "position", val |-> Target(pos)]
    <2>2. f \in Frames /\ f.val \in Raw
      BY <1>2, <2>1 DEF Frames, Target
    <2> QED  BY <1>2, <2>1, <2>2 DEF PushFrame, Accepts
  <1>4. CASE SetMotorDistance
    <2> PICK d \in Distances :
          PushFrame([kind |-> "position", val |-> Target(position + d)], "distance",
                    Limit(position + d) - Offset)
      BY <1>4 DEF SetMotorDistance
    <2>1. position + d \in Int /\ position + d + Offset \in Int
      BY <1>1
    <2> DEFINE f == [kind |-> "position", val |-> Target(position + d)]
    <2>2. f \in Frames /\ f.val \in Raw
      BY <1>2, <2>1 DEF Frames, Target
    <2> QED  BY <1>2, <2>1, <2>2 DEF PushFrame, Accepts
  <1>5. CASE SetMotorSpeed
    <2> PICK v \in {-1, 0, 1} : PushFrame([kind |-> "speed", val |-> v], "speed", goal)
      BY <1>5 DEF SetMotorSpeed
    <2>1. [kind |-> "speed", val |-> v] \in Frames
      BY DEF Frames
    <2> QED  BY <1>1, <2>1 DEF PushFrame, Accepts
  <1> QED  BY <1>3, <1>4, <1>5 DEF Commands

\* The device starts with a stop.
LEMMA MotorInvInit == MotorInit => MotorInv
  <1> SUFFICES ASSUME MotorInit PROVE MotorInv
    OBVIOUS
  <1>1. Sendable = {Stop} /\ Stop \in Frames
    BY DEF MotorInit, Sendable, Stop, Frames
  <1>2. answered \in BOOLEAN /\ heard \in BOOLEAN /\ ready \in BOOLEAN /\ quiet \in BOOLEAN
    BY Zenon DEF MotorInit
  <1>3. MotorTypeOK
    BY <1>1, <1>2 DEF MotorInit, MotorTypeOK
  <1>4. ~ready /\ phase # "flag"
    BY DEF MotorInit
  <1>5. StopsUntilHeard /\ WithinLimits
    BY <1>1, <1>4 DEF StopsUntilHeard, WithinLimits, Stop
  <1> QED  BY <1>3, <1>5 DEF MotorInv

\* The steps that leave the frames alone or only send them.
LEMMA MotorInvBus ==
  MotorInv /\ (NodeRuns \/ Bus \/ BecomesQuiet \/ UNCHANGED vars) => MotorInv'
  <1> SUFFICES ASSUME MotorTypeOK, StopsUntilHeard, WithinLimits,
                      NodeRuns \/ Bus \/ BecomesQuiet \/ UNCHANGED vars
               PROVE  MotorTypeOK' /\ StopsUntilHeard' /\ WithinLimits'
    BY DEF MotorInv
  <1> USE DEF NodeRuns, Bus, Exchange, Miss, Store, Flag, BecomesQuiet, vars, history
  <1>1. Sendable' \subseteq Sendable /\ reqQueue' \in Seq(Frames) /\ reqBuff' \in Frames
    <2>1. CASE OnRequest
      BY <2>1, SendableHead DEF MotorTypeOK, Sendable
    <2>2. CASE ~OnRequest
      BY <2>2 DEF MotorTypeOK, Sendable
    <2> QED  BY <2>1, <2>2
  <1>2. answered' \in BOOLEAN
    BY DEF MotorTypeOK, OnRequest
  <1>3. heard' \in BOOLEAN /\ ready' \in BOOLEAN /\ quiet' \in BOOLEAN
    BY DEF MotorTypeOK, OnRequest
  <1>4. position' \in Raw /\ real' \in Raw
    BY MovedInRaw DEF MotorTypeOK, OnRequest
  <1>5. report' \in Int
    BY MovedInRaw DEF MotorTypeOK, OnRequest
  <1>6. MotorTypeOK'
    BY <1>1, <1>2, <1>3, <1>4, <1>5 DEF MotorTypeOK, OnRequest
  <1>7. phase' = "flag" \/ ready' => heard'
    BY DEF MotorTypeOK, StopsUntilHeard, OnRequest
  <1>8. (node = "RUNNING" => node' = "RUNNING") /\ (ready => ready')
    <2>1. node = "RUNNING" => node' = "RUNNING"
      BY DEF OnRequest
    <2>2. ready' = TRUE \/ ready' = ready
      BY DEF OnRequest
    <2>3. ready => ready'
      BY <2>2, Zenon
    <2> QED  BY <2>1, <2>3
  <1>9. StopsUntilHeard'
    BY <1>1, <1>7, <1>8 DEF StopsUntilHeard, Stop
  <1>10. WithinLimits'
    BY <1>1 DEF WithinLimits, Raw
  <1> QED  BY <1>6, <1>9, <1>10

\* The handlers push frames only after their tests.
LEMMA MotorInvCommands == MotorInv /\ Commands => MotorInv'
  <1> SUFFICES ASSUME MotorTypeOK, StopsUntilHeard, WithinLimits, Commands
               PROVE  MotorTypeOK' /\ StopsUntilHeard' /\ WithinLimits'
    BY DEF MotorInv
  <1> PICK f \in Frames :
        /\ f.kind = "position" => f.val \in Raw
        /\ reqQueue' = Append(reqQueue, f)
        /\ node = "RUNNING" /\ ready
        /\ goal' \in Int /\ last' \in {"position", "distance", "speed"}
        /\ UNCHANGED <<node, reqBuff, phase, answered, position, heard, ready, report,
                       real, quiet>>
    BY CommandFrame
  <1>1. Sendable' \subseteq Sendable \cup {f} /\ reqQueue' \in Seq(Frames)
    BY SendableAppend DEF MotorTypeOK
  <1>2. MotorTypeOK'
    BY <1>1 DEF MotorTypeOK
  <1>3. StopsUntilHeard'
    BY <1>1 DEF StopsUntilHeard, Stop
  <1>4. WithinLimits'
    BY <1>1 DEF WithinLimits, Raw
  <1> QED  BY <1>2, <1>3, <1>4

\* Nothing but a stop goes out before the motor was heard of, and no frame
\* asks for a position beyond the limits.
THEOREM MotorInvariant == MotorSpec => []MotorInv
  <1>1. MotorInv /\ [MotorNext]_vars => MotorInv'
    BY MotorInvBus, MotorInvCommands DEF MotorNext
  <1> QED  BY MotorInvInit, <1>1, PTL DEF MotorSpec

-----------------------------------------------------------------------------
(* The motor gets where it was sent *)

\* The last frame to be sent takes the motor where the last command was to take
\* it: the zero offset is added once, and commands do not overtake each other.
LastFrame == IF reqQueue = <<>> THEN reqBuff ELSE reqQueue[Len(reqQueue)]
LastCommandPrevails ==
    last = "position" => LastFrame = [kind |-> "position", val |-> goal + Offset]

LEMMA PrevailsAfterCommand == MotorInv /\ Commands => LastCommandPrevails'
  <1> SUFFICES ASSUME MotorInv, Commands, last' = "position"
               PROVE  LastFrame' = [kind |-> "position", val |-> goal' + Offset]
    BY DEF LastCommandPrevails
  <1>1. PICK pos \in Positions :
          PushFrame([kind |-> "position", val |-> Target(pos)], "position",
                    Limit(pos + Offset) - Offset)
    BY DEF Commands, SetMotorPosition, SetMotorDistance, SetMotorSpeed, PushFrame
  <1>2. Limit(pos + Offset) \in Int /\ Offset \in Int
    BY MotorAssumption, LimitInRaw DEF Raw
  <1> DEFINE f == [kind |-> "position", val |-> Target(pos)]
  <1>3. reqQueue \in Seq(Frames) /\ reqQueue' = Append(reqQueue, f)
    BY <1>1 DEF PushFrame, MotorInv, MotorTypeOK
  <1>4. f \in Frames
    BY <1>2 DEF Target, Frames
  <1> HIDE DEF f
  <1>5. LastFrame' = f
    BY <1>3, <1>4 DEF LastFrame
  <1>6. goal' + Offset = Target(pos)
    BY <1>1, <1>2 DEF PushFrame, Target
  <1> QED  BY <1>5, <1>6 DEF f

LEMMA PrevailsOtherwise ==
  MotorInv /\ LastCommandPrevails /\ (NodeRuns \/ Bus \/ BecomesQuiet \/ UNCHANGED vars) =>
      LastCommandPrevails'
  <1> SUFFICES ASSUME MotorInv, LastCommandPrevails,
                      NodeRuns \/ Bus \/ BecomesQuiet \/ UNCHANGED vars
               PROVE  LastCommandPrevails'
    OBVIOUS
  <1>1. UNCHANGED <<goal, last>>
    BY DEF NodeRuns, Bus, OnRequest, Exchange, Miss, Store, Flag, BecomesQuiet, vars, history
  <1>2. CASE OnRequest /\ reqQueue # <<>>
    <2>1. /\ reqQueue \in Seq(Frames) /\ Len(reqQueue) \in Nat \ {0}
          /\ reqBuff' = reqQueue[1] /\ reqQueue' = Tail(reqQueue)
      BY <1>2 DEF OnRequest, MotorInv, MotorTypeOK
    <2>2. /\ reqQueue' = <<>> <=> Len(reqQueue) = 1
          /\ Len(reqQueue') = Len(reqQueue) - 1
      <3>1. reqQueue' \in Seq(Frames) /\ Len(reqQueue') = Len(reqQueue) - 1
        BY <1>2, <2>1
      <3>2. \A s \in Seq(Frames) : s = <<>> <=> Len(s) = 0
        OBVIOUS
      <3>3. Len(reqQueue) - 1 = 0 <=> Len(reqQueue) = 1
        BY <2>1
      <3> QED  BY <3>1, <3>2, <3>3
    <2>3. Len(reqQueue) # 1 => reqQueue'[Len(reqQueue')] = reqQueue[Len(reqQueue)]
      BY <1>2, <2>1, <2>2
    <2>4. LastFrame' = LastFrame
      BY <1>2, <2>1, <2>2, <2>3 DEF LastFrame
    <2> QED  BY <1>1, <2>4 DEF LastCommandPrevails
  <1>3. CASE ~(OnRequest /\ reqQueue # <<>>)
    <2>1. UNCHANGED <<reqQueue, reqBuff>>
      BY <1>3 DEF NodeRuns, Bus, OnRequest, Exchange, Miss, Store, Flag, BecomesQuiet, vars
    <2> QED  BY <1>1, <2>1 DEF LastCommandPrevails, LastFrame
  <1> QED  BY <1>2, <1>3

\* The last of the frames on their way is that of the last command, whatever
\* is lost and whoever commands when.
THEOREM LastCommand == MotorSpec => []LastCommandPrevails
  <1>1. MotorInit => LastCommandPrevails
    BY DEF MotorInit, LastCommandPrevails
  <1>2. MotorInv /\ LastCommandPrevails /\ [MotorNext]_vars => LastCommandPrevails'
    BY PrevailsAfterCommand, PrevailsOtherwise DEF MotorNext
  <1> QED  BY MotorInvariant, <1>1, <1>2, PTL DEF MotorSpec

\* The stations of a motor that was sent to a position and is left in peace: the
\* frame was sent, the motor is there, and this was reported.
Sent == quiet /\ last = "position"
Heading == Sent /\ reqQueue = <<>>
There == Heading /\ real = goal + Offset
Told == There /\ position = goal + Offset /\ report = goal

\* The steps of the bus thread to the next station.
ToHeading ==
    4 * Len(reqQueue) + (CASE phase = "exchange" -> 3 [] phase = "response" -> 2
                           [] phase = "flag" -> 1     [] OTHER -> 0)
ToThere ==
    4 * (IF real < goal + Offset THEN goal + Offset - real ELSE real - (goal + Offset))
      + (CASE phase = "response" -> 3 [] phase = "flag" -> 2
           [] phase = "request" -> 1  [] OTHER -> 0)
ToTold ==
    IF position = goal + Offset
    THEN CASE phase = "flag" -> 1    [] phase = "response" /\ answered -> 2
           [] phase = "exchange" -> 3 [] phase = "request" -> 4 [] OTHER -> 5
    ELSE CASE phase = "response" /\ answered -> 6 [] phase = "exchange" -> 7
           [] phase = "request" -> 8 [] OTHER -> 9

\* Left in peace, the motor passes one station after the other.
LEMMA StationSteps ==
  ASSUME MotorInv, LastCommandPrevails, Sent, Bus
  PROVE  /\ Sent' /\ (Heading => Heading') /\ (There => There') /\ (Told => Told')
         /\ Heading' \/ ToHeading' < ToHeading
         /\ Heading => There' \/ ToThere' < ToThere
         /\ There => Told' \/ ToTold' < ToTold
  <1>1. /\ Lim \in Nat /\ Offset \in Int /\ goal \in Int /\ real \in Int /\ position \in Int
        /\ reqQueue \in Seq(Frames) /\ phase \in {"request", "exchange", "response", "flag"}
        /\ -Lim <= real /\ real <= Lim
    BY MotorAssumption DEF MotorInv, MotorTypeOK, Raw
  <1>2. quiet /\ last = "position" /\ UNCHANGED <<quiet, goal, last>>
    BY DEF Sent, Bus, OnRequest, Exchange, Miss, Store, Flag, history
  <1>3. Heading => reqBuff.kind = "position" /\ reqBuff.val = goal + Offset
    BY DEF Heading, Sent, LastCommandPrevails, LastFrame
  <1>4. Heading => -Lim <= goal + Offset /\ goal + Offset <= Lim
    BY <1>3 DEF MotorInv, WithinLimits, Sendable, Raw
  <1>5. CASE OnRequest
    <2>1. /\ phase = "request" /\ phase' = "exchange" 
          /\ UNCHANGED <<answered, position, report, real>>
          /\ reqQueue = <<>> => reqQueue' = <<>>
          /\ reqQueue # <<>> => Len(reqQueue') = Len(reqQueue) - 1
      BY <1>1, <1>5 DEF OnRequest
    <2>2. Len(reqQueue) \in Nat /\ Len(reqQueue') \in Int
      BY <1>1, <2>1
    <2>3. ToHeading' < ToHeading \/ Heading'
      BY <1>2, <2>1, <2>2 DEF ToHeading, Heading, Sent
    <2>4. ToThere' < ToThere
      BY <1>1, <1>2, <2>1 DEF ToThere
    <2>5. ToTold' < ToTold
      BY <1>1, <1>2, <2>1 DEF ToTold
    <2> QED  BY <1>2, <2>1, <2>3, <2>4, <2>5 DEF Sent, Heading, There, Told
  <1>6. CASE Exchange
    <2>1. /\ phase = "exchange" /\ phase' = "response" /\ answered' /\ real' = Moved
          /\ UNCHANGED <<reqQueue, reqBuff, position, report>>
      BY <1>2, <1>6 DEF Exchange
    <2>2. ToHeading' < ToHeading
      BY <1>1, <2>1 DEF ToHeading
    <2>3. Heading => real' = IF real < goal + Offset THEN real + 1
                             ELSE IF real > goal + Offset THEN real - 1 ELSE real
      BY <1>1, <1>3, <1>4, <2>1 DEF Moved, Limit
    <2>4. Heading => There' \/ ToThere' < ToThere
      BY <1>1, <1>2, <2>1, <2>3 DEF ToThere, There, Heading, Sent
    <2>5. ToTold' < ToTold
      BY <1>1, <1>2, <2>1 DEF ToTold
    <2>6. There => real' = real
      BY <1>1, <2>3 DEF There
    <2> QED  BY <1>2, <2>1, <2>2, <2>4, <2>5, <2>6 DEF Sent, Heading, There, Told
  <1>7. CASE Miss \/ Store
    <2>1. /\ phase = "response" /\ UNCHANGED <<reqQueue, reqBuff, answered, report, real>>
          /\ \/ ~answered /\ phase' = "request" /\ position' = position
             \/ answered /\ phase' = "flag" /\ position' = real
      BY <1>7 DEF Miss, Store
    <2>2. ToHeading' < ToHeading
      BY <1>1, <2>1 DEF ToHeading
    <2>3. ToThere' < ToThere
      BY <1>1, <1>2, <2>1 DEF ToThere
    <2>4. There => ToTold' < ToTold
      BY <1>1, <1>2, <2>1 DEF ToTold, There
    <2> QED  BY <1>2, <2>1, <2>2, <2>3, <2>4 DEF Sent, Heading, There, Told
  <1>8. CASE Flag
    <2>1. /\ phase = "flag" /\ phase' = "request" /\ report' = position - Offset
          /\ UNCHANGED <<reqQueue, reqBuff, answered, position, real>>
      BY <1>8 DEF Flag
    <2>2. ToHeading' < ToHeading
      BY <1>1, <2>1 DEF ToHeading
    <2>3. ToThere' < ToThere
      BY <1>1, <1>2, <2>1 DEF ToThere
    <2>4. position = goal + Offset => report' = goal
      BY <1>1, <2>1
    <2>5. There => Told' \/ ToTold' < ToTold
      BY <1>1, <1>2, <2>1, <2>4 DEF ToTold, There, Heading, Sent, Told
    <2> QED  BY <1>2, <2>1, <2>2, <2>3, <2>4, <2>5 DEF Sent, Heading, There, Told
  <1> QED  BY <1>5, <1>6, <1>7, <1>8 DEF Bus

\* The ranks are numbers as long as they are needed.
LEMMA RanksAreNat ==
  MotorInv => ToHeading \in Nat /\ ToThere \in Nat /\ ToTold \in Nat
  <1> SUFFICES ASSUME MotorInv PROVE ToHeading \in Nat /\ ToThere \in Nat /\ ToTold \in Nat
    OBVIOUS
  <1>1. goal + Offset \in Int /\ real \in Int /\ Len(reqQueue) \in Nat
        /\ goal \in Int /\ Offset \in Int
    BY MotorAssumption DEF MotorInv, MotorTypeOK, Raw
  <1>2. ToHeading \in Nat
    BY <1>1 DEF ToHeading
  <1>3. ToThere \in Nat
    <2> DEFINE way == IF real < goal + Offset THEN goal + Offset - real ELSE real - (goal + Offset)
               rest == CASE phase = "response" -> 3 [] phase = "flag" -> 2
                         [] phase = "request" -> 1  [] OTHER -> 0
    <2>1. way \in Nat
      <3>1. \A a, b \in Int : (IF a < b THEN b - a ELSE a - b) \in Nat
        OBVIOUS
      <3> QED  BY <1>1, <3>1
    <2>0. rest \in Nat
      OBVIOUS
    <2>2. ToThere = 4 * way + rest
      BY DEF ToThere
    <2> HIDE DEF way, rest
    <2> QED  BY <2>0, <2>1, <2>2
  <1>4. ToTold \in Nat
    BY <1>1 DEF ToTold
  <1> QED  BY <1>2, <1>3, <1>4

\* No other step changes what the ranks look at.
LEMMA OthersWait ==
  ASSUME Sent, [MotorNext]_vars, ~Bus
  PROVE  UNCHANGED <<reqQueue, reqBuff, phase, answered, position, report, goal, last, real, quiet>>
  BY DEF Sent, MotorNext, NodeRuns, Commands, SetMotorPosition, SetMotorDistance, SetMotorSpeed,
         PushFrame, BecomesQuiet, vars, history

\* The rule of descent on the natural numbers, for states: from P one comes to Q
\* if from P with R = n one comes to Q, or to P with a smaller R, for every n.
\* It holds of every behaviour; theorems take the instances they need of it.
Falls(P, Q, R, n) == (P /\ R = n) ~> (Q \/ (P /\ R < n))
ByDescent(P, Q, R) == [](P => R \in Nat) /\ (\A n \in Nat : Falls(P, Q, R, n)) => (P ~> Q)

\* From every station one comes nearer to the next, by the fairness of the bus thread.
LEMMA NearerToHeading ==
  ASSUME [](phase \in {"request", "exchange", "response", "flag"} => ENABLED <<Bus>>_vars),
         NEW n \in Nat
  PROVE  MotorSpec => Falls(Sent, Heading, ToHeading, n)
  <1> DEFINE Here == Sent /\ ToHeading = n
             Gone == Heading \/ (Sent /\ ToHeading < n)
  <1>1. MotorInv /\ LastCommandPrevails /\ Here /\ [MotorNext]_vars => Here' \/ Gone'
    BY StationSteps, OthersWait DEF Sent, ToHeading
  <1>2. MotorInv /\ LastCommandPrevails /\ Here /\ [MotorNext]_vars /\ <<Bus>>_vars => Gone'
    BY StationSteps
  <1>3. MotorInv => phase \in {"request", "exchange", "response", "flag"}
    BY DEF MotorInv, MotorTypeOK
  <1> HIDE DEF Here, Gone
  <1>4. MotorSpec => (Here ~> Gone)
    BY <1>1, <1>2, <1>3, MotorInvariant, LastCommand, PTL DEF MotorSpec
  <1> QED  BY <1>4 DEF Here, Gone, Falls

LEMMA NearerToThere ==
  ASSUME [](phase \in {"request", "exchange", "response", "flag"} => ENABLED <<Bus>>_vars),
         NEW n \in Nat
  PROVE  MotorSpec => Falls(Heading, There, ToThere, n)
  <1> DEFINE Here == Heading /\ ToThere = n
             Gone == There \/ (Heading /\ ToThere < n)
  <1>1. MotorInv /\ LastCommandPrevails /\ Here /\ [MotorNext]_vars => Here' \/ Gone'
    <2>1. Heading /\ [MotorNext]_vars /\ ~Bus => Heading' /\ ToThere' = ToThere
      BY OthersWait DEF Heading, Sent, ToThere
    <2>2. Heading => Sent
      BY DEF Heading
    <2>3. MotorInv /\ LastCommandPrevails /\ Heading /\ Bus =>
              Heading' /\ (There' \/ ToThere' < ToThere)
      BY <2>2, StationSteps
    <2> QED  BY <2>1, <2>3
  <1>2. MotorInv /\ LastCommandPrevails /\ Here /\ [MotorNext]_vars /\ <<Bus>>_vars => Gone'
    BY StationSteps DEF Heading
  <1>3. MotorInv => phase \in {"request", "exchange", "response", "flag"}
    BY DEF MotorInv, MotorTypeOK
  <1> HIDE DEF Here, Gone
  <1>4. MotorSpec => (Here ~> Gone)
    BY <1>1, <1>2, <1>3, MotorInvariant, LastCommand, PTL DEF MotorSpec
  <1> QED  BY <1>4 DEF Here, Gone, Falls

LEMMA NearerToTold ==
  ASSUME [](phase \in {"request", "exchange", "response", "flag"} => ENABLED <<Bus>>_vars),
         NEW n \in Nat
  PROVE  MotorSpec => Falls(There, Told, ToTold, n)
  <1> DEFINE Here == There /\ ToTold = n
             Gone == Told \/ (There /\ ToTold < n)
  <1>1. MotorInv /\ LastCommandPrevails /\ Here /\ [MotorNext]_vars => Here' \/ Gone'
    <2>1. There /\ [MotorNext]_vars /\ ~Bus => There' /\ ToTold' = ToTold
      <3> SUFFICES ASSUME There, [MotorNext]_vars, ~Bus PROVE There' /\ ToTold' = ToTold
        OBVIOUS
      <3>1. UNCHANGED <<reqQueue, phase, answered, position, goal, last, real, quiet>>
        BY OthersWait DEF There, Heading
      <3>2. There'
        BY <3>1 DEF There, Heading, Sent
      <3>3. ToTold' = ToTold
        BY <3>1, Zenon DEF ToTold
      <3> QED  BY <3>2, <3>3
    <2>2. There => Sent
      BY DEF There, Heading
    <2>3. MotorInv /\ LastCommandPrevails /\ There /\ Bus => There' /\ (Told' \/ ToTold' < ToTold)
      BY <2>2, StationSteps
    <2> QED  BY <2>1, <2>3
  <1>2. MotorInv /\ LastCommandPrevails /\ Here /\ [MotorNext]_vars /\ <<Bus>>_vars => Gone'
    BY StationSteps DEF There, Heading
  <1>3. MotorInv => phase \in {"request", "exchange", "response", "flag"}
    BY DEF MotorInv, MotorTypeOK
  <1> HIDE DEF Here, Gone
  <1>4. MotorSpec => (Here ~> Gone)
    BY <1>1, <1>2, <1>3, MotorInvariant, LastCommand, PTL DEF MotorSpec
  <1> QED  BY <1>4 DEF Here, Gone, Falls

\* A motor sent to a position and left in peace reports that position at last and
\* for ever after, for any limits, zero offset and commands given before.  By
\* descent, station after station, and the fairness of the bus thread; the
\* hypotheses say when fairness applies, and are the instances of the rule.
THEOREM MotorGetsThere ==
  ASSUME [](phase \in {"request", "exchange", "response", "flag"} => ENABLED <<Bus>>_vars)
  PROVE  /\ ByDescent(Sent, Heading, ToHeading)
         /\ ByDescent(Heading, There, ToThere)
         /\ ByDescent(There, Told, ToTold)
         => (MotorSpec => PositionReached)
  <1>1. MotorSpec => \A n \in Nat : Falls(Sent, Heading, ToHeading, n)
    BY NearerToHeading
  <1>2. MotorSpec => \A n \in Nat : Falls(Heading, There, ToThere, n)
    BY NearerToThere
  <1>3. MotorSpec => \A n \in Nat : Falls(There, Told, ToTold, n)
    BY NearerToTold
  <1>4. /\ MotorSpec /\ ByDescent(Sent, Heading, ToHeading) => (Sent ~> Heading)
        /\ MotorSpec /\ ByDescent(Heading, There, ToThere) => (Heading ~> There)
        /\ MotorSpec /\ ByDescent(There, Told, ToTold) => (There ~> Told)
    BY <1>1, <1>2, <1>3, RanksAreNat, MotorInvariant, PTL DEF ByDescent
  <1>5. MotorInv /\ LastCommandPrevails /\ Told /\ [MotorNext]_vars => Told'
    BY StationSteps, OthersWait DEF Told, There, Heading, Sent
  <1>6. quiet /\ [MotorNext]_vars => quiet' /\ last' = last
    BY DEF MotorNext, NodeRuns, Commands, SetMotorPosition, SetMotorDistance, SetMotorSpeed,
           PushFrame, Bus, OnRequest, Exchange, Miss, Store, Flag, BecomesQuiet, vars, history
  <1> DEFINE Else == quiet /\ last # "position"
             Fine == quiet /\ last = "position" => report = goal
  <1>7. (quiet => Sent \/ Else) /\ (Told => Fine) /\ (Else => Fine) /\ (~quiet => Fine)
    BY DEF Sent, Told, There, Heading
  <1>8. Else /\ [MotorNext]_vars => Else'
    BY <1>6
  <1>9. quiet /\ [MotorNext]_vars => quiet'
    BY <1>6
  <1> HIDE DEF Else, Fine
  <1>10. MotorSpec => /\ [](Told => []Told) /\ [](Else => []Else)
    BY <1>5, <1>8, MotorInvariant, LastCommand, PTL DEF MotorSpec
  <1>11. MotorSpec /\ ByDescent(Sent, Heading, ToHeading) /\ ByDescent(Heading, There, ToThere)
           /\ ByDescent(There, Told, ToTold) => <>[]Fine
    BY <1>4, <1>7, <1>10, PTL
  <1> QED  BY <1>11, PTL DEF Fine, PositionReached
=============================================================================
