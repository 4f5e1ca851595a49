-------------------------- MODULE CanOpenMotorProofs --------------------------
(***************************************************************************)
(* Proofs about a CANopen motor, for any positions, speeds and queue, and  *)
(* any loss, delay or fault: the drive is never on in another mode, a      *)
(* start in time leaves it where it stands, and a motor that is on and     *)
(* left in peace goes where it was sent.                                   *)
(***************************************************************************)
EXTENDS CanOpenMotorProps, SequenceTheorems, WellFoundedInduction, TLAPS

\* What the three kinds have in common.
LEMMA KindFacts ==
  ASSUME kind \in Kinds
  PROVE  /\ kind.mode \in {8, 10} /\ kind.off \in {33, 49}
         /\ kind.shared \in BOOLEAN /\ kind.eyou \in BOOLEAN
         /\ Position => kind.modeLoop \in {ZeroErrPosition.modeLoop, EyouPosition.modeLoop}
         /\ ~Position => kind.modeLoop = ZeroErrTorque.modeLoop
         /\ Len(kind.modeLoop) \in {3, 4, 5}
  <1>1. kind \in {ZeroErrPosition, ZeroErrTorque, EyouPosition}
    BY MotorAssumption
  <1>2. CASE kind = ZeroErrPosition
    BY <1>2 DEF ZeroErrPosition, Position
  <1>3. CASE kind = ZeroErrTorque
    BY <1>3 DEF ZeroErrTorque, Position
  <1>4. CASE kind = EyouPosition
    BY <1>4 DEF EyouPosition, Position
  <1> QED  BY <1>1, <1>2, <1>3, <1>4

\* The rest of a sequence is the sequence one place on.
LEMMA TailFacts ==
  ASSUME NEW S, NEW s \in Seq(S), s # <<>>
  PROVE  /\ Head(s) \in S /\ Head(s) = s[1] /\ 1 \in 1..Len(s)
         /\ Tail(s) \in Seq(S) /\ Len(Tail(s)) = Len(s) - 1
         /\ \A i \in 1..Len(Tail(s)) : i + 1 \in 1..Len(s) /\ Tail(s)[i] = s[i + 1]
  <1>1. Len(s) \in Nat \ {0} /\ Tail(s) \in Seq(S) /\ Len(Tail(s)) = Len(s) - 1
    OBVIOUS
  <1>2. Head(s) = s[1] /\ 1 \in 1..Len(s) /\ s[1] \in S
    BY <1>1
  <1>3. \A i \in 1..Len(Tail(s)) : i + 1 \in 1..Len(s) /\ Tail(s)[i] = s[i + 1]
    BY <1>1
  <1> QED  BY <1>1, <1>2, <1>3

\* A sequence followed by at most one element.
LEMMA OneMore ==
  ASSUME NEW S, NEW s \in Seq(S), NEW t, t = <<>> \/ \E e \in S : t = <<e>>
  PROVE  /\ s \o t \in Seq(S)
         /\ t = <<>> => s \o t = s
         /\ t # <<>> => /\ Len(s \o t) = Len(s) + 1
                        /\ (s \o t)[Len(s) + 1] = t[1]
                        /\ \A i \in 1..Len(s) : (s \o t)[i] = s[i]
  <1>1. t \in Seq(S) /\ (t # <<>> => Len(t) = 1)
    <2>1. CASE t = <<>>
      BY <2>1
    <2>2. ASSUME NEW e \in S, t = <<e>> PROVE t \in Seq(S) /\ Len(t) = 1
      BY <2>2
    <2> QED  BY <2>1, <2>2
  <1>2. s \o t \in Seq(S) /\ (t = <<>> => s \o t = s)
    BY <1>1
  <1>3. ASSUME t # <<>>
        PROVE  /\ Len(s \o t) = Len(s) + 1
               /\ (s \o t)[Len(s) + 1] = t[1]
               /\ \A i \in 1..Len(s) : (s \o t)[i] = s[i]
    BY <1>1, <1>3, ConcatProperties
  <1> QED  BY <1>2, <1>3

\* Sequences of at most one element.
LEMMA ShortSequences ==
  ASSUME NEW S
  PROVE  /\ <<>> \in Seq(S) /\ Len(<<>>) = 0
         /\ \A x \in S : /\ <<x>> \in Seq(S) /\ Len(<<x>>) = 1 /\ <<x>>[1] = x
                         /\ <<x>> # <<>> /\ Head(<<x>>) = x /\ Tail(<<x>>) = <<>>
         /\ \A s \in Seq(S) : /\ Len(s) = 0 => s = <<>>
                              /\ Len(s) = 1 => s[1] \in S /\ s = <<s[1]>>
  <1>1. <<>> \in Seq(S) /\ Len(<<>>) = 0
    OBVIOUS
  <1>2. ASSUME NEW x \in S
        PROVE  /\ <<x>> \in Seq(S) /\ Len(<<x>>) = 1 /\ <<x>>[1] = x
               /\ <<x>> # <<>> /\ Head(<<x>>) = x /\ Tail(<<x>>) = <<>>
    OBVIOUS
  <1>3. ASSUME NEW s \in Seq(S), Len(s) = 0 PROVE s = <<>>
    BY <1>1, <1>3, EmptySeq
  <1>4. ASSUME NEW s \in Seq(S), Len(s) = 1 PROVE s[1] \in S /\ s = <<s[1]>>
    <2>1. s[1] \in S
      BY <1>4, ElementOfSeq
    <2>2. <<s[1]>> \in Seq(S) /\ Len(<<s[1]>>) = 1 /\ <<s[1]>>[1] = s[1]
      BY <1>2, <2>1
    <2>3. \A i \in 1..Len(s) : s[i] = <<s[1]>>[i]
      BY <1>4, <2>2
    <2> QED  BY <1>4, <2>1, <2>2, <2>3, SeqEqual
  <1> QED  BY <1>1, <1>2, <1>3, <1>4

-----------------------------------------------------------------------------
(* The initial states *)

LEMMA InitCanInv == Init => CanInv
  <1> SUFFICES ASSUME Init PROVE CanInv
    OBVIOUS
  <1> USE MotorAssumption
  <1>1. kind \in Kinds
    BY DEF Init
  <1>2. stage = "none" /\ ~InLoop /\ step = 1 /\ reqQueue = <<>> /\ answers = <<>>
    BY DEF Init, InLoop, Loops
  <1>3. /\ info = [DriverEnable |-> 3, DriverMode |-> 0, ReceivePos |-> 0, RatedCurrent |-> 0]
        /\ input = Nothing /\ statusReady = {} /\ targetPos = 0 /\ maxStep = -1 /\ noticed = 0
        /\ ready = FALSE
    BY DEF Init
  <1>4. drive \in [power : {"disabled", "ready", "switched", "on", "fault"},
                   mode : {0, kind.mode}, set : Int, real : Int]
    BY DEF Init
  <1>5. notActive \in BOOLEAN /\ opened \in BOOLEAN /\ lost = FALSE /\ late = FALSE
    BY Zenon DEF Init
  <1>6. input \in Frames
    BY <1>3 DEF Nothing, Frames, Instructions
  <1>7. CanTypes
    <2>1. /\ reqQueue \in Seq(Frames) /\ answers \in Seq(Frames)
          /\ Len(reqQueue) = 0 /\ 0 <= QueueMax
      BY <1>2
    <2>2. /\ info \in [DriverEnable : {0, 1, 3, 4}, DriverMode : Int, ReceivePos : Int,
                       RatedCurrent : Int]
          /\ statusReady \subseteq StatusParts /\ targetPos \in Int
          /\ maxStep \in Steps \cup {-1} /\ noticed = 0 /\ ready \in BOOLEAN
      BY <1>3
    <2>3. /\ stage \in Early \cup {"enable", "cycle"}
          /\ step \in 1..(IF InLoop THEN Len(Loops[stage]) ELSE 1)
      BY <1>2 DEF Early
    <2> QED  BY <1>1, <1>4, <1>5, <1>6, <2>1, <2>2, <2>3 DEF CanTypes
  <1>8. info.DriverMode # kind.mode
    BY <1>1, <1>3, KindFacts
  <1>9. CommandsInCycle /\ Confirmed /\ Heard
    BY <1>2, <1>3 DEF CommandsInCycle, Confirmed, Heard, Nothing
  <1>10. Told /\ ModeStays
    BY <1>2, <1>3, <1>8 DEF Told, ModeStays, Credible, Nothing
  <1>11. InPlace
    BY <1>2, <1>8 DEF InPlace, OneAtATime, Asked
  <1> QED  BY <1>7, <1>9, <1>10, <1>11 DEF CanInv

-----------------------------------------------------------------------------
(* The worker *)

\* What is pushed stays behind what waits.
LEMMA PushFacts ==
  ASSUME CanTypes, NEW t \in Seq(Frames), PendRequest(t)
  PROVE  /\ reqQueue' \in Seq(Frames) /\ Len(reqQueue') <= QueueMax
         /\ \A i \in 1..Len(reqQueue') :
               \/ i \in 1..Len(reqQueue) /\ reqQueue'[i] = reqQueue[i]
               \/ \E j \in 1..Len(t) : reqQueue'[i] = t[j]
         /\ reqQueue = <<>> => reqQueue' = t
  <1>1. reqQueue \in Seq(Frames) /\ Len(reqQueue) \in Nat /\ Len(t) \in Nat
    BY DEF CanTypes
  <1>2. reqQueue' = reqQueue \o t /\ Len(reqQueue) + Len(t) <= QueueMax
    BY DEF PendRequest
  <1>3. /\ reqQueue' \in Seq(Frames) /\ Len(reqQueue') = Len(reqQueue) + Len(t)
        /\ \A i \in 1..(Len(reqQueue) + Len(t)) :
              reqQueue'[i] = IF i <= Len(reqQueue) THEN reqQueue[i] ELSE t[i - Len(reqQueue)]
    BY <1>1, <1>2, ConcatProperties
  <1>4. ASSUME NEW i \in 1..Len(reqQueue')
        PROVE  \/ i \in 1..Len(reqQueue) /\ reqQueue'[i] = reqQueue[i]
               \/ \E j \in 1..Len(t) : reqQueue'[i] = t[j]
    <2>1. CASE i <= Len(reqQueue)
      BY <1>1, <1>3, <2>1
    <2>2. CASE i > Len(reqQueue)
      <3>1. i - Len(reqQueue) \in 1..Len(t) /\ reqQueue'[i] = t[i - Len(reqQueue)]
        BY <1>1, <1>3, <2>2
      <3> QED  BY <3>1
    <2> QED  BY <1>1, <2>1, <2>2
  <1>5. reqQueue = <<>> => reqQueue' = t
    BY <1>2, ConcatEmptySeq
  <1> QED  BY <1>2, <1>3, <1>4, <1>5

\* What the worker leaves alone stays true as it goes on.
LEMMA WorkerKeeps ==
  ASSUME CanInv, UNCHANGED <<kind, info, statusReady, outside, maxStep>>,
         stage' \in Early => stage \in Early, stage = "cycle" => stage' = "cycle",
         (\A i \in 1..Len(reqQueue) : Allowed(reqQueue[i]))'
  PROVE  Told' /\ ModeStays'
  <1>1. drive' = drive /\ answers' = answers /\ input' = input
    BY DEF outside
  <1>2. Told'
    <2>1. kind' = kind /\ info' = info /\ statusReady' = statusReady
      OBVIOUS
    <2>2. \A f : Credible(f) => Credible(f)'
      BY <1>1, <2>1 DEF Credible
    <2>3. (\A i \in 1..Len(answers) : Credible(answers[i]))' /\ Credible(input)'
      BY <1>1, <2>2 DEF CanInv, Told
    <2>4. /\ "getVel" \in statusReady' => stage' = "cycle"
          /\ info'.DriverMode = kind'.mode => drive'.mode = kind'.mode
          /\ info'.DriverEnable = 0 /\ stage' \in Early => drive'.power # "on"
      BY <1>1, <2>1 DEF CanInv, Told
    <2> QED  BY <2>3, <2>4 DEF Told
  <1>3. ModeStays'
    BY <1>1 DEF CanInv, ModeStays
  <1> QED  BY <1>2, <1>3

\* The requests of the loops.
LEMMA LoopFacts ==
  ASSUME CanTypes, InLoop
  PROVE  /\ stage \in {"disable", "mode", "enable"} /\ step \in 1..Len(Loops[stage])
         /\ Len(Loops[stage]) \in {3, 4, 5}
         /\ stage = "disable" => Loops[stage] = DisableLoop
         /\ stage = "mode" => Loops[stage] = kind.modeLoop
         /\ stage = "enable" => Loops[stage] = EnableLoop
         /\ stage = "disable" => Loops[stage][step] \in {"clear", "shutdown", "getState"}
         /\ stage = "mode" =>
              Loops[stage][step] \in {"setMode", "getPos", "initPos", "getMaxSpeed",
                                      "zeroTorque", "getMode"}
         /\ stage = "enable" =>
              Loops[stage][step] \in {"shutdown", "setReady", "setEnable", "getState"}
  <1>1. stage \in {"disable", "mode", "enable"}
    BY DEF InLoop, Loops
  <1>2. /\ stage = "disable" => Loops[stage] = DisableLoop
        /\ stage = "mode" => Loops[stage] = kind.modeLoop
        /\ stage = "enable" => Loops[stage] = EnableLoop
    BY DEF Loops
  <1>3. step \in 1..Len(Loops[stage])
    BY DEF CanTypes
  <1>4. CASE stage = "disable"
    <2>1. Loops[stage] = <<"clear", "shutdown", "getState">>
      BY <1>2, <1>4 DEF DisableLoop
    <2>2. step \in 1..3 /\ Len(Loops[stage]) = 3
      BY <1>3, <2>1
    <2> QED  BY <1>2, <1>3, <1>4, <2>1, <2>2
  <1>5. CASE stage = "mode"
    <2>1. kind.modeLoop \in {ZeroErrPosition.modeLoop, EyouPosition.modeLoop,
                             ZeroErrTorque.modeLoop}
      BY KindFacts DEF CanTypes
    <2>2. CASE kind.modeLoop = ZeroErrPosition.modeLoop
      <3>1. Loops[stage] = <<"setMode", "getPos", "initPos", "getMode">>
        BY <1>2, <1>5, <2>2 DEF ZeroErrPosition
      <3>2. step \in 1..4
        BY <1>3, <3>1
      <3> QED  BY <1>2, <1>3, <1>5, <3>1, <3>2
    <2>3. CASE kind.modeLoop = EyouPosition.modeLoop
      <3>1. Loops[stage] = <<"setMode", "getPos", "initPos", "getMaxSpeed", "getMode">>
        BY <1>2, <1>5, <2>3 DEF EyouPosition
      <3>2. step \in 1..5
        BY <1>3, <3>1
      <3> QED  BY <1>2, <1>3, <1>5, <3>1, <3>2
    <2>4. CASE kind.modeLoop = ZeroErrTorque.modeLoop
      <3>1. Loops[stage] = <<"setMode", "zeroTorque", "getMode">>
        BY <1>2, <1>5, <2>4 DEF ZeroErrTorque
      <3>2. step \in 1..3
        BY <1>3, <3>1
      <3> QED  BY <1>2, <1>3, <1>5, <3>1, <3>2
    <2> QED  BY <2>1, <2>2, <2>3, <2>4
  <1>6. CASE stage = "enable"
    <2>1. Loops[stage] = <<"shutdown", "setReady", "setEnable", "getState">>
      BY <1>2, <1>6 DEF EnableLoop
    <2>2. step \in 1..4 /\ Len(Loops[stage]) = 4
      BY <1>3, <2>1
    <2> QED  BY <1>2, <1>3, <1>6, <2>1, <2>2
  <1> QED  BY <1>1, <1>4, <1>5, <1>6

\* The mode loop of a motor in position mode, request by request.
LEMMA PositionLoop ==
  ASSUME CanTypes, stage = "mode", Position, NEW i, i = Loops[stage][step]
  PROVE  /\ step \in 1..5
         /\ step = 1 => i = "setMode"
         /\ step = 2 => i = "getPos"
         /\ step = 3 => i = "initPos"
         /\ step \in {4, 5} => i \in {"getMaxSpeed", "getMode"}
         /\ step = Len(Loops[stage]) => step \in {4, 5}
  <1>1. InLoop
    BY DEF InLoop, Loops
  <1>2. Loops[stage] = kind.modeLoop /\ step \in 1..Len(Loops[stage])
    BY <1>1, LoopFacts
  <1>3. kind.modeLoop \in {ZeroErrPosition.modeLoop, EyouPosition.modeLoop}
    BY KindFacts DEF CanTypes
  <1>4. CASE kind.modeLoop = ZeroErrPosition.modeLoop
    <2>1. Loops[stage] = <<"setMode", "getPos", "initPos", "getMode">>
      BY <1>2, <1>4 DEF ZeroErrPosition
    <2>2. Len(Loops[stage]) = 4 /\ step \in 1..4
      BY <1>2, <2>1
    <2> QED  BY <2>1, <2>2
  <1>5. CASE kind.modeLoop = EyouPosition.modeLoop
    <2>1. Loops[stage] = <<"setMode", "getPos", "initPos", "getMaxSpeed", "getMode">>
      BY <1>2, <1>5 DEF EyouPosition
    <2>2. Len(Loops[stage]) = 5 /\ step \in 1..5
      BY <1>2, <2>1
    <2> QED  BY <2>1, <2>2
  <1> QED  BY <1>3, <1>4, <1>5

\* A request of the loops may wait: nothing switches the drive on before the last loop.
LEMMA LoopRequestFacts ==
  ASSUME CanTypes, InLoop, NEW i, i = Loops[stage][step]
  PROVE  LoopRequest(i) \in Frames /\ Allowed(LoopRequest(i))
  <1>1. info.ReceivePos \in Int /\ kind.mode \in Int
    BY KindFacts DEF CanTypes
  <1>2. i \in {"clear", "shutdown", "getState", "setMode", "getPos", "initPos",
               "getMaxSpeed", "zeroTorque", "getMode", "setReady", "setEnable"}
        /\ (i = "setEnable" => stage = "enable")
    BY LoopFacts
  <1>3. CASE i = "initPos"
    BY <1>1, <1>3 DEF LoopRequest, SetPosition, Frames, Instructions, Allowed
  <1>4. CASE i = "setMode"
    BY <1>1, <1>4 DEF LoopRequest, SetMode, Frames, Instructions, Allowed
  <1>5. CASE i \notin {"initPos", "setMode"}
    <2>1. LoopRequest(i) = [ins |-> i, data |-> 0]
      BY <1>5 DEF LoopRequest, Request
    <2>2. LoopRequest(i) \in Frames
      BY <1>2, <1>5, <2>1 DEF Frames, Instructions
    <2>3. Allowed(LoopRequest(i))
      BY <1>2, <1>5, <2>1 DEF Allowed, Early
    <2> QED  BY <2>2, <2>3
  <1> QED  BY <1>3, <1>4, <1>5

\* A worker that stays in time has found nothing waiting and nothing on its way.
LEMMA InTimeFacts ==
  ASSUME InTime', lost' = lost, WokeUp
  PROVE  InTime /\ reqQueue = <<>> /\ answers = <<>>
  BY Zenon DEF InTime, WokeUp

LEMMA LoopStepInv == CanInv /\ LoopStep => CanInv'
  <1> SUFFICES ASSUME CanInv, LoopStep PROVE CanInv'
    OBVIOUS
  <1> DEFINE i == Loops[stage][step]
             f == LoopRequest(i)
  <1> CanTypes
    BY DEF CanInv
  <1>1. /\ InLoop /\ PendRequest(<<f>>) /\ WokeUp /\ (step > 1 \/ ~LoopDone)
        /\ targetPos' = IF i = "initPos" THEN info.ReceivePos ELSE targetPos
        /\ step' = IF step = Len(Loops[stage]) THEN 1 ELSE step + 1
        /\ UNCHANGED <<kind, stage, notActive, ready, info, statusReady, maxStep, noticed, lost>>
        /\ UNCHANGED <<opened, drive, answers, input>>
    BY DEF LoopStep, fields, outside
  <1>2. f \in Frames /\ Allowed(f) /\ <<f>> \in Seq(Frames)
    BY <1>1, LoopRequestFacts
  <1> HIDE DEF f
  <1>3. /\ reqQueue' \in Seq(Frames) /\ Len(reqQueue') <= QueueMax
        /\ \A k \in 1..Len(reqQueue') :
              \/ k \in 1..Len(reqQueue) /\ reqQueue'[k] = reqQueue[k]
              \/ reqQueue'[k] = f
        /\ reqQueue = <<>> => reqQueue' = <<f>>
    <2>1. \A j \in 1..Len(<<f>>) : <<f>>[j] = f
      OBVIOUS
    <2> QED  BY <1>1, <1>2, <2>1, PushFacts
  <1>4. InLoop' /\ Loops'[stage'] = Loops[stage]
    BY <1>1 DEF InLoop, Loops, DisableLoop, EnableLoop
  <1>5. step' \in 1..Len(Loops[stage])
    <2>1. step \in 1..Len(Loops[stage]) /\ Len(Loops[stage]) \in {3, 4, 5}
      BY <1>1, LoopFacts
    <2> QED  BY <1>1, <2>1
  <1>6. CanTypes'
    <2>1. targetPos' \in Int
      BY <1>1 DEF CanTypes
    <2>2. step' \in 1..(IF InLoop' THEN Len(Loops'[stage']) ELSE 1)
      BY <1>4, <1>5
    <2>3. late' \in BOOLEAN
      BY <1>1, Zenon DEF WokeUp
    <2>4. noticed' = 0
      BY <1>1, LoopFacts DEF CanTypes
    <2> QED  BY <1>1, <1>3, <2>1, <2>2, <2>3, <2>4 DEF CanTypes
  <1>7. Told' /\ ModeStays'
    <2>1. \A k \in 1..Len(reqQueue') : Allowed(reqQueue'[k])
      BY <1>2, <1>3 DEF CanInv, Told
    <2>2. \A g : Allowed(g) => Allowed(g)'
      BY <1>1 DEF Allowed
    <2>3. (\A k \in 1..Len(reqQueue) : Allowed(reqQueue[k]))'
      BY <2>1, <2>2
    <2> QED  BY <1>1, <2>3, WorkerKeeps DEF outside
  <1>8. CommandsInCycle' /\ Confirmed' /\ Heard'
    BY <1>1 DEF CanInv, CommandsInCycle, Confirmed, Heard
  <1>9. InPlace'
    <2> SUFFICES ASSUME InTime', Position' PROVE InPlace'
      BY DEF InPlace
    <2>1. InTime /\ Position /\ reqQueue = <<>> /\ answers = <<>>
      BY <1>1, InTimeFacts DEF Position
    <2>2. reqQueue' = <<f>> /\ answers' = <<>>
      BY <1>1, <1>3, <2>1
    <2>3. Len(reqQueue') = 1 /\ reqQueue'[1] = f /\ Len(answers') = 0
      BY <2>2
    <2>4. OneAtATime'
      BY <2>2, <2>3 DEF OneAtATime
    <2>5. Asked' => f.ins = "getMode" \/ info.DriverMode = kind.mode
      BY <1>1, <2>3 DEF Asked
    <2>6. drive' = drive /\ info' = info /\ kind' = kind /\ stage' = stage
      BY <1>1
    <2>7. /\ i \notin {"initPos", "setMode"} => f.ins = i
          /\ i = "setMode" => f.ins = "setMode"
          /\ i = "initPos" => f = SetPosition(info.ReceivePos)
      BY DEF f, LoopRequest, SetMode, Request
    <2>8. f.ins = "getMode" => i = "getMode"
      BY <2>7 DEF SetPosition
    <2>9. CASE stage = "disable"
      <3>1. ~Asked
        BY <2>1, <2>9 DEF CanInv, InPlace
      <3>2. i # "getMode"
        BY <1>1, <2>9, LoopFacts
      <3>3. ~Asked'
        BY <2>5, <2>8, <3>1, <3>2 DEF Asked
      <3> QED  BY <2>4, <2>6, <2>9, <3>3 DEF InPlace
    <2>10. CASE stage = "enable"
      <3>1. drive.set = drive.real
        BY <2>1, <2>10 DEF CanInv, InPlace
      <3>2. f.ins # "setPos"
        BY <1>1, <2>7, <2>10, LoopFacts
      <3> QED  BY <2>3, <2>4, <2>6, <2>10, <3>1, <3>2 DEF InPlace
    <2>11. CASE stage = "mode"
      <3>1. /\ step = 3 => info.ReceivePos = drive.real
            /\ step \in {4, 5} => drive.set = drive.real
            /\ Asked => drive.set = drive.real
        BY <2>1, <2>11 DEF CanInv, InPlace, PositionComing
      <3>2. f.ins = "setPos" => step = 3 /\ f = SetPosition(drive.real)
        BY <2>1, <2>7, <2>11, <3>1, PositionLoop
      <3>3. f.ins = "getMode" => drive.set = drive.real
        BY <2>1, <2>8, <2>11, <3>1, PositionLoop
      <3>4. step' = 3 => reqQueue' = <<Request("getPos")>>
        <4>1. step' = 3 => step = 2
          BY <1>1, <2>1, <2>11, PositionLoop
        <4>2. step = 2 => i = "getPos"
          BY <2>1, <2>11, PositionLoop
        <4> QED  BY <2>2, <4>1, <4>2 DEF f, LoopRequest
      <3>5. step' \in {4, 5} =>
              reqQueue' = <<SetPosition(drive.real)>> \/ drive.set = drive.real
        <4>1. step' \in {4, 5} => step \in {3, 4}
          BY <1>1, <2>1, <2>11, PositionLoop
        <4>2. step = 3 => f = SetPosition(drive.real)
          BY <2>1, <2>7, <2>11, <3>1, PositionLoop
        <4> QED  BY <2>2, <3>1, <4>1, <4>2
      <3>6. Asked' => drive.set = drive.real
        BY <2>5, <3>1, <3>3 DEF Asked
      <3>7. \A k \in 1..Len(reqQueue') :
               reqQueue'[k].ins = "setPos" => reqQueue'[k].data = drive.real
        BY <2>3, <3>2 DEF SetPosition
      <3> QED  BY <2>4, <2>6, <2>11, <3>4, <3>5, <3>6, <3>7 DEF InPlace, PositionComing, SetPosition
    <2> QED  BY <1>1, <2>9, <2>10, <2>11, LoopFacts
  <1> QED  BY <1>6, <1>7, <1>8, <1>9 DEF CanInv

\* A loop that ends has seen what it waited for, and the next one starts from its top.
LEMMA LoopEndsFacts ==
  ASSUME CanTypes, LoopEnds
  PROVE  /\ InLoop /\ WokeUp /\ step = 1 /\ step' = 1
         /\ stage = "disable" => stage' = "mode" /\ info.DriverEnable = 0
         /\ stage = "mode" => stage' = "enable" /\ info.DriverMode = kind.mode
         /\ stage = "enable" => stage' = "cycle"
         /\ stage' # "cycle" => reqQueue' = reqQueue /\ ready' = ready
         /\ stage' = "cycle" => PendRequest(AfterLoops) /\ ready' = (ready \/ Position)
         /\ UNCHANGED <<kind, notActive, info, statusReady, targetPos, maxStep, noticed, lost>>
         /\ UNCHANGED <<opened, drive, answers, input>>
  <1>1. InLoop /\ LoopDone /\ stage' = Following[stage]
    BY DEF LoopEnds
  <1>2. /\ stage = "disable" => info.DriverEnable = 0
        /\ stage = "mode" => info.DriverMode = kind.mode
    BY <1>1 DEF LoopDone
  <1>3. /\ stage = "disable" => stage' = "mode"
        /\ stage = "mode" => stage' = "enable"
        /\ stage = "enable" => stage' = "cycle"
    BY <1>1 DEF Following
  <1> QED  BY <1>1, <1>2, <1>3 DEF LoopEnds, command, outside

LEMMA LoopEndsInv == CanInv /\ LoopEnds => CanInv'
  <1> SUFFICES ASSUME CanInv, LoopEnds PROVE CanInv'
    OBVIOUS
  <1> CanTypes
    BY DEF CanInv
  <1>1. /\ InLoop /\ WokeUp /\ step = 1 /\ step' = 1
        /\ stage = "disable" => stage' = "mode" /\ info.DriverEnable = 0
        /\ stage = "mode" => stage' = "enable" /\ info.DriverMode = kind.mode
        /\ stage = "enable" => stage' = "cycle"
        /\ stage' # "cycle" => reqQueue' = reqQueue /\ ready' = ready
        /\ stage' = "cycle" => PendRequest(AfterLoops) /\ ready' = (ready \/ Position)
        /\ UNCHANGED <<kind, notActive, info, statusReady, targetPos, maxStep, noticed, lost>>
        /\ UNCHANGED <<opened, drive, answers, input>>
    BY LoopEndsFacts
  <1>2. stage \in {"disable", "mode", "enable"}
    BY <1>1, LoopFacts
  <1>3. /\ reqQueue' \in Seq(Frames) /\ Len(reqQueue') <= QueueMax
        /\ \A k \in 1..Len(reqQueue') :
              \/ k \in 1..Len(reqQueue) /\ reqQueue'[k] = reqQueue[k]
              \/ reqQueue'[k] = Request("getRated")
    <2>1. CASE stage' # "cycle"
      BY <1>1, <2>1 DEF CanTypes
    <2>2. CASE stage' = "cycle"
      <3>1. AfterLoops \in Seq(Frames)
        <4>1. Request("getRated") \in Frames
          BY DEF Request, Frames, Instructions
        <4>2. <<>> \in Seq(Frames) /\ <<Request("getRated")>> \in Seq(Frames)
          BY <4>1
        <4> QED  BY <4>2 DEF AfterLoops
      <3>2. \A j \in 1..Len(AfterLoops) : AfterLoops[j] = Request("getRated")
        BY DEF AfterLoops
      <3> QED  BY <1>1, <2>2, <3>1, <3>2, PushFacts
    <2> QED  BY <2>1, <2>2
  <1>4. CanTypes'
    <2>1. 1 \in 1..(IF InLoop' THEN Len(Loops'[stage']) ELSE 1)
      <3>1. CASE stage = "disable"
        <4>1. Loops'[stage'] = kind.modeLoop
          BY <1>1, <3>1 DEF Loops
        <4>2. Len(kind.modeLoop) \in {3, 4, 5}
          BY KindFacts DEF CanTypes
        <4>3. Len(Loops'[stage']) \in {3, 4, 5}
          BY <4>1, <4>2, Zenon
        <4>4. \A n \in {3, 4, 5} : 1 \in 1..(IF InLoop' THEN n ELSE 1)
          OBVIOUS
        <4> QED  BY <4>3, <4>4, Zenon
      <3>2. CASE stage = "mode"
        <4>1. Loops'[stage'] = <<"shutdown", "setReady", "setEnable", "getState">>
          BY <1>1, <3>2 DEF Loops, EnableLoop
        <4>2. Len(Loops'[stage']) = 4
          BY <4>1
        <4> QED  BY <4>2
      <3>3. CASE stage = "enable"
        BY <1>1, <3>3 DEF InLoop, Loops
      <3> QED  BY <1>2, <3>1, <3>2, <3>3
    <2>2. late' \in BOOLEAN
      BY <1>1, Zenon DEF WokeUp
    <2>3. ready' \in BOOLEAN
      BY <1>1 DEF CanTypes
    <2>4. stage' \in Early \cup {"enable", "cycle"}
      BY <1>1, <1>2 DEF Early
    <2>5. noticed' = 0
      BY <1>1, <1>2 DEF CanTypes
    <2> QED  BY <1>1, <1>3, <2>1, <2>2, <2>3, <2>4, <2>5 DEF CanTypes
  <1>5. Told' /\ ModeStays'
    <2>1. \A g : Allowed(g) => Allowed(g)'
      BY <1>1, <1>2 DEF Allowed, Early
    <2>2. Allowed(Request("getRated"))
      BY DEF Allowed, Request
    <2>3. (\A k \in 1..Len(reqQueue) : Allowed(reqQueue[k]))'
      BY <1>3, <2>1, <2>2 DEF CanInv, Told
    <2>4. /\ stage' \in Early => stage \in Early
          /\ stage = "cycle" => stage' = "cycle"
      BY <1>1, <1>2 DEF Early
    <2> QED  BY <1>1, <2>3, <2>4, WorkerKeeps DEF outside
  <1>6. CommandsInCycle'
    BY <1>1, <1>2 DEF CanInv, CommandsInCycle
  <1>7. Confirmed'
    BY <1>1, <1>2 DEF CanInv, Confirmed, Told, Early
  <1>8. Heard'
    BY <1>1, <1>2 DEF CanInv, Heard
  <1>9. InPlace'
    <2> SUFFICES ASSUME InTime', Position' PROVE InPlace'
      BY DEF InPlace
    <2>1. InTime /\ Position /\ reqQueue = <<>> /\ answers = <<>>
      BY <1>1, InTimeFacts DEF Position
    <2>2. drive' = drive /\ answers' = <<>> /\ Len(answers') = 0
      BY <1>1, <2>1
    <2>3. CASE stage = "disable"
      <3>1. stage' = "mode" /\ reqQueue' = <<>> /\ Len(reqQueue') = 0
        BY <1>1, <2>1, <2>3
      <3>2. ~Asked
        BY <2>1, <2>3 DEF CanInv, InPlace
      <3>3. ~Asked'
        BY <1>1, <2>2, <3>1, <3>2 DEF Asked
      <3> QED  BY <1>1, <2>2, <3>1, <3>3 DEF InPlace, OneAtATime
    <2>4. CASE stage = "mode"
      <3>1. stage' = "enable" /\ reqQueue' = <<>> /\ Len(reqQueue') = 0
        BY <1>1, <2>1, <2>4
      <3>2. Asked
        BY <1>1, <2>4 DEF Asked
      <3>3. drive.set = drive.real
        BY <2>1, <2>4, <3>2 DEF CanInv, InPlace
      <3> QED  BY <2>2, <3>1, <3>3 DEF InPlace, OneAtATime
    <2>5. CASE stage = "enable"
      BY <1>1, <2>5 DEF InPlace
    <2> QED  BY <1>2, <2>3, <2>4, <2>5
  <1> QED  BY <1>4, <1>5, <1>6, <1>7, <1>8, <1>9 DEF CanInv

\* What the worker pushes in its cycle sets no mode, so nothing of the start is disturbed.
LEMMA CyclePush ==
  ASSUME CanInv, stage = "cycle", NEW t \in Seq(Frames), PendRequest(t),
         \A j \in 1..Len(t) : t[j].ins # "setMode",
         UNCHANGED <<kind, stage, step, notActive, ready, info, statusReady, targetPos, maxStep>>,
         noticed' \in {noticed, 0},
         UNCHANGED <<opened, drive, answers, input, lost, late>>
  PROVE  CanInv'
  <1> CanTypes
    BY DEF CanInv
  <1>1. /\ reqQueue' \in Seq(Frames) /\ Len(reqQueue') <= QueueMax
        /\ \A i \in 1..Len(reqQueue') :
              \/ i \in 1..Len(reqQueue) /\ reqQueue'[i] = reqQueue[i]
              \/ \E j \in 1..Len(t) : reqQueue'[i] = t[j]
    BY PushFacts
  <1>2. CanTypes'
    <2>1. InLoop' = InLoop /\ ~InLoop
      BY DEF InLoop, Loops
    <2>2. noticed' \in Int /\ (noticed' # 0 => Position')
      BY DEF CanTypes, Position
    <2> QED  BY <1>1, <2>1, <2>2 DEF CanTypes
  <1>3. Told' /\ ModeStays'
    <2>1. \A g : Allowed(g) => Allowed(g)'
      BY DEF Allowed
    <2>2. \A g : g.ins # "setMode" => Allowed(g)'
      BY DEF Allowed, Early
    <2>3. (\A i \in 1..Len(reqQueue) : Allowed(reqQueue[i]))'
      BY <1>1, <2>1, <2>2 DEF CanInv, Told
    <2> QED  BY <2>3, WorkerKeeps DEF outside
  <1>4. CommandsInCycle' /\ Confirmed' /\ Heard'
    BY DEF CanInv, CommandsInCycle, Confirmed, Heard
  <1>5. InPlace'
    BY DEF InPlace
  <1> QED  BY <1>2, <1>3, <1>4, <1>5 DEF CanInv

LEMMA LookInv == CanInv /\ Look => CanInv'
  <1> SUFFICES ASSUME CanInv, Look PROVE CanInv'
    OBVIOUS
  <1>1. /\ stage = "cycle" /\ Position
        /\ UNCHANGED <<kind, stage, step, notActive, ready, info, statusReady, targetPos, maxStep>>
        /\ UNCHANGED <<opened, drive, answers, input, lost, late>>
    BY DEF Look, worker, fields, outside
  <1>2. CASE PendRequest(<<Request("getPos")>>) /\ noticed' = noticed
    <2>1. Request("getPos") \in Frames /\ Request("getPos").ins # "setMode"
      BY DEF Request, Frames, Instructions
    <2>2. /\ <<Request("getPos")>> \in Seq(Frames)
          /\ \A j \in 1..Len(<<Request("getPos")>>) : <<Request("getPos")>>[j].ins # "setMode"
      BY <2>1
    <2> QED  BY <1>1, <1>2, <2>2, CyclePush
  <1>3. CASE noticed' = Distance /\ reqQueue' = reqQueue
    <2>1. noticed' \in Int
      BY <1>3 DEF CanInv, CanTypes, Distance
    <2>2. CanTypes' /\ CommandsInCycle' /\ Confirmed' /\ Heard' /\ ModeStays'
      BY <1>1, <1>3, <2>1 DEF CanInv, CanTypes, CommandsInCycle, Confirmed, Heard, ModeStays,
                              InLoop, Loops, Position
    <2>3. Told'
      BY <1>1, <1>3 DEF CanInv, Told, Allowed, Credible
    <2>4. InPlace'
      BY <1>1 DEF InPlace
    <2> QED  BY <2>2, <2>3, <2>4 DEF CanInv
  <1> QED  BY <1>2, <1>3 DEF Look

\* Set points are positions.
LEMMA SetPointsAreInts ==
  ASSUME CanTypes
  PROVE  SetPoints \subseteq Int
  <1>1. /\ info.ReceivePos \in Int /\ noticed \in Int /\ maxStep \in Int /\ Positions \subseteq Int
    BY MotorAssumption DEF CanTypes
  <1>2. /\ Sign(noticed) \in {-1, 0, 1} /\ Abs(noticed) \in Int /\ StepAllowed \in Int
    BY <1>1 DEF Sign, Abs, StepAllowed
  <1>3. Least(Abs(noticed), StepAllowed) \in Int
    BY <1>2 DEF Least
  <1>4. \A a \in {-1, 0, 1}, b \in Int, c \in Int : c + a * b \in Int
    OBVIOUS
  <1>5. info.ReceivePos + Sign(noticed) * Least(Abs(noticed), StepAllowed) \in Int
    BY <1>1, <1>2, <1>3, <1>4
  <1> QED  BY <1>1, <1>5 DEF SetPoints

LEMMA MoveInv == CanInv /\ Move => CanInv'
  <1> SUFFICES ASSUME CanInv, Move PROVE CanInv'
    OBVIOUS
  <1>1. /\ UNCHANGED <<kind, stage, step, notActive, ready, info, statusReady, targetPos, maxStep>>
        /\ noticed' = 0 /\ UNCHANGED <<opened, drive, answers, input, lost, late>>
    BY DEF Move, worker, fields, outside
  <1>2. stage = "cycle" /\ SetPoints \subseteq Int
    BY SetPointsAreInts DEF Move, CanInv, CanTypes
  <1>3. PICK p \in SetPoints : PendRequest(<<SetPosition(p), Request("getPos")>>)
    BY DEF Move
  <1>4. /\ SetPosition(p) \in Frames /\ SetPosition(p).ins # "setMode"
        /\ Request("getPos") \in Frames /\ Request("getPos").ins # "setMode"
    BY <1>2 DEF SetPosition, Request, Frames, Instructions
  <1> DEFINE t == <<SetPosition(p), Request("getPos")>>
  <1>5. t \in Seq(Frames) /\ \A j \in 1..Len(t) : t[j].ins # "setMode"
    BY <1>4
  <1> QED  BY <1>1, <1>2, <1>3, <1>5, CyclePush

LEMMA PositionCycleInv == CanInv /\ PositionCycle => CanInv'
  BY LookInv, MoveInv DEF PositionCycle

LEMMA TorqueCycleInv == CanInv /\ TorqueCycle => CanInv'
  <1> SUFFICES ASSUME CanInv, TorqueCycle PROVE CanInv'
    OBVIOUS
  <1> DEFINE a == [ins |-> "setTorque", data |-> info.RatedCurrent]
             b == Request("getVel")
             c == Request("getPos")
             d == Request("getCur")
             t == <<a, b, c, d>>
  <1>1. /\ stage = "cycle" /\ PendRequest(t)
        /\ UNCHANGED <<kind, stage, step, notActive, ready, info, statusReady, targetPos, maxStep>>
        /\ UNCHANGED <<noticed, opened, drive, answers, input, lost, late>>
    BY DEF TorqueCycle, worker, fields, command, outside
  <1>2. info.RatedCurrent \in Int
    BY DEF CanInv, CanTypes
  <1>3. /\ a \in Frames /\ b \in Frames /\ c \in Frames /\ d \in Frames
        /\ a.ins # "setMode" /\ b.ins # "setMode" /\ c.ins # "setMode" /\ d.ins # "setMode"
    BY <1>2 DEF Request, Frames, Instructions
  <1> HIDE DEF a, b, c, d
  <1>4. t \in Seq(Frames) /\ \A j \in 1..Len(t) : t[j].ins # "setMode"
    BY <1>3
  <1> QED  BY <1>1, <1>4, CyclePush

-----------------------------------------------------------------------------
(* The handlers and the rest of the world *)

LEMMA DivideInv == CanInv /\ Divide => CanInv'
  <1> SUFFICES ASSUME CanInv, Divide PROVE CanInv'
    OBVIOUS
  <1>1. /\ UNCHANGED <<kind, stage, step, notActive, reqQueue, ready, info, statusReady>>
        /\ UNCHANGED <<targetPos, maxStep, noticed, opened, drive, answers, input, lost, late>>
    BY DEF Divide, fields, command, outside
  <1>2. CanTypes' /\ CommandsInCycle' /\ Confirmed' /\ Heard' /\ ModeStays'
    BY <1>1 DEF CanInv, CanTypes, CommandsInCycle, Confirmed, Heard, ModeStays, InLoop, Loops,
                     Position
  <1>3. Told'
    BY <1>1 DEF CanInv, Told, Allowed, Credible
  <1>4. InPlace'
    BY <1>1 DEF CanInv, InPlace, InTime, Position, OneAtATime, Asked, PositionComing
  <1> QED  BY <1>2, <1>3, <1>4 DEF CanInv

LEMMA SettlesInv == CanInv /\ Settles => CanInv'
  <1> SUFFICES ASSUME CanInv, Settles PROVE CanInv'
    OBVIOUS
  <1>1. /\ UNCHANGED <<kind, stage, step, notActive, reqQueue, ready, info, statusReady>>
        /\ UNCHANGED <<targetPos, maxStep, noticed, opened, drive, answers, input, lost, late>>
    BY DEF Settles, worker, fields, command, outside
  <1>2. CanTypes' /\ CommandsInCycle' /\ Confirmed' /\ Heard' /\ ModeStays'
    BY <1>1 DEF CanInv, CanTypes, CommandsInCycle, Confirmed, Heard, ModeStays, InLoop, Loops,
                     Position
  <1>3. Told'
    BY <1>1 DEF CanInv, Told, Allowed, Credible
  <1>4. InPlace'
    BY <1>1 DEF CanInv, InPlace, InTime, Position, OneAtATime, Asked, PositionComing
  <1> QED  BY <1>2, <1>3, <1>4 DEF CanInv

LEMMA SetPosInv == CanInv /\ SetPos => CanInv'
  <1> SUFFICES ASSUME CanInv, SetPos PROVE CanInv'
    OBVIOUS
  <1>1. /\ UNCHANGED <<kind, stage, step, notActive, reqQueue, ready, info, statusReady>>
        /\ UNCHANGED <<opened, drive, answers, input, lost, late>>
        /\ ready /\ targetPos' \in Int /\ maxStep' \in Steps /\ noticed' = noticed
    BY MotorAssumption DEF SetPos, worker, fields, outside
  <1>2. CanTypes' /\ CommandsInCycle' /\ Confirmed' /\ Heard' /\ ModeStays'
    BY <1>1 DEF CanInv, CanTypes, CommandsInCycle, Confirmed, Heard, ModeStays, InLoop, Loops,
                     Position
  <1>3. Told'
    BY <1>1 DEF CanInv, Told, Allowed, Credible
  <1>4. InPlace'
    BY <1>1 DEF CanInv, InPlace, InTime, Position, OneAtATime, Asked, PositionComing
  <1> QED  BY <1>2, <1>3, <1>4 DEF CanInv

LEMMA FaultInv == CanInv /\ Fault => CanInv'
  <1> SUFFICES ASSUME CanInv, Fault PROVE CanInv'
    OBVIOUS
  <1>1. /\ UNCHANGED <<kind, stage, step, notActive, reqQueue, ready, info, statusReady>>
        /\ UNCHANGED <<targetPos, maxStep, noticed, opened, answers, input, lost, late>>
        /\ drive' = [drive EXCEPT !.power = "fault"]
    BY DEF Fault, worker, fields, command
  <1>2. /\ drive' \in [power : {"disabled", "ready", "switched", "on", "fault"},
                       mode : {0, kind.mode}, set : Int, real : Int]
        /\ drive'.power = "fault" /\ drive'.mode = drive.mode
        /\ drive'.set = drive.set /\ drive'.real = drive.real
    BY <1>1 DEF CanInv, CanTypes
  <1>3. CanTypes' /\ CommandsInCycle' /\ Confirmed' /\ Heard' /\ ModeStays'
    BY <1>1, <1>2
       DEF CanInv, CanTypes, CommandsInCycle, Confirmed, Heard, ModeStays, InLoop, Loops,
                     Position
  <1>4. Told'
    BY <1>1, <1>2 DEF CanInv, Told, Allowed, Credible
  <1>5. InPlace'
    BY <1>1, <1>2
       DEF CanInv, InPlace, InTime, Position, OneAtATime, Asked, PositionComing, SetPosition
  <1> QED  BY <1>3, <1>4, <1>5 DEF CanInv

-----------------------------------------------------------------------------
(* A cycle of the bus: the request *)

\* The bus thread starts the worker and takes the first request that waits.
LEMMA RequestFacts ==
  ASSUME CanInv, OnRequest
  PROVE  /\ Taken \in Frames /\ Allowed(Taken)
         /\ reqQueue' \in Seq(Frames) /\ Len(reqQueue') <= Len(reqQueue)
         /\ \A i \in 1..Len(reqQueue') :
               i + 1 \in 1..Len(reqQueue) /\ reqQueue'[i] = reqQueue[i + 1]
         /\ reqQueue = <<>> => Taken = Nothing /\ reqQueue' = <<>>
         /\ reqQueue # <<>> => /\ 1 \in 1..Len(reqQueue) /\ Taken = reqQueue[1]
                               /\ Len(reqQueue') = Len(reqQueue) - 1
         /\ notActive' = FALSE
  <1>1. reqQueue \in Seq(Frames) /\ notActive' = FALSE
    BY DEF CanInv, CanTypes, OnRequest
  <1>2. CASE reqQueue = <<>>
    <2>1. Taken = Nothing /\ reqQueue' = <<>>
      BY <1>2 DEF Taken, OnRequest
    <2>2. Nothing \in Frames /\ Allowed(Nothing)
      BY DEF Nothing, Frames, Instructions, Allowed
    <2>3. Len(reqQueue') = 0 /\ Len(reqQueue) = 0
      BY <1>2, <2>1
    <2> QED  BY <1>1, <1>2, <2>1, <2>2, <2>3
  <1>3. CASE reqQueue # <<>>
    <2>1. Taken = Head(reqQueue) /\ reqQueue' = Tail(reqQueue)
      BY <1>3 DEF Taken, OnRequest
    <2>2. /\ Taken \in Frames /\ Taken = reqQueue[1] /\ 1 \in 1..Len(reqQueue)
          /\ reqQueue' \in Seq(Frames) /\ Len(reqQueue') = Len(reqQueue) - 1
          /\ \A i \in 1..Len(reqQueue') :
                i + 1 \in 1..Len(reqQueue) /\ reqQueue'[i] = reqQueue[i + 1]
      BY <1>1, <1>3, <2>1, TailFacts
    <2>3. Allowed(Taken)
      BY <2>2 DEF CanInv, Told
    <2>4. Len(reqQueue') <= Len(reqQueue)
      BY <1>1, <2>2
    <2> QED  BY <1>1, <1>3, <2>2, <2>3, <2>4
  <1> QED  BY <1>2, <1>3

\* Only the first request moves the worker, from nowhere to its first loop.
LEMMA StageFacts ==
  ASSUME CanInv, OnRequest, step' = step, kind' = kind
  PROVE  /\ stage' \in Early \cup {"enable", "cycle"}
         /\ step' \in 1..(IF InLoop' THEN Len(Loops'[stage']) ELSE 1)
         /\ stage' \in Early <=> stage \in Early
         /\ stage' = "disable" => stage \in {"none", "disable"}
         /\ stage' # "none"
         /\ stage \in {"mode", "enable", "cycle"} => stage' = stage
         /\ stage' \in {"mode", "enable", "cycle"} => stage' = stage
  <1>1. CanTypes
    BY DEF CanInv
  <1>2. CASE stage = "none"
    <2>1. stage' = "disable" /\ ~InLoop
      BY <1>2 DEF OnRequest, InLoop, Loops
    <2>2. step = 1
      BY <1>1, <2>1 DEF CanTypes
    <2>3. Loops'[stage'] = <<"clear", "shutdown", "getState">>
      BY <2>1 DEF Loops, DisableLoop
    <2>4. Len(Loops'[stage']) = 3
      BY <2>3
    <2>5. 1 \in 1..(IF InLoop' THEN Len(Loops'[stage']) ELSE 1)
      BY <2>4
    <2> QED  BY <1>2, <2>1, <2>2, <2>5 DEF Early
  <1>3. CASE stage # "none"
    <2>1. stage' = stage
      BY <1>3 DEF OnRequest
    <2>2. Loops' = Loops /\ InLoop' = InLoop
      BY <2>1 DEF Loops, InLoop
    <2> QED  BY <1>1, <1>3, <2>1, <2>2 DEF CanTypes, Early
  <1> QED  BY <1>2, <1>3

\* What a request that may wait does to the drive.
LEMMA ServeFacts ==
  ASSUME CanInv, NEW f \in Frames, Allowed(f), NEW d, d = Serve(drive, f)
  PROVE  /\ d \in [power : {"disabled", "ready", "switched", "on", "fault"},
                   mode : {0, kind.mode}, set : Int, real : Int]
         /\ drive.mode = kind.mode => d.mode = kind.mode
         /\ d.power = "on" => drive.power = "on" \/ stage \notin Early
         /\ f.ins = "setPos" => d.set = f.data
         /\ f.ins # "setPos" => d.set = drive.set
         /\ d.real \in {drive.real, d.set}
         /\ d.power # "on" => d.real = drive.real
  <1>1. /\ drive.power \in {"disabled", "ready", "switched", "on", "fault"}
        /\ drive.mode \in {0, kind.mode} /\ drive.set \in Int /\ drive.real \in Int
    BY DEF CanInv, CanTypes
  <1>2. f.data \in Int
    BY DEF Frames
  <1> DEFINE p == Powered(drive.power, f.ins)
             m == IF f.ins = "setMode" THEN f.data ELSE drive.mode
             s == IF f.ins = "setPos" THEN f.data ELSE drive.set
             r == IF p = "on" /\ m = 8 THEN s ELSE drive.real
  <1>3. /\ p \in {"disabled", "ready", "switched", "on", "fault"}
        /\ p = "on" => drive.power = "on" \/ f.ins = "setEnable"
    BY <1>1 DEF Powered
  <1>4. m \in {0, kind.mode} /\ (drive.mode = kind.mode => m = kind.mode)
    BY <1>1 DEF Allowed
  <1>5. s \in Int /\ r \in Int /\ r \in {drive.real, s} /\ (p # "on" => r = drive.real)
    BY <1>1, <1>2
  <1>6. d = [power |-> p, mode |-> m, set |-> s, real |-> r]
    BY DEF Serve
  <1>7. d.power = p /\ d.mode = m /\ d.set = s /\ d.real = r
    BY <1>6
  <1>8. p = "on" => drive.power = "on" \/ stage \notin Early
    BY <1>3 DEF Allowed
  <1> HIDE DEF p, r
  <1>9. d \in [power : {"disabled", "ready", "switched", "on", "fault"},
               mode : {0, kind.mode}, set : Int, real : Int]
    BY <1>3, <1>4, <1>5, <1>6
  <1> QED  BY <1>4, <1>5, <1>7, <1>8, <1>9

\* What the drive answers to a request, and that it is true of it.
LEMMA AnswerFacts ==
  ASSUME kind \in Kinds, NEW f \in Frames,
         NEW d \in [power : {"disabled", "ready", "switched", "on", "fault"},
                    mode : {0, kind.mode}, set : Int, real : Int],
         NEW e, e = [ins |-> f.ins, data |-> Value(d, f.ins)]
  PROVE  /\ Answer(d, f) \in {<<>>, <<e>>}
         /\ f = Nothing => Answer(d, f) = <<>>
         /\ f.ins = "getPos" => Answer(d, f) = <<[ins |-> "getPos", data |-> d.real]>>
         /\ e \in Frames /\ e.ins = f.ins
         /\ e.ins = "getMode" => e.data = d.mode
         /\ e.ins = "getState" /\ e.data = kind.off => d.power = "ready"
  <1>1. kind.mode \in {8, 10} /\ kind.off \in {33, 49}
    BY KindFacts
  <1>2. d.mode \in Int /\ d.real \in Int /\ d.power \in {"disabled", "ready", "switched", "on", "fault"}
    BY <1>1
  <1>3. StatusWord(d.power) \in Int /\ (StatusWord(d.power) = kind.off => d.power = "ready")
    BY <1>1, <1>2 DEF StatusWord
  <1>4. e.ins = f.ins /\ e.data = Value(d, f.ins)
    OBVIOUS
  <1>5. Value(d, f.ins) \in Int
    BY <1>2, <1>3 DEF Value
  <1>6. e \in Frames
    BY <1>5 DEF Frames
  <1>7. /\ f.ins = "getMode" => Value(d, f.ins) = d.mode
        /\ f.ins = "getState" => Value(d, f.ins) = StatusWord(d.power)
        /\ f.ins = "getPos" => Value(d, f.ins) = d.real
    BY DEF Value
  <1>8. /\ Answer(d, f) \in {<<>>, <<e>>}
        /\ f = Nothing => Answer(d, f) = <<>>
        /\ f.ins = "getPos" => Answer(d, f) = <<e>>
    BY DEF Answer, Nothing
  <1>9. f.ins = "getPos" => e = [ins |-> "getPos", data |-> d.real]
    BY <1>7
  <1> QED  BY <1>3, <1>4, <1>6, <1>7, <1>8, <1>9

-----------------------------------------------------------------------------
(* A cycle of the bus: the answers *)

\* An answer the drive stands by after this cycle.
Stands(f) ==
  /\ f.ins = "getMode" /\ f.data = kind.mode => drive'.mode = kind.mode
  /\ f.ins = "getState" /\ f.data = kind.off /\ stage \in Early => drive'.power # "on"
  /\ f.ins = "getVel" => stage = "cycle"

\* Answers on their way that tell the truth, and the mode for ever once they told it.
Line(s) ==
  /\ s \in Seq(Frames)
  /\ \A i \in 1..Len(s) : Stands(s[i])
  /\ \A i, j \in 1..Len(s) :
        i < j /\ s[i].ins = "getMode" /\ s[j].ins = "getMode"
              /\ s[i].data = kind.mode => s[j].data = kind.mode
  /\ info.DriverMode = kind.mode =>
        \A i \in 1..Len(s) : s[i].ins = "getMode" => s[i].data = kind.mode
  /\ s # <<>> => opened'

\* What the drive stood by before a request it stands by after it.
LEMMA StillStands ==
  ASSUME CanInv, NEW f, Credible(f),
         drive.mode = kind.mode => drive'.mode = kind.mode,
         drive'.power = "on" => drive.power = "on" \/ stage \notin Early
  PROVE  Stands(f)
  BY DEF Stands, Credible

\* A cycle whose request goes out adds its answer to the line.
LEMMA SentLine ==
  ASSUME CanInv, OnRequest, Sent
  PROVE  Line(OnTheWay) /\ (opened => opened') /\ opened' \in BOOLEAN
  <1>1. CanTypes /\ kind \in Kinds /\ answers \in Seq(Frames)
    BY DEF CanInv, CanTypes
  <1>2. Taken \in Frames /\ Allowed(Taken) /\ drive' = Serve(drive, Taken)
    BY RequestFacts DEF Sent
  <1>3. /\ drive' \in [power : {"disabled", "ready", "switched", "on", "fault"},
                       mode : {0, kind.mode}, set : Int, real : Int]
        /\ drive.mode = kind.mode => drive'.mode = kind.mode
        /\ drive'.power = "on" => drive.power = "on" \/ stage \notin Early
    BY <1>2, ServeFacts
  <1> DEFINE e == [ins |-> Taken.ins, data |-> Value(drive', Taken.ins)]
             t == IF opened \/ notActive THEN Answer(drive', Taken) ELSE <<>>
  <1>4. /\ Answer(drive', Taken) \in {<<>>, <<e>>} /\ e \in Frames /\ e.ins = Taken.ins
        /\ e.ins = "getMode" => e.data = drive'.mode
        /\ e.ins = "getState" /\ e.data = kind.off => drive'.power = "ready"
    BY <1>1, <1>2, <1>3, AnswerFacts
  <1> HIDE DEF e
  <1>5. opened' = (opened \/ notActive)
    BY DEF Sent
  <1>6. t = <<>> \/ (t = <<e>> /\ opened')
    BY <1>4, <1>5
  <1> DEFINE s == answers \o t
  <1>7. OnTheWay = s
    BY DEF OnTheWay
  <1> HIDE DEF t
  <1>8. s \in Seq(Frames) /\ (t = <<>> => s = answers)
    BY <1>1, <1>4, <1>6, OneMore
  <1>9. ASSUME t = <<e>>
        PROVE  /\ Len(s) = Len(answers) + 1 /\ s[Len(answers) + 1] = e
               /\ \A i \in 1..Len(answers) : s[i] = answers[i]
    <2>1. t # <<>> /\ t[1] = e /\ t \in {<<x>> : x \in Frames}
      BY <1>4, <1>9
    <2> QED  BY <1>1, <1>4, <1>9, <2>1, OneMore
  <1> HIDE DEF s
  <1>10. \A i \in 1..Len(answers) : Stands(answers[i])
    BY <1>3, StillStands DEF CanInv, Told
  <1>11. Stands(e)
    BY <1>2, <1>4 DEF Stands, Allowed
  <1>12. \A i \in 1..Len(answers) :
            answers[i].ins = "getMode" /\ answers[i].data = kind.mode
              => drive'.mode = kind.mode
    BY <1>10 DEF Stands
  <1>13. info.DriverMode = kind.mode => drive'.mode = kind.mode
    BY <1>3 DEF CanInv, Told
  <1>14. CASE t = <<>>
    <2>1. s = answers /\ (s # <<>> => opened')
      BY <1>5, <1>8, <1>14 DEF CanInv, Heard
    <2> QED  BY <1>5, <1>7, <1>8, <1>10, <2>1 DEF Line, CanInv, ModeStays, CanTypes
  <1>15. CASE t = <<e>>
    <2>1. Len(answers) \in Nat
      BY <1>1
    <2>2. \A i \in 1..Len(s) : (i \in 1..Len(answers) /\ s[i] = answers[i])
                               \/ (i = Len(answers) + 1 /\ s[i] = e)
      BY <1>9, <1>15, <2>1
    <2>3. \A i \in 1..Len(s) : Stands(s[i])
      BY <1>10, <1>11, <2>2
    <2>4. ASSUME NEW i \in 1..Len(s), NEW j \in 1..Len(s), i < j,
                 s[i].ins = "getMode", s[j].ins = "getMode", s[i].data = kind.mode
          PROVE  s[j].data = kind.mode
      <3>1. i \in 1..Len(answers) /\ s[i] = answers[i]
        BY <2>1, <2>2, <2>4
      <3>2. CASE j \in 1..Len(answers) /\ s[j] = answers[j]
        BY <2>4, <3>1, <3>2 DEF CanInv, ModeStays
      <3>3. CASE s[j] = e
        BY <1>4, <1>12, <2>4, <3>1, <3>3
      <3> QED  BY <2>2, <3>2, <3>3
    <2>5. ASSUME info.DriverMode = kind.mode, NEW i \in 1..Len(s), s[i].ins = "getMode"
          PROVE  s[i].data = kind.mode
      <3>1. CASE i \in 1..Len(answers) /\ s[i] = answers[i]
        BY <2>5, <3>1 DEF CanInv, ModeStays
      <3>2. CASE s[i] = e
        BY <1>4, <1>13, <2>5, <3>2
      <3> QED  BY <2>2, <3>1, <3>2
    <2>6. opened'
      BY <1>6, <1>15
    <2>7. Line(s)
      BY <1>8, <2>3, <2>4, <2>5, <2>6 DEF Line
    <2>8. opened' \in BOOLEAN
      BY <1>1, <1>5 DEF CanTypes
    <2> QED  BY <1>7, <2>6, <2>7, <2>8
  <1> QED  BY <1>6, <1>14, <1>15

\* A cycle whose request is lost leaves the line as it is.
LEMMA UnsentLine ==
  ASSUME CanInv, UNCHANGED <<opened, drive>>
  PROVE  Line(answers)
  <1>1. \A i \in 1..Len(answers) : Stands(answers[i])
    BY StillStands DEF CanInv, Told
  <1> QED  BY <1>1 DEF Line, CanInv, CanTypes, ModeStays, Heard

\* What a cycle of the bus does, whether its exchange works or not.
LEMMA BusFacts ==
  ASSUME CanInv, Bus
  PROVE  /\ OnRequest /\ OnResponse(input')
         /\ UNCHANGED <<kind, step, targetPos, maxStep, noticed, late>> /\ lost' \in BOOLEAN
         /\ drive' \in [power : {"disabled", "ready", "switched", "on", "fault"},
                        mode : {0, kind.mode}, set : Int, real : Int]
         /\ drive.mode = kind.mode => drive'.mode = kind.mode
         /\ drive'.power = "on" => drive.power = "on" \/ stage \notin Early
         /\ (opened => opened') /\ opened' \in BOOLEAN
         /\ \E s : /\ Line(s)
                   /\ answers' = s \/ (s # <<>> /\ answers' = Tail(s))
                   /\ \/ input' \in {Nothing, input}
                      \/ s # <<>> /\ input' = Head(s) /\ answers' = Tail(s)
  <1>1. CASE Exchange
    <2>1. /\ OnRequest /\ OnResponse(input') /\ Sent
          /\ UNCHANGED <<kind, step, targetPos, maxStep, noticed, late, lost>>
      BY <1>1 DEF Exchange, command
    <2>2. Taken \in Frames /\ Allowed(Taken) /\ drive' = Serve(drive, Taken)
      BY <2>1, RequestFacts DEF Sent
    <2>3. \/ OnTheWay # <<>> /\ input' = Head(OnTheWay) /\ answers' = Tail(OnTheWay)
          \/ input' = Nothing /\ answers' = OnTheWay
      BY <1>1 DEF Exchange
    <2>4. Line(OnTheWay) /\ (opened => opened') /\ opened' \in BOOLEAN
      BY <2>1, SentLine
    <2>5. \E s : /\ Line(s)
                 /\ answers' = s \/ (s # <<>> /\ answers' = Tail(s))
                 /\ \/ input' \in {Nothing, input}
                    \/ s # <<>> /\ input' = Head(s) /\ answers' = Tail(s)
      BY <2>3, <2>4
    <2>6. lost' \in BOOLEAN
      BY <2>1 DEF CanInv, CanTypes
    <2> QED  BY <2>1, <2>2, <2>4, <2>5, <2>6, ServeFacts
  <1>2. CASE LoseExchange
    <2>1. /\ OnRequest /\ OnResponse(input') /\ input' = input /\ lost' = TRUE
          /\ UNCHANGED <<kind, step, targetPos, maxStep, noticed, late>>
      BY <1>2 DEF LoseExchange, command
    <2>2. CASE UNCHANGED <<opened, drive, answers>>
      <3>1. Line(answers)
        BY <2>2, UnsentLine
      <3> QED  BY <2>1, <2>2, <3>1 DEF CanInv, CanTypes
    <2>3. CASE Sent /\ answers' = IF OnTheWay = <<>> THEN <<>> ELSE Tail(OnTheWay)
      <3>1. Taken \in Frames /\ Allowed(Taken) /\ drive' = Serve(drive, Taken)
        BY <2>1, <2>3, RequestFacts DEF Sent
      <3>2. Line(OnTheWay) /\ (opened => opened') /\ opened' \in BOOLEAN
        BY <2>1, <2>3, SentLine
      <3>3. \E s : /\ Line(s)
                   /\ answers' = s \/ (s # <<>> /\ answers' = Tail(s))
                   /\ input' \in {Nothing, input}
        BY <2>1, <2>3, <3>2
      <3> QED  BY <2>1, <3>1, <3>2, <3>3, ServeFacts
    <2> QED  BY <1>2, <2>2, <2>3 DEF LoseExchange
  <1> QED  BY <1>1, <1>2 DEF Bus

\* What the worker sees of an answer.
LEMMA ResponseFacts ==
  ASSUME CanInv, NEW f \in Frames, OnResponse(f)
  PROVE  /\ info' \in [DriverEnable : {0, 1, 3, 4}, DriverMode : Int, ReceivePos : Int,
                       RatedCurrent : Int]
         /\ f.ins = "getMode" => info'.DriverMode = f.data
         /\ f.ins # "getMode" => info'.DriverMode = info.DriverMode
         /\ f.ins = "getPos" => info'.ReceivePos = f.data
         /\ f.ins # "getPos" => info'.ReceivePos = info.ReceivePos
         /\ info'.DriverEnable = 0 =>
              info.DriverEnable = 0 \/ (f.ins = "getState" /\ f.data = kind.off)
         /\ statusReady' \subseteq StatusParts
         /\ "getVel" \in statusReady' => "getVel" \in statusReady \/ f.ins = "getVel"
         /\ ready' \in BOOLEAN /\ (ready => ready')
         /\ ready' => ready \/ "getVel" \in statusReady \/ f.ins = "getVel"
  <1>1. f.data \in Int /\ info \in [DriverEnable : {0, 1, 3, 4}, DriverMode : Int,
                                    ReceivePos : Int, RatedCurrent : Int]
    BY DEF Frames, CanInv, CanTypes
  <1>2. Enable(f.data) \in {0, 1, 3, 4}
    BY <1>1 DEF Enable
  <1>3. Enable(f.data) = 0 => info.DriverEnable = 0 \/ f.data = kind.off
    BY <1>1 DEF Enable
  <1>4. info' = CASE f.ins = "getState" -> [info EXCEPT !.DriverEnable = Enable(f.data)]
                  [] f.ins = "getMode" -> [info EXCEPT !.DriverMode = f.data]
                  [] f.ins = "getPos" -> [info EXCEPT !.ReceivePos = f.data]
                  [] f.ins = "getRated" -> [info EXCEPT !.RatedCurrent = f.data]
                  [] OTHER -> info
    BY DEF OnResponse
  <1> DEFINE typed == info' \in [DriverEnable : {0, 1, 3, 4}, DriverMode : Int,
                                 ReceivePos : Int, RatedCurrent : Int]
             shown == /\ f.ins = "getMode" => info'.DriverMode = f.data
                      /\ f.ins # "getMode" => info'.DriverMode = info.DriverMode
                      /\ f.ins = "getPos" => info'.ReceivePos = f.data
                      /\ f.ins # "getPos" => info'.ReceivePos = info.ReceivePos
                      /\ info'.DriverEnable = 0 =>
                           info.DriverEnable = 0 \/ (f.ins = "getState" /\ f.data = kind.off)
  <1>5. typed /\ shown
    <2>1. CASE f.ins = "getState"
      BY <1>1, <1>2, <1>3, <1>4, <2>1
    <2>2. CASE f.ins = "getMode"
      BY <1>1, <1>4, <2>2
    <2>3. CASE f.ins = "getPos"
      BY <1>1, <1>4, <2>3
    <2>4. CASE f.ins = "getRated"
      BY <1>1, <1>4, <2>4
    <2>5. CASE f.ins \notin {"getState", "getMode", "getPos", "getRated"}
      BY <1>1, <1>4, <2>5
    <2> QED  BY <2>1, <2>2, <2>3, <2>4, <2>5
  <1> HIDE DEF typed, shown
  <1> DEFINE parts == statusReady \cup ({f.ins} \cap StatusParts)
             full == IF Position THEN "getPos" \in parts ELSE parts = StatusParts
  <1>6. /\ statusReady' = IF full THEN {} ELSE parts
        /\ ready' = (ready \/ (full /\ ~Position))
    BY DEF OnResponse
  <1>7. parts \subseteq StatusParts
    BY DEF CanInv, CanTypes
  <1>8. "getVel" \in parts => "getVel" \in statusReady \/ f.ins = "getVel"
    OBVIOUS
  <1>9. full /\ ~Position => "getVel" \in parts
    BY DEF StatusParts
  <1> HIDE DEF parts, full
  <1>10. statusReady' \subseteq StatusParts /\ ("getVel" \in statusReady' => "getVel" \in parts)
    BY <1>6, <1>7
  <1>11. /\ ready' \in BOOLEAN /\ (ready => ready')
         /\ ready' => ready \/ "getVel" \in parts
    BY <1>6, <1>9, Zenon
  <1> QED  BY <1>5, <1>8, <1>10, <1>11, Zenon DEF typed, shown

\* Whatever the cycle brings, what is left on the line tells the truth, and the worker
\* is told the truth.
LEMMA LineFacts ==
  ASSUME CanInv, OnResponse(input'), NEW s, Line(s),
         kind' = kind, opened => opened',
         drive.mode = kind.mode => drive'.mode = kind.mode,
         drive'.power = "on" => drive.power = "on" \/ stage \notin Early,
         answers' = s \/ (s # <<>> /\ answers' = Tail(s)),
         \/ input' \in {Nothing, input}
         \/ s # <<>> /\ input' = Head(s) /\ answers' = Tail(s)
  PROVE  /\ answers' \in Seq(Frames) /\ input' \in Frames
         /\ \A i \in 1..Len(answers') : Stands(answers'[i])
         /\ Stands(input')
         /\ (answers' # <<>> => opened') /\ (input'.ins # "nothing" => opened')
         /\ ModeStays'
  <1>1. /\ s \in Seq(Frames) /\ Len(s) \in Nat
        /\ \A i \in 1..Len(s) : Stands(s[i])
        /\ s # <<>> => opened'
    BY DEF Line
  <1>2. Nothing \in Frames /\ Stands(Nothing) /\ Nothing.ins = "nothing"
    BY DEF Nothing, Frames, Instructions, Stands
  <1>3. input \in Frames /\ Stands(input) /\ (input.ins # "nothing" => opened')
    <2>1. input \in Frames /\ Credible(input) /\ (input.ins # "nothing" => opened)
      BY DEF CanInv, CanTypes, Told, Heard
    <2> QED  BY <2>1, StillStands
  <1>4. s # <<>> => /\ Head(s) \in Frames /\ Head(s) = s[1] /\ 1 \in 1..Len(s)
                    /\ Tail(s) \in Seq(Frames) /\ Len(Tail(s)) = Len(s) - 1
                    /\ \A i \in 1..Len(Tail(s)) : i + 1 \in 1..Len(s) /\ Tail(s)[i] = s[i + 1]
    BY <1>1, TailFacts
  <1>5. input' \in Frames /\ Stands(input') /\ (input'.ins # "nothing" => opened')
    <2>1. CASE input' \in {Nothing, input}
      BY <1>2, <1>3, <2>1
    <2>2. CASE s # <<>> /\ input' = Head(s)
      BY <1>1, <1>4, <2>2
    <2> QED  BY <2>1, <2>2
  <1>6. answers' \in Seq(Frames) /\ (answers' # <<>> => opened')
        /\ \A i \in 1..Len(answers') : Stands(answers'[i])
    <2>1. CASE answers' = s
      BY <1>1, <2>1
    <2>2. CASE s # <<>> /\ answers' = Tail(s)
      BY <1>1, <1>4, <2>2
    <2> QED  BY <2>1, <2>2
  <1>7. /\ input'.ins = "getMode" => info'.DriverMode = input'.data
        /\ input'.ins # "getMode" => info'.DriverMode = info.DriverMode
    BY <1>5, ResponseFacts
  <1>8. ASSUME NEW i \in 1..Len(answers'), NEW j \in 1..Len(answers'), i < j,
               answers'[i].ins = "getMode", answers'[j].ins = "getMode",
               answers'[i].data = kind.mode
        PROVE  answers'[j].data = kind.mode
    <2>1. CASE answers' = s
      BY <1>8, <2>1 DEF Line
    <2>2. CASE s # <<>> /\ answers' = Tail(s)
      <3>1. /\ i + 1 \in 1..Len(s) /\ answers'[i] = s[i + 1]
            /\ j + 1 \in 1..Len(s) /\ answers'[j] = s[j + 1] /\ i + 1 < j + 1
        BY <1>4, <1>8, <2>2
      <3> QED  BY <1>8, <3>1 DEF Line
    <2> QED  BY <2>1, <2>2
  <1>9. ASSUME info.DriverMode = kind.mode, NEW i \in 1..Len(answers'),
               answers'[i].ins = "getMode"
        PROVE  answers'[i].data = kind.mode
    <2>1. CASE answers' = s
      BY <1>9, <2>1 DEF Line
    <2>2. CASE s # <<>> /\ answers' = Tail(s)
      <3>1. i + 1 \in 1..Len(s) /\ answers'[i] = s[i + 1]
        BY <1>4, <1>9, <2>2
      <3> QED  BY <1>9, <3>1 DEF Line
    <2> QED  BY <2>1, <2>2
  <1>10. ASSUME info'.DriverMode = kind.mode, NEW i \in 1..Len(answers'),
                answers'[i].ins = "getMode"
         PROVE  answers'[i].data = kind.mode
    <2>1. CASE input'.ins # "getMode"
      BY <1>7, <1>9, <1>10, <2>1
    <2>2. CASE input'.ins = "getMode" /\ input' \in {Nothing, input}
      <3>1. input' = input /\ info.DriverMode = input.data
        BY <1>2, <2>2 DEF CanInv, ModeStays
      <3> QED  BY <1>7, <1>9, <1>10, <2>2, <3>1
    <2>3. CASE input'.ins = "getMode" /\ s # <<>> /\ input' = Head(s) /\ answers' = Tail(s)
      <3>1. input' = s[1] /\ 1 \in 1..Len(s) /\ s[1].data = kind.mode
        BY <1>4, <1>7, <1>10, <2>3
      <3>2. i + 1 \in 1..Len(s) /\ answers'[i] = s[i + 1] /\ 1 < i + 1
        BY <1>4, <1>10, <2>3
      <3> QED  BY <1>10, <2>3, <3>1, <3>2 DEF Line
    <2> QED  BY <2>1, <2>2, <2>3
  <1>11. ModeStays'
    BY <1>7, <1>8, <1>10 DEF ModeStays
  <1> QED  BY <1>5, <1>6, <1>11

\* All of the invariant but the last part, whether the exchange works or not.
LEMMA BusInv ==
  ASSUME CanInv, Bus
  PROVE  CanTypes' /\ CommandsInCycle' /\ Told' /\ ModeStays' /\ Confirmed' /\ Heard'
  <1> CanTypes
    BY DEF CanInv
  <1>1. /\ OnRequest /\ OnResponse(input')
        /\ UNCHANGED <<kind, step, targetPos, maxStep, noticed, late>> /\ lost' \in BOOLEAN
        /\ drive' \in [power : {"disabled", "ready", "switched", "on", "fault"},
                       mode : {0, kind.mode}, set : Int, real : Int]
        /\ drive.mode = kind.mode => drive'.mode = kind.mode
        /\ drive'.power = "on" => drive.power = "on" \/ stage \notin Early
        /\ (opened => opened') /\ opened' \in BOOLEAN
    BY BusFacts
  <1>2. PICK s : /\ Line(s)
                 /\ answers' = s \/ (s # <<>> /\ answers' = Tail(s))
                 /\ \/ input' \in {Nothing, input}
                    \/ s # <<>> /\ input' = Head(s) /\ answers' = Tail(s)
    BY BusFacts
  <1>3. /\ answers' \in Seq(Frames) /\ input' \in Frames
        /\ \A i \in 1..Len(answers') : Stands(answers'[i])
        /\ Stands(input')
        /\ (answers' # <<>> => opened') /\ (input'.ins # "nothing" => opened')
        /\ ModeStays'
    BY <1>1, <1>2, LineFacts
  <1>4. /\ reqQueue' \in Seq(Frames) /\ Len(reqQueue') <= Len(reqQueue) /\ notActive' = FALSE
        /\ \A i \in 1..Len(reqQueue') :
              i + 1 \in 1..Len(reqQueue) /\ reqQueue'[i] = reqQueue[i + 1]
    BY <1>1, RequestFacts
  <1>5. /\ stage' \in Early \cup {"enable", "cycle"}
        /\ step' \in 1..(IF InLoop' THEN Len(Loops'[stage']) ELSE 1)
        /\ stage' \in Early <=> stage \in Early
        /\ stage' = "disable" => stage \in {"none", "disable"}
        /\ stage' # "none"
        /\ stage \in {"mode", "enable", "cycle"} => stage' = stage
        /\ stage' \in {"mode", "enable", "cycle"} => stage' = stage
    BY <1>1, StageFacts
  <1>6. /\ info' \in [DriverEnable : {0, 1, 3, 4}, DriverMode : Int, ReceivePos : Int,
                      RatedCurrent : Int]
        /\ input'.ins = "getMode" => info'.DriverMode = input'.data
        /\ input'.ins # "getMode" => info'.DriverMode = info.DriverMode
        /\ info'.DriverEnable = 0 =>
             info.DriverEnable = 0 \/ (input'.ins = "getState" /\ input'.data = kind.off)
        /\ statusReady' \subseteq StatusParts
        /\ "getVel" \in statusReady' => "getVel" \in statusReady \/ input'.ins = "getVel"
        /\ ready' \in BOOLEAN /\ (ready => ready')
        /\ ready' => ready \/ "getVel" \in statusReady \/ input'.ins = "getVel"
    BY <1>1, <1>3, ResponseFacts
  <1>7. CanTypes'
    <2>1. Len(reqQueue') <= QueueMax
      BY <1>4, MotorAssumption DEF CanTypes
    <2>2. noticed' \in Int /\ (noticed' # 0 => stage' = "cycle" /\ Position')
      BY <1>1, <1>5 DEF CanTypes, Position
    <2> QED  BY <1>1, <1>3, <1>4, <1>5, <1>6, <2>1, <2>2 DEF CanTypes
  <1>8. input'.ins = "getVel" => stage = "cycle"
    BY <1>3 DEF Stands
  <1>9. CommandsInCycle'
    BY <1>1, <1>5, <1>6, <1>8 DEF CanInv, CommandsInCycle, Told
  <1>10. info'.DriverMode = kind.mode => drive'.mode = kind.mode
    <2>1. CASE input'.ins = "getMode"
      BY <1>3, <1>6, <2>1 DEF Stands
    <2>2. CASE input'.ins # "getMode"
      BY <1>1, <1>6, <2>2 DEF CanInv, Told
    <2> QED  BY <2>1, <2>2
  <1>11. info'.DriverEnable = 0 /\ stage \in Early => drive'.power # "on"
    BY <1>1, <1>3, <1>6 DEF CanInv, Told, Stands
  <1>12. Told'
    <2>1. \A g : Allowed(g) => Allowed(g)'
      BY <1>1, <1>5 DEF Allowed
    <2>2. \A g : Stands(g) => Credible(g)'
      BY <1>1, <1>5 DEF Stands, Credible
    <2>3. (\A i \in 1..Len(reqQueue) : Allowed(reqQueue[i]))'
      BY <1>4, <2>1 DEF CanInv, Told
    <2>4. (\A i \in 1..Len(answers) : Credible(answers[i]))' /\ Credible(input)'
      BY <1>3, <2>2
    <2>5. "getVel" \in statusReady' => stage' = "cycle"
      BY <1>5, <1>6, <1>8 DEF CanInv, Told
    <2> QED  BY <1>1, <1>5, <1>10, <1>11, <2>3, <2>4, <2>5 DEF Told
  <1>13. Confirmed'
    <2>1. stage' = "mode" => drive'.power # "on"
      BY <1>1, <1>5 DEF CanInv, Confirmed, Early
    <2>2. ASSUME stage' \in {"enable", "cycle"}
          PROVE  info'.DriverMode = kind.mode /\ drive'.mode = kind.mode
      <3>1. stage' = stage /\ info.DriverMode = kind.mode /\ drive'.mode = kind.mode
        BY <1>1, <1>5, <2>2 DEF CanInv, Confirmed
      <3>2. input'.ins = "getMode" => input'.data = kind.mode
        <4>1. CASE input' \in {Nothing, input}
          BY <3>1, <4>1 DEF CanInv, ModeStays, Nothing
        <4>2. CASE s # <<>> /\ input' = Head(s)
          <5>1. Head(s) = s[1] /\ 1 \in 1..Len(s)
            BY <1>2, <4>2, TailFacts DEF Line
          <5> QED  BY <1>2, <3>1, <4>2, <5>1 DEF Line
        <4> QED  BY <1>2, <4>1, <4>2
      <3> QED  BY <1>6, <3>1, <3>2
    <2> QED  BY <1>1, <2>1, <2>2 DEF Confirmed
  <1>14. Heard'
    BY <1>1, <1>3, <1>5, <1>6 DEF CanInv, Heard
  <1> QED  BY <1>3, <1>7, <1>9, <1>12, <1>13, <1>14

\* Before the cycle of the worker, in time, a cycle of the bus leaves no request waiting,
\* and moves at most one answer: one that was on its way, or the one to its request.
LEMMA OneAnswer ==
  ASSUME CanInv, Exchange, OneAtATime
  PROVE  /\ reqQueue' = <<>> /\ OneAtATime'
         /\ reqQueue = <<>> => Taken = Nothing /\ OnTheWay = answers
         /\ reqQueue # <<>> => /\ Len(reqQueue) = 1 /\ Taken = reqQueue[1] /\ answers = <<>>
                               /\ OnTheWay = <<>> \/ \E x : x.ins = Taken.ins /\ OnTheWay = <<x>>
                               /\ opened /\ Taken.ins = "getPos" =>
                                    OnTheWay = <<[ins |-> "getPos", data |-> drive'.real]>>
         /\ \/ OnTheWay = <<>> /\ answers' = <<>> /\ input' = Nothing
            \/ \E x \in Frames : /\ OnTheWay = <<x>>
                                 /\ \/ answers' = <<x>> /\ input' = Nothing
                                    \/ answers' = <<>> /\ input' = x
  <1>1. /\ OnRequest /\ Sent
        /\ \/ OnTheWay # <<>> /\ input' = Head(OnTheWay) /\ answers' = Tail(OnTheWay)
           \/ input' = Nothing /\ answers' = OnTheWay
    BY DEF Exchange
  <1>2. /\ reqQueue \in Seq(Frames) /\ answers \in Seq(Frames) /\ kind \in Kinds
        /\ Len(reqQueue) \in Nat /\ Len(answers) \in {0, 1}
    <2>1. reqQueue \in Seq(Frames) /\ answers \in Seq(Frames) /\ kind \in Kinds
      BY DEF CanInv, CanTypes
    <2>2. Len(reqQueue) \in Nat /\ Len(answers) \in Nat
      BY <2>1, LenProperties
    <2>3. Len(answers) <= 1
      BY DEF OneAtATime
    <2>4. \A n \in Nat : n <= 1 => n \in {0, 1}
      OBVIOUS
    <2> QED  BY <2>1, <2>2, <2>3, <2>4, Zenon
  <1>3. /\ Taken \in Frames /\ Allowed(Taken) /\ drive' = Serve(drive, Taken)
        /\ reqQueue' \in Seq(Frames)
        /\ reqQueue = <<>> => Taken = Nothing /\ reqQueue' = <<>>
        /\ reqQueue # <<>> => Taken = reqQueue[1] /\ Len(reqQueue') = Len(reqQueue) - 1
    BY <1>1, RequestFacts DEF Sent
  <1>4. reqQueue # <<>> => Len(reqQueue) = 1 /\ answers = <<>>
    BY DEF OneAtATime
  <1>5. reqQueue' = <<>>
    <2>1. CASE reqQueue = <<>>
      BY <1>3, <2>1
    <2>2. CASE reqQueue # <<>>
      <3>1. Len(reqQueue) = 1 /\ Len(reqQueue') = Len(reqQueue) - 1
        BY <1>3, <1>4, <2>2, Zenon
      <3>2. Len(reqQueue') = 0
        BY <3>1
      <3> QED  BY <1>3, <3>2, ShortSequences
    <2> QED  BY <2>1, <2>2
  <1>6. drive' \in [power : {"disabled", "ready", "switched", "on", "fault"},
                    mode : {0, kind.mode}, set : Int, real : Int]
    BY <1>3, ServeFacts
  <1> DEFINE e == [ins |-> Taken.ins, data |-> Value(drive', Taken.ins)]
  <1>7. /\ Answer(drive', Taken) \in {<<>>, <<e>>} /\ e \in Frames /\ e.ins = Taken.ins
        /\ Taken = Nothing => Answer(drive', Taken) = <<>>
        /\ Taken.ins = "getPos" =>
             Answer(drive', Taken) = <<[ins |-> "getPos", data |-> drive'.real]>>
    BY <1>2, <1>3, <1>6, AnswerFacts
  <1> HIDE DEF e
  <1>8. ASSUME reqQueue = <<>>
        PROVE  /\ Taken = Nothing /\ OnTheWay = answers
               /\ OnTheWay = <<>> \/ \E x \in Frames : OnTheWay = <<x>>
    <2>1. Taken = Nothing /\ OnTheWay = answers
      BY <1>2, <1>3, <1>7, <1>8, ConcatEmptySeq DEF OnTheWay
    <2>2. answers = <<>> \/ \E x \in Frames : answers = <<x>>
      <3>1. CASE Len(answers) = 0
        BY <1>2, <3>1, ShortSequences
      <3>2. CASE Len(answers) = 1
        <4>1. answers[1] \in Frames /\ answers = <<answers[1]>>
          BY <1>2, <3>2, ShortSequences
        <4> QED  BY <4>1, Zenon
      <3> QED  BY <1>2, <3>1, <3>2
    <2> QED  BY <2>1, <2>2, Zenon
  <1>9. ASSUME reqQueue # <<>>
        PROVE  /\ Len(reqQueue) = 1 /\ Taken = reqQueue[1] /\ answers = <<>>
               /\ OnTheWay \in {<<>>, <<e>>}
               /\ opened /\ Taken.ins = "getPos" =>
                    OnTheWay = <<[ins |-> "getPos", data |-> drive'.real]>>
    <2>1. answers = <<>>
      BY <1>4, <1>9
    <2>2. /\ OnTheWay = <<>> \/ OnTheWay = <<e>>
          /\ opened => OnTheWay = Answer(drive', Taken)
      <3> DEFINE t == IF opened \/ notActive THEN Answer(drive', Taken) ELSE <<>>
      <3>1. t = <<>> \/ t = <<e>>
        BY <1>7
      <3>2. t \in Seq(Frames)
        BY <1>7, <3>1, ShortSequences
      <3>3. <<>> \o t = t
        BY <3>2, ConcatEmptySeq
      <3>4. OnTheWay = t
        BY <2>1, <3>3 DEF OnTheWay
      <3>5. opened => t = Answer(drive', Taken)
        OBVIOUS
      <3> QED  BY <3>1, <3>4, <3>5
    <2> QED  BY <1>3, <1>4, <1>7, <1>9, <2>1, <2>2
  <1>10. /\ reqQueue = <<>> => Taken = Nothing /\ OnTheWay = answers
         /\ reqQueue # <<>> => /\ Len(reqQueue) = 1 /\ Taken = reqQueue[1] /\ answers = <<>>
                               /\ OnTheWay = <<>> \/ \E x : x.ins = Taken.ins /\ OnTheWay = <<x>>
                               /\ opened /\ Taken.ins = "getPos" =>
                                    OnTheWay = <<[ins |-> "getPos", data |-> drive'.real]>>
    BY <1>7, <1>8, <1>9, Zenon
  <1>11. OnTheWay = <<>> \/ \E x \in Frames : OnTheWay = <<x>>
    BY <1>7, <1>8, <1>9, Zenon
  <1>12. \/ OnTheWay = <<>> /\ answers' = <<>> /\ input' = Nothing
         \/ \E x \in Frames : /\ OnTheWay = <<x>>
                              /\ \/ answers' = <<x>> /\ input' = Nothing
                                 \/ answers' = <<>> /\ input' = x
    <2>1. ASSUME NEW x \in Frames, OnTheWay = <<x>>
          PROVE  Head(OnTheWay) = x /\ Tail(OnTheWay) = <<>>
      BY <2>1, ShortSequences
    <2> QED  BY <1>1, <1>11, <2>1
  <1>13. Len(answers') <= 1
    <2>1. CASE answers' = <<>>
      <3>1. Len(answers') = 0
        BY <2>1
      <3> QED  BY <3>1
    <2>2. ASSUME NEW x \in Frames, answers' = <<x>> PROVE Len(answers') <= 1
      <3>1. Len(answers') = 1
        BY <2>2
      <3> QED  BY <3>1
    <2> QED  BY <1>12, <2>1, <2>2, Zenon
  <1>14. OneAtATime'
    BY <1>5, <1>13, Zenon DEF OneAtATime
  <1> QED  BY <1>5, <1>10, <1>12, <1>14, Zenon

\* The initial set point survives a cycle of the bus that works.
LEMMA ExchangeInPlace ==
  ASSUME CanInv, Exchange
  PROVE  InPlace'
  <1> SUFFICES ASSUME InTime', Position', stage' # "cycle" PROVE InPlace'
    BY DEF InPlace
  <1>1. /\ OnRequest /\ Sent /\ OnResponse(input') /\ Bus
        /\ kind' = kind /\ step' = step /\ lost' = lost /\ late' = late
    BY DEF Exchange, Bus
  <1>2. InTime /\ Position
    BY <1>1 DEF InTime, Position
  <1>3. /\ stage' = "disable" => stage \in {"none", "disable"}
        /\ stage' \in {"mode", "enable", "cycle"} => stage' = stage
        /\ stage' \in {"disable", "mode", "enable"} /\ stage # "cycle"
    BY <1>1, StageFacts DEF Early
  <1>4. OneAtATime
    BY <1>2, <1>3 DEF CanInv, InPlace
  <1>5. /\ reqQueue' = <<>> /\ OneAtATime'
        /\ reqQueue = <<>> => Taken = Nothing /\ OnTheWay = answers
        /\ reqQueue # <<>> => /\ Len(reqQueue) = 1 /\ Taken = reqQueue[1] /\ answers = <<>>
                              /\ OnTheWay = <<>> \/ \E x : x.ins = Taken.ins /\ OnTheWay = <<x>>
                              /\ opened /\ Taken.ins = "getPos" =>
                                   OnTheWay = <<[ins |-> "getPos", data |-> drive'.real]>>
        /\ \/ OnTheWay = <<>> /\ answers' = <<>> /\ input' = Nothing
           \/ \E x \in Frames : /\ OnTheWay = <<x>>
                                /\ \/ answers' = <<x>> /\ input' = Nothing
                                   \/ answers' = <<>> /\ input' = x
    BY <1>4, OneAnswer
  <1>6. /\ Taken \in Frames /\ Allowed(Taken) /\ drive' = Serve(drive, Taken)
        /\ input' \in Frames
    <2>1. Nothing \in Frames
      BY DEF Nothing, Frames, Instructions
    <2> QED  BY <1>1, <1>5, <2>1, RequestFacts DEF Sent
  <1>7. /\ drive'.power = "on" => drive.power = "on" \/ stage \notin Early
        /\ Taken.ins = "setPos" => drive'.set = Taken.data
        /\ Taken.ins # "setPos" => drive'.set = drive.set
        /\ drive'.real \in {drive.real, drive'.set}
        /\ drive'.power # "on" => drive'.real = drive.real
    BY <1>6, ServeFacts
  <1>8. /\ input'.ins = "getMode" => info'.DriverMode = input'.data
        /\ input'.ins # "getMode" => info'.DriverMode = info.DriverMode
        /\ input'.ins = "getPos" => info'.ReceivePos = input'.data
        /\ input'.ins # "getPos" => info'.ReceivePos = info.ReceivePos
    BY <1>1, <1>6, ResponseFacts
  <1>9. Nothing.ins = "nothing"
    BY DEF Nothing
  <1>10. Asked' => Asked
    <2>1. ASSUME NEW x, OnTheWay = <<x>>, x.ins = "getMode"
          PROVE  Asked
      <3>1. CASE reqQueue = <<>>
        <4>1. 1 \in 1..Len(answers) /\ answers[1] = x
          BY <1>5, <2>1, <3>1
        <4> QED  BY <2>1, <4>1 DEF Asked
      <3>2. CASE reqQueue # <<>>
        <4>1. PICK y : y.ins = Taken.ins /\ OnTheWay = <<y>>
          BY <1>5, <2>1, <3>2
        <4>2. y = x
          BY <2>1, <4>1
        <4>3. 1 \in 1..Len(reqQueue) /\ reqQueue[1].ins = "getMode"
          BY <1>5, <2>1, <3>2, <4>1, <4>2
        <4> QED  BY <4>3 DEF Asked
      <3> QED  BY <3>1, <3>2
    <2>2. CASE OnTheWay = <<>> /\ answers' = <<>> /\ input' = Nothing
      <3>1. info'.DriverMode = info.DriverMode /\ kind' = kind
        BY <1>1, <1>8, <1>9, <2>2
      <3>2. Len(reqQueue') = 0 /\ Len(answers') = 0
        BY <1>5, <2>2
      <3> QED  BY <3>1, <3>2 DEF Asked
    <2>3. ASSUME NEW x \in Frames, OnTheWay = <<x>>, answers' = <<x>>, input' = Nothing, Asked'
          PROVE  Asked
      <3>1. info'.DriverMode = info.DriverMode /\ kind' = kind
        BY <1>1, <1>8, <1>9, <2>3
      <3>2. Len(reqQueue') = 0 /\ \A i \in 1..Len(answers') : answers'[i] = x
        BY <1>5, <2>3
      <3>3. x.ins = "getMode" \/ info.DriverMode = kind.mode
        BY <2>3, <3>1, <3>2 DEF Asked
      <3> QED  BY <2>1, <2>3, <3>3 DEF Asked
    <2>4. ASSUME NEW x \in Frames, OnTheWay = <<x>>, answers' = <<>>, input' = x, Asked'
          PROVE  Asked
      <3>1. Len(reqQueue') = 0 /\ Len(answers') = 0
        BY <1>5, <2>4
      <3>2. info'.DriverMode = kind.mode
        BY <1>1, <2>4, <3>1 DEF Asked
      <3>3. x.ins = "getMode" \/ info.DriverMode = kind.mode
        BY <1>8, <2>4, <3>2
      <3> QED  BY <2>1, <2>4, <3>3 DEF Asked
    <2> QED  BY <1>5, <2>2, <2>3, <2>4
  <1>11. Len(reqQueue') = 0
    BY <1>5
  <1>12. CASE stage' = "disable"
    <2>1. ~Asked'
      BY <1>2, <1>3, <1>10, <1>12 DEF CanInv, InPlace
    <2> QED  BY <1>5, <1>12, <2>1 DEF InPlace
  <1>13. ASSUME stage' \in {"mode", "enable"}
         PROVE  Taken.ins = "setPos" => Taken.data = drive.real
    <2>1. CASE reqQueue = <<>>
      BY <1>5, <1>9, <2>1
    <2>2. CASE reqQueue # <<>>
      <3>1. stage \in {"mode", "enable"} /\ 1 \in 1..Len(reqQueue) /\ Taken = reqQueue[1]
        BY <1>3, <1>5, <1>13, <2>2
      <3> QED  BY <1>2, <3>1 DEF CanInv, InPlace
    <2> QED  BY <2>1, <2>2
  <1>14. ASSUME stage' \in {"mode", "enable"}, drive.set = drive.real
         PROVE  drive'.set = drive'.real
    BY <1>7, <1>13, <1>14
  <1>15. CASE stage' = "enable"
    <2>1. drive.set = drive.real
      BY <1>2, <1>3, <1>15 DEF CanInv, InPlace
    <2>2. drive'.set = drive'.real
      BY <1>14, <1>15, <2>1
    <2> QED  BY <1>5, <1>11, <1>15, <2>2 DEF InPlace
  <1>16. CASE stage' = "mode"
    <2>1. stage = "mode"
      BY <1>3, <1>16
    <2>2. /\ Asked => drive.set = drive.real
          /\ step = 3 => PositionComing
          /\ step \in {4, 5} => reqQueue = <<SetPosition(drive.real)>> \/ drive.set = drive.real
          /\ opened /\ drive.power # "on"
      BY <1>2, <2>1 DEF CanInv, InPlace, Heard, Confirmed
    <2>3. drive'.real = drive.real
      BY <1>7, <2>1, <2>2 DEF Early
    <2>4. Asked' => drive'.set = drive'.real
      BY <1>10, <1>14, <1>16, <2>2
    <2>5. step \in {4, 5} => drive'.set = drive'.real
      <3>1. ASSUME reqQueue = <<SetPosition(drive.real)>>
            PROVE  drive'.set = drive'.real
        <4>1. Taken = SetPosition(drive.real)
          BY <1>5, <3>1
        <4> QED  BY <1>7, <2>3, <4>1 DEF SetPosition
      <3> QED  BY <1>14, <1>16, <2>2, <3>1
    <2> DEFINE a == [ins |-> "getPos", data |-> drive'.real]
    <2>6. ASSUME OnTheWay = <<a>> PROVE PositionComing'
      <3>1. CASE answers' = <<>> /\ input' = a
        BY <1>5, <1>8, <3>1 DEF PositionComing
      <3>2. CASE answers' = <<a>>
        BY <1>5, <3>2 DEF PositionComing
      <3>3. \A x : <<x>> = <<a>> => x = a
        OBVIOUS
      <3> QED  BY <1>5, <2>6, <3>1, <3>2, <3>3
    <2>7. step = 3 => PositionComing'
      <3>1. CASE reqQueue = <<Request("getPos")>>
        <4>1. Taken = Request("getPos") /\ reqQueue # <<>>
          BY <1>5, <3>1
        <4>2. OnTheWay = <<a>>
          BY <1>5, <2>2, <4>1 DEF Request
        <4> QED  BY <2>6, <4>2
      <3>2. CASE reqQueue = <<>> /\ answers = <<[ins |-> "getPos", data |-> drive.real]>>
        BY <1>5, <2>3, <2>6, <3>2
      <3>3. CASE reqQueue = <<>> /\ answers = <<>> /\ info.ReceivePos = drive.real
        <4>1. OnTheWay = <<>> /\ \A x : <<x>> # <<>>
          BY <1>5, <3>3
        <4>2. answers' = <<>> /\ input' = Nothing
          BY <1>5, <4>1
        <4> QED  BY <1>5, <1>8, <1>9, <2>3, <3>3, <4>2 DEF PositionComing
      <3> QED  BY <2>2, <3>1, <3>2, <3>3 DEF PositionComing
    <2> QED  BY <1>1, <1>5, <1>11, <1>16, <2>4, <2>5, <2>7 DEF InPlace
  <1> QED  BY <1>3, <1>12, <1>15, <1>16

\* An exchange that fails ends the promise that was made for a start in time.
LEMMA LoseInPlace ==
  ASSUME CanInv, LoseExchange
  PROVE  InPlace'
  BY DEF LoseExchange, InPlace, InTime

-----------------------------------------------------------------------------
(* The theorems *)

LEMMA NextCanInv == CanInv /\ [Next]_vars => CanInv'
  <1> SUFFICES ASSUME CanInv, [Next]_vars PROVE CanInv'
    OBVIOUS
  <1>1. CASE LoopStep
    BY <1>1, LoopStepInv
  <1>2. CASE LoopEnds
    BY <1>2, LoopEndsInv
  <1>3. CASE PositionCycle
    BY <1>3, PositionCycleInv
  <1>4. CASE TorqueCycle
    BY <1>4, TorqueCycleInv
  <1>5. CASE Divide
    BY <1>5, DivideInv
  <1>6. CASE Bus
    <2>1. CanTypes' /\ CommandsInCycle' /\ Told' /\ ModeStays' /\ Confirmed' /\ Heard'
      BY <1>6, BusInv
    <2>2. InPlace'
      BY <1>6, ExchangeInPlace, LoseInPlace DEF Bus
    <2> QED  BY <2>1, <2>2 DEF CanInv
  <1>7. CASE SetPos
    BY <1>7, SetPosInv
  <1>8. CASE Fault
    BY <1>8, FaultInv
  <1>9. CASE Settles
    BY <1>9, SettlesInv
  <1>10. CASE UNCHANGED vars
    <2>1. /\ UNCHANGED <<kind, stage, step, notActive, reqQueue, ready, info, statusReady>>
          /\ UNCHANGED <<targetPos, maxStep, noticed, opened, drive, answers, input, lost, late>>
      BY <1>10 DEF vars, worker, fields, command, outside
    <2>2. CanTypes' /\ CommandsInCycle' /\ Confirmed' /\ Heard' /\ ModeStays'
      BY <2>1 DEF CanInv, CanTypes, CommandsInCycle, Confirmed, Heard, ModeStays, InLoop, Loops,
                     Position
    <2>3. Told'
      BY <2>1 DEF CanInv, Told, Allowed, Credible
    <2>4. InPlace'
      BY <2>1 DEF CanInv, InPlace, InTime, Position, OneAtATime, Asked, PositionComing
    <2> QED  BY <2>2, <2>3, <2>4 DEF CanInv
  <1> QED  BY <1>1, <1>2, <1>3, <1>4, <1>5, <1>6, <1>7, <1>8, <1>9, <1>10 DEF Next, Worker

\* What the start-up threads of the CANopen motors were told holds of the drive, and each
\* loop is left only when it was: for any positions, any speeds and any queue.
THEOREM CanInvariant == Spec => []CanInv
  <1>1. Init => CanInv
    BY InitCanInv
  <1>2. CanInv /\ [Next]_vars => CanInv'
    BY NextCanInv
  <1> QED  BY <1>1, <1>2, PTL DEF Spec

\* The three loops of the start never switch the drive on in another mode than the one
\* wanted, whatever is lost or late.
THEOREM OnInTheWantedMode == Spec => []EnabledInMode
  <1>1. CanInv => EnabledInMode
    BY DEF CanInv, Confirmed, EnabledInMode
  <1> QED  BY <1>1, CanInvariant, PTL

\* A start whose exchanges work and whose answers come in time switches the motor on where
\* it stands.
THEOREM OnWithoutAJump == Spec => []SwitchedOnInPlace
  <1>1. CanInv => SwitchedOnInPlace
    BY DEF CanInv, InPlace, InTime, SwitchedOnInPlace
  <1> QED  BY <1>1, CanInvariant, PTL


-----------------------------------------------------------------------------
(* A motor that is on gets there *)

\* The rule of induction on the natural numbers, for states: if from P(k + 1) one comes to
\* P(k) or to Q, for every k, then from P(k) one comes to P(0) or to Q.  It holds of every
\* behaviour; theorems take the instances they need of it.
ByInduction(P(_), Q) ==
    (\A k \in Nat : P(k + 1) ~> (P(k) \/ Q)) => ((\E k \in Nat : P(k)) ~> (P(0) \/ Q))

\* Only a motor in position mode is sent anywhere, and only Eyou divides.
Sends == (maxStep >= 0 => Position) /\ (crashed => kind.eyou)

LEMMA SendsAlways == Spec => []Sends
  <1>1. Init => Sends
    BY DEF Init, Sends
  <1>2. Sends /\ [Next]_vars => Sends'
    <2> SUFFICES ASSUME Sends, [Next]_vars PROVE Sends'
      OBVIOUS
    <2>1. kind' = kind
      BY DEF vars, Next, Worker, LoopStep, LoopEnds, PositionCycle, Look, Move, TorqueCycle,
             Divide, Bus, Exchange, LoseExchange, SetPos, Fault, Settles
    <2>2. crashed' = crashed \/ kind.eyou
      BY DEF vars, Next, Worker, LoopStep, LoopEnds, PositionCycle, Look, Move, TorqueCycle,
             Divide, Bus, Exchange, LoseExchange, SetPos, Fault, Settles, worker
    <2>3. maxStep' = maxStep \/ Position
      BY DEF vars, Next, Worker, LoopStep, LoopEnds, PositionCycle, Look, Move, TorqueCycle,
             Divide, Bus, Exchange, LoseExchange, SetPos, Fault, Settles, command
    <2> QED  BY <2>1, <2>2, <2>3 DEF Sends, Position
  <1> QED  BY <1>1, <1>2, PTL DEF Spec

\* A ZeroErr motor that is on was sent somewhere, and is left in peace; what the worker has
\* noticed it would notice again.
Going == quiet /\ maxStep > 0 /\ drive.power = "on" /\ ~kind.eyou /\ Whole

Far(p) == Abs(p - targetPos)

\* What is known of a motor under way.
LEMMA GoingFacts ==
  ASSUME CanInv, Sends, Going
  PROVE  /\ stage = "cycle" /\ Position /\ kind.mode = 8 /\ drive.mode = 8 /\ opened /\ ~crashed
         /\ maxStep \in Int /\ maxStep > 0 /\ targetPos \in Int /\ info.ReceivePos \in Int
         /\ drive.set \in Int /\ drive.real \in Int
         /\ reqQueue \in Seq(Frames) /\ answers \in Seq(Frames) /\ Tolerance \in Nat
         /\ Len(reqQueue) \in Nat /\ Len(answers) \in Nat
         /\ \A p \in Int : Far(p) \in Nat
  <1>1. /\ maxStep \in Int /\ targetPos \in Int /\ info.ReceivePos \in Int
        /\ drive.set \in Int /\ drive.real \in Int
        /\ reqQueue \in Seq(Frames) /\ answers \in Seq(Frames) /\ Tolerance \in Nat
    BY MotorAssumption DEF CanInv, CanTypes
  <1>2. ready /\ stage = "cycle"
    BY <1>1 DEF CanInv, CommandsInCycle, Going
  <1>3. Position /\ ~crashed
    BY <1>1 DEF Sends, Going
  <1>4. drive.mode = 8 /\ opened
    BY <1>2, <1>3 DEF CanInv, Confirmed, Heard, Position
  <1>5. \A p \in Int : Far(p) \in Nat
    BY <1>1 DEF Far, Abs
  <1>6. Len(reqQueue) \in Nat /\ Len(answers) \in Nat
    BY <1>1
  <1> QED  BY <1>1, <1>2, <1>3, <1>4, <1>5, <1>6 DEF Position, Going

\* Only the period of the worker and exchanges that work change anything.
LEMMA GoingSteps ==
  ASSUME CanInv, Sends, Going, [Next]_vars
  PROVE  /\ UNCHANGED <<kind, quiet, maxStep, targetPos>>
         /\ PositionCycle \/ Exchange \/ UNCHANGED vars
         /\ ~crashed /\ Worker => PositionCycle
         /\ ~crashed /\ Bus => Exchange
  <1>1. stage = "cycle" /\ Position /\ quiet /\ ~kind.eyou
    BY GoingFacts DEF Going
  <1>2. ~LoopStep /\ ~LoopEnds /\ ~TorqueCycle
    BY <1>1 DEF LoopStep, LoopEnds, TorqueCycle, InLoop, Loops
  <1>3. ~Divide /\ ~LoseExchange /\ ~SetPos /\ ~Fault /\ ~Settles
    BY <1>1 DEF Divide, LoseExchange, SetPos, Fault, Settles
  <1>4. PositionCycle \/ Exchange \/ UNCHANGED vars
    BY <1>2, <1>3 DEF Next, Worker, Bus
  <1>5. UNCHANGED <<kind, quiet, maxStep, targetPos>>
    BY <1>4 DEF vars, PositionCycle, Look, Move, Exchange, command
  <1> QED  BY <1>2, <1>3, <1>4, <1>5 DEF Worker, Bus

\* A set point is nearer to the target than the position it is for.
LEMMA SetPointNearer ==
  ASSUME CanInv, Sends, Going, noticed # 0, NEW p \in SetPoints
  PROVE  p \in Int /\ Far(p) < Far(info.ReceivePos)
  <1> DEFINE r == info.ReceivePos
             d == targetPos - r
  <1>0. r \in Int /\ targetPos \in Int /\ maxStep \in Int /\ maxStep > 0 /\ Tolerance \in Nat
    BY GoingFacts
  <1>1. /\ r \in Int /\ targetPos \in Int /\ maxStep \in Int /\ maxStep > 0 /\ Tolerance \in Nat
        /\ d \in Int
    BY <1>0
  <1>2. StepAllowed = maxStep /\ noticed = d
    BY <1>1 DEF StepAllowed, Distance, Going, Whole
  <1>3. p = r + Sign(d) * Least(Abs(d), maxStep)
    BY <1>1, <1>2 DEF SetPoints, Going
  <1> HIDE DEF d
  <1>4. CASE d > 0
    <2>1. Abs(d) = d /\ Sign(d) = 1 /\ Least(d, maxStep) \in 1..d
      BY <1>1, <1>4 DEF Abs, Sign, Least
    <2>2. p = r + Least(d, maxStep)
      BY <1>1, <1>3, <2>1
    <2> HIDE DEF r
    <2>3. p \in Int /\ r < p /\ p <= targetPos
      BY <1>1, <1>4, <2>1, <2>2 DEF d
    <2> QED  BY <1>1, <2>3 DEF Far, Abs, r
  <1>5. CASE d < 0
    <2>1. Abs(d) = -d /\ Sign(d) = -1 /\ Least(-d, maxStep) \in 1..(-d)
      BY <1>1, <1>5 DEF Abs, Sign, Least
    <2>2. p = r - Least(-d, maxStep)
      BY <1>1, <1>3, <2>1
    <2> HIDE DEF r
    <2>3. p \in Int /\ p < r /\ targetPos <= p
      BY <1>1, <1>5, <2>1, <2>2 DEF d
    <2> QED  BY <1>1, <2>3 DEF Far, Abs, r
  <1>6. d # 0
    BY <1>2
  <1> QED  BY <1>1, <1>4, <1>5, <1>6

\* What the worker pushes: a set point for the distance it has noticed, and the request for
\* the position; or it only notices that the position received is too far off.
LEMMA WorkerMoves ==
  ASSUME CanInv, Sends, Going, PositionCycle
  PROVE  /\ UNCHANGED <<drive, answers>> /\ info' = info
         /\ \A i \in 1..Len(reqQueue) : i \in 1..Len(reqQueue') /\ reqQueue'[i] = reqQueue[i]
         /\ Len(reqQueue) \in Nat /\ Len(reqQueue') \in Nat
         /\ \/ reqQueue' = reqQueue
            \/ /\ reqQueue' # <<>> /\ Len(reqQueue) < Len(reqQueue')
               /\ reqQueue'[Len(reqQueue')].ins = "getPos"
         /\ \A i \in 1..Len(reqQueue') : i > Len(reqQueue) =>
               \/ reqQueue'[i].ins = "getPos"
               \/ /\ reqQueue'[i].ins = "setPos" /\ reqQueue'[i].data \in Int
                  /\ Far(reqQueue'[i].data) < Far(info.ReceivePos)
         /\ noticed # 0 =>
               reqQueue' # <<>> /\ \E i \in 1..Len(reqQueue') : reqQueue'[i].ins = "setPos"
         /\ noticed = 0 => reqQueue' # <<>> \/ noticed' # 0
         /\ noticed = 0 /\ Far(info.ReceivePos) > Tolerance => noticed' # 0 /\ reqQueue' = reqQueue
  <1>1. UNCHANGED <<drive, answers>> /\ info' = info
    BY DEF PositionCycle, Look, Move, outside, fields
  <1>2. /\ reqQueue \in Seq(Frames) /\ Len(reqQueue) \in Nat /\ ~kind.eyou /\ maxStep >= 0
        /\ Tolerance \in Nat
    BY GoingFacts DEF Going
  <1>3. Abs(Distance) = Far(info.ReceivePos)
    <2>1. info.ReceivePos \in Int /\ targetPos \in Int
      BY GoingFacts
    <2>2. \A a, b \in Int : Abs(a - b) = Abs(b - a)
      BY DEF Abs
    <2> QED  BY <2>1, <2>2 DEF Distance, Far
  <1> DEFINE g == Request("getPos")
  <1>4. g.ins = "getPos" /\ g \in Frames
    BY DEF Request, Frames, Instructions
  <1> HIDE DEF g
  <1>5. CASE Move
    <2>0. noticed # 0
      BY <1>5 DEF Move
    <2>1. PICK p \in SetPoints : PendRequest(<<SetPosition(p), Request("getPos")>>)
      BY <1>5 DEF Move
    <2>2. p \in Int /\ Far(p) < Far(info.ReceivePos)
      BY <2>0, SetPointNearer
    <2> DEFINE f == SetPosition(p)
    <2>3. f.ins = "setPos" /\ f.data = p /\ f \in Frames
      BY <2>2 DEF SetPosition, Frames, Instructions
    <2>4. reqQueue' = reqQueue \o <<f, g>>
      BY <2>1 DEF PendRequest, g
    <2> HIDE DEF f
    <2>5. /\ Len(reqQueue') = Len(reqQueue) + 2
          /\ \A i \in 1..Len(reqQueue) : reqQueue'[i] = reqQueue[i]
          /\ reqQueue'[Len(reqQueue) + 1] = f /\ reqQueue'[Len(reqQueue) + 2] = g
      BY <1>2, <1>4, <2>3, <2>4
    <2>6. Len(reqQueue) + 1 \in 1..Len(reqQueue') /\ reqQueue' # <<>>
      BY <1>2, <2>5
    <2>7. \A i \in 1..Len(reqQueue') : i > Len(reqQueue) =>
             i = Len(reqQueue) + 1 \/ i = Len(reqQueue) + 2
      BY <1>2, <2>5
    <2>8. \A i \in 1..Len(reqQueue) : i \in 1..Len(reqQueue')
      BY <1>2, <2>5
    <2>9. Len(reqQueue) < Len(reqQueue') /\ Len(reqQueue') \in Nat
      BY <1>2, <2>5
    <2> QED  BY <1>1, <1>2, <1>4, <2>0, <2>2, <2>3, <2>5, <2>6, <2>7, <2>8, <2>9
  <1>6. CASE Look /\ ~(Abs(Distance) > Tolerance)
    <2>1. reqQueue' = reqQueue \o <<g>> /\ noticed = 0
      BY <1>6 DEF Look, PendRequest, g
    <2>2. /\ Len(reqQueue') = Len(reqQueue) + 1
          /\ \A i \in 1..Len(reqQueue) : reqQueue'[i] = reqQueue[i]
          /\ reqQueue'[Len(reqQueue) + 1] = g
      BY <1>2, <1>4, <2>1
    <2>3. reqQueue' # <<>> /\ \A i \in 1..Len(reqQueue') :
             i > Len(reqQueue) => i = Len(reqQueue) + 1
      BY <1>2, <2>2
    <2>4. \A i \in 1..Len(reqQueue) : i \in 1..Len(reqQueue')
      BY <1>2, <2>2
    <2>5. Len(reqQueue) < Len(reqQueue') /\ Len(reqQueue') \in Nat
      BY <1>2, <2>2
    <2> QED  BY <1>1, <1>2, <1>3, <1>4, <1>6, <2>1, <2>2, <2>3, <2>4, <2>5
  <1>7. CASE Look /\ Abs(Distance) > Tolerance
    <2>1. noticed' = Distance /\ reqQueue' = reqQueue /\ noticed = 0
      BY <1>2, <1>7 DEF Look
    <2>2. noticed' # 0
      BY <1>2, <1>7, <2>1 DEF Abs
    <2>3. \A i \in 1..Len(reqQueue') : ~(i > Len(reqQueue))
      BY <1>2, <2>1
    <2> QED  BY <1>1, <1>2, <2>1, <2>2, <2>3
  <1> QED  BY <1>5, <1>6, <1>7 DEF PositionCycle

\* The answers on their way with the one to the request just sent, if it has one; and what
\* remains of them when the first was received.
Row(s) ==
    /\ s \in Seq(Frames) /\ Len(s) \in {Len(answers), Len(answers) + 1}
    /\ \A i \in 1..Len(answers) : i \in 1..Len(s) /\ s[i] = answers[i]
    /\ \A i \in 1..Len(s) :
          i > Len(answers) /\ s[i].ins = "getPos" => s[i].data = drive'.real
    /\ reqQueue # <<>> /\ reqQueue[1].ins = "getPos" =>
          Len(s) = Len(answers) + 1 /\ s[Len(s)].ins = "getPos"

Delivered(s) ==
    /\ s = <<>> => answers' = <<>> /\ info'.ReceivePos = info.ReceivePos
    /\ s # <<>> =>
          /\ 1 \in 1..Len(s) /\ Len(answers') = Len(s) - 1
          /\ \A i \in 1..Len(answers') : i + 1 \in 1..Len(s) /\ answers'[i] = s[i + 1]
          /\ s[1].ins = "getPos" => info'.ReceivePos = s[1].data
          /\ s[1].ins # "getPos" => info'.ReceivePos = info.ReceivePos

\* The row of an exchange that works.
LEMMA RowOfExchange ==
  ASSUME CanInv, Sends, Going, Exchange
  PROVE  Row(OnTheWay)
  <1>1. /\ OnRequest /\ Sent /\ opened /\ kind \in Kinds
        /\ answers \in Seq(Frames) /\ Len(answers) \in Nat
    BY GoingFacts DEF Exchange, CanInv, CanTypes
  <1>2. Taken \in Frames /\ Allowed(Taken) /\ drive' = Serve(drive, Taken)
    BY <1>1, RequestFacts DEF Sent
  <1>3. drive' \in [power : {"disabled", "ready", "switched", "on", "fault"},
                    mode : {0, kind.mode}, set : Int, real : Int]
    BY <1>2, ServeFacts
  <1> DEFINE e == [ins |-> Taken.ins, data |-> Value(drive', Taken.ins)]
             t == Answer(drive', Taken)
  <1>4. /\ t \in {<<>>, <<e>>} /\ e \in Frames /\ e.ins = Taken.ins
        /\ Taken.ins = "getPos" => t = <<[ins |-> "getPos", data |-> drive'.real]>>
    BY <1>1, <1>2, <1>3, AnswerFacts
  <1>5. e.ins = "getPos" => e.data = drive'.real
    BY <1>4 DEF Value
  <1>6. OnTheWay = answers \o t
    BY <1>1 DEF OnTheWay
  <1>7. Taken.ins = "getPos" => t # <<>>
    BY <1>4
  <1>8. reqQueue # <<>> /\ reqQueue[1].ins = "getPos" => Taken.ins = "getPos"
    BY <1>1, RequestFacts
  <1> HIDE DEF e, t
  <1>9. CASE t = <<>>
    <2>1. OnTheWay = answers
      BY <1>1, <1>6, <1>9
    <2> QED  BY <1>1, <1>7, <1>8, <1>9, <2>1 DEF Row
  <1>10. CASE t = <<e>>
    <2>1. t # <<>> /\ t[1] = e /\ t \in {<<x>> : x \in Frames}
      BY <1>4, <1>10
    <2>2. /\ OnTheWay \in Seq(Frames) /\ Len(OnTheWay) = Len(answers) + 1
          /\ OnTheWay[Len(answers) + 1] = e
          /\ \A i \in 1..Len(answers) : OnTheWay[i] = answers[i]
      BY <1>1, <1>4, <1>6, <1>10, <2>1, OneMore
    <2>3. \A i \in 1..Len(OnTheWay) : i > Len(answers) => OnTheWay[i] = e
      BY <1>1, <2>2
    <2>4. \A i \in 1..Len(answers) : i \in 1..Len(OnTheWay)
      BY <1>1, <2>2
    <2> QED  BY <1>4, <1>5, <1>8, <2>2, <2>3, <2>4 DEF Row
  <1> QED  BY <1>4, <1>9, <1>10

\* An exchange sends the first request and hands over the first answer; the drive goes to
\* its set point.
LEMMA ExchangeMoves ==
  ASSUME CanInv, Sends, Going, Going', Exchange
  PROVE  /\ drive'.real = drive'.set
         /\ reqQueue = <<>> => reqQueue' = <<>> /\ drive'.set = drive.set
         /\ reqQueue # <<>> =>
               /\ 1 \in 1..Len(reqQueue) /\ Len(reqQueue') = Len(reqQueue) - 1
               /\ \A i \in 1..Len(reqQueue') :
                     i + 1 \in 1..Len(reqQueue) /\ reqQueue'[i] = reqQueue[i + 1]
               /\ reqQueue[1].ins = "setPos" => drive'.set = reqQueue[1].data
               /\ reqQueue[1].ins # "setPos" => drive'.set = drive.set
         /\ \E s : Row(s) /\ Delivered(s)
  <1>1. /\ OnRequest /\ Sent /\ OnResponse(input') /\ quiet
        /\ drive.mode = 8 /\ kind.mode = 8
    BY GoingFacts DEF Exchange, Going
  <1>2. Taken \in Frames /\ Allowed(Taken) /\ drive' = Serve(drive, Taken)
    BY <1>1, RequestFacts DEF Sent
  <1>3. /\ Taken.ins = "setPos" => drive'.set = Taken.data
        /\ Taken.ins # "setPos" => drive'.set = drive.set
    BY <1>2, ServeFacts
  <1>4. drive'.real = drive'.set
    <2> DEFINE p == Powered(drive.power, Taken.ins)
               m == IF Taken.ins = "setMode" THEN Taken.data ELSE drive.mode
               s == IF Taken.ins = "setPos" THEN Taken.data ELSE drive.set
    <2>1. drive' = [power |-> p, mode |-> m, set |-> s,
                    real |-> IF p = "on" /\ m = 8 THEN s ELSE drive.real]
      BY <1>2 DEF Serve
    <2>2. drive'.power = "on"
      BY DEF Going
    <2>3. m = 8
      BY <1>1, <1>2 DEF Allowed
    <2> HIDE DEF p, m, s
    <2> QED  BY <2>1, <2>2, <2>3
  <1>5. reqQueue = <<>> => reqQueue' = <<>> /\ Taken.ins # "setPos"
    BY <1>1, RequestFacts DEF Nothing
  <1>6. reqQueue # <<>> =>
           /\ 1 \in 1..Len(reqQueue) /\ Len(reqQueue') = Len(reqQueue) - 1
           /\ \A i \in 1..Len(reqQueue') :
                 i + 1 \in 1..Len(reqQueue) /\ reqQueue'[i] = reqQueue[i + 1]
           /\ Taken = reqQueue[1]
    BY <1>1, RequestFacts
  <1>7. Row(OnTheWay)
    BY RowOfExchange
  <1>8. \/ OnTheWay # <<>> /\ input' = Head(OnTheWay) /\ answers' = Tail(OnTheWay)
        \/ OnTheWay = <<>> /\ input' = Nothing /\ answers' = <<>>
    BY <1>1 DEF Exchange
  <1>9. Delivered(OnTheWay)
    <2>1. OnTheWay \in Seq(Frames)
      BY <1>7 DEF Row
    <2>2. CASE OnTheWay = <<>>
      <3>1. Nothing \in Frames /\ Nothing.ins # "getPos"
        BY DEF Nothing, Frames, Instructions
      <3>2. info'.ReceivePos = info.ReceivePos
        BY <1>1, <1>8, <2>2, <3>1, ResponseFacts
      <3> QED  BY <1>8, <2>2, <3>2 DEF Delivered
    <2>3. CASE OnTheWay # <<>>
      <3>1. /\ input' \in Frames /\ input' = OnTheWay[1] /\ 1 \in 1..Len(OnTheWay)
            /\ Len(answers') = Len(OnTheWay) - 1
            /\ \A i \in 1..Len(answers') :
                  i + 1 \in 1..Len(OnTheWay) /\ answers'[i] = OnTheWay[i + 1]
        BY <1>8, <2>1, <2>3, TailFacts
      <3>2. /\ input'.ins = "getPos" => info'.ReceivePos = input'.data
            /\ input'.ins # "getPos" => info'.ReceivePos = info.ReceivePos
        BY <1>1, <3>1, ResponseFacts
      <3> QED  BY <2>3, <3>1, <3>2 DEF Delivered
    <2> QED  BY <2>2, <2>3
  <1> QED  BY <1>3, <1>4, <1>5, <1>6, <1>7, <1>9

\* Everything that says where the motor is or goes is at most n away from the target.
Within(n) ==
    /\ Going
    /\ Far(drive.set) <= n /\ Far(drive.real) <= n /\ Far(info.ReceivePos) <= n
    /\ \A i \in 1..Len(reqQueue) : reqQueue[i].ins = "setPos" => Far(reqQueue[i].data) <= n
    /\ \A i \in 1..Len(answers) : answers[i].ins = "getPos" => Far(answers[i].data) <= n

LEMMA WithinStays ==
  ASSUME CanInv, Sends, NEW n \in Nat, Within(n), [Next]_vars, Going'
  PROVE  Within(n)'
  <1>1. Going /\ targetPos' = targetPos
    BY GoingSteps DEF Within
  <1>2. CASE PositionCycle
    <2>1. Far(info.ReceivePos) \in Nat /\ \A p \in Int : Far(p) \in Nat
      BY <1>1, GoingFacts
    <2>2. \A i \in 1..Len(reqQueue') : reqQueue'[i].ins = "setPos" => Far(reqQueue'[i].data) <= n
      <3> SUFFICES ASSUME NEW i \in 1..Len(reqQueue'), reqQueue'[i].ins = "setPos"
                   PROVE  Far(reqQueue'[i].data) <= n
        OBVIOUS
      <3>1. CASE i \in 1..Len(reqQueue)
        BY <1>1, <1>2, <3>1, WorkerMoves DEF Within
      <3>2. CASE i > Len(reqQueue)
        <4>1. reqQueue'[i].data \in Int /\ Far(reqQueue'[i].data) < Far(info.ReceivePos)
          BY <1>1, <1>2, <3>2, WorkerMoves
        <4>2. Far(reqQueue'[i].data) \in Nat /\ Far(info.ReceivePos) <= n
          BY <2>1, <4>1 DEF Within
        <4> QED  BY <2>1, <4>1, <4>2
      <3>3. Len(reqQueue) \in Nat
        BY <1>1, GoingFacts
      <3> QED  BY <3>1, <3>2, <3>3
    <2> QED  BY <1>1, <1>2, <2>2, WorkerMoves DEF Within, Far
  <1>3. CASE Exchange
    <2>1. PICK s : Row(s) /\ Delivered(s)
      BY <1>1, <1>3, ExchangeMoves
    <2>2. Far(drive'.set) <= n /\ Far(drive'.real) <= n
      BY <1>1, <1>3, ExchangeMoves DEF Within
    <2>3. \A i \in 1..Len(s) : s[i].ins = "getPos" => Far(s[i].data) <= n
      <3>1. Len(s) \in Nat /\ Len(answers) \in Nat
        BY <1>1, <2>1, GoingFacts DEF Row
      <3> QED  BY <2>1, <2>2, <3>1 DEF Row, Within
    <2>4. Far(info'.ReceivePos) <= n
      BY <2>1, <2>3 DEF Delivered, Within
    <2>5. \A i \in 1..Len(answers') : answers'[i].ins = "getPos" => Far(answers'[i].data) <= n
      <3>1. CASE s = <<>>
        BY <2>1, <3>1 DEF Delivered
      <3>2. CASE s # <<>>
        BY <2>1, <2>3, <3>2 DEF Delivered
      <3> QED  BY <3>1, <3>2
    <2>6. \A i \in 1..Len(reqQueue') : reqQueue'[i].ins = "setPos" => Far(reqQueue'[i].data) <= n
      <3>1. CASE reqQueue = <<>>
        BY <1>1, <1>3, <3>1, ExchangeMoves
      <3>2. CASE reqQueue # <<>>
        BY <1>1, <1>3, <3>2, ExchangeMoves DEF Within
      <3> QED  BY <3>1, <3>2
    <2> QED  BY <1>1, <2>2, <2>4, <2>5, <2>6 DEF Within, Far
  <1>4. CASE UNCHANGED vars
    BY <1>1, <1>4 DEF Within, Far, vars, outside, fields
  <1> QED  BY <1>1, <1>2, <1>3, <1>4, GoingSteps DEF Within

\* From the place k on, the queue holds no set point further off than m, and ends with a
\* request for the position.
Tidy(m, k) ==
    /\ Within(m + 1)
    /\ \A i \in 1..Len(reqQueue) :
          i > k /\ reqQueue[i].ins = "setPos" => Far(reqQueue[i].data) <= m
    /\ Len(reqQueue) > k => reqQueue[Len(reqQueue)].ins = "getPos"

LEMMA TidySteps ==
  ASSUME CanInv, Sends, NEW m \in Nat, [Next]_vars, Going'
  PROVE  /\ \A k \in Nat : Tidy(m, k) => Tidy(m, k)'
         /\ \A k \in Nat : Tidy(m, k + 1) /\ Exchange => Tidy(m, k)'
  <1> SUFFICES ASSUME NEW k \in Nat
               PROVE  /\ Tidy(m, k) => Tidy(m, k)'
                      /\ Tidy(m, k + 1) /\ Exchange => Tidy(m, k)'
    OBVIOUS
  <1>0. m + 1 \in Nat
    OBVIOUS
  <1>1. ASSUME NEW j \in {k, k + 1}, Tidy(m, j)
        PROVE  /\ Going /\ targetPos' = targetPos /\ Within(m + 1)'
               /\ Len(reqQueue) \in Nat
    BY <1>0, <1>1, WithinStays, GoingSteps, GoingFacts DEF Tidy, Within
  <1>2. ASSUME NEW j \in {k, k + 1}, Tidy(m, j), Exchange
        PROVE  /\ \A i \in 1..Len(reqQueue') :
                     i > j - 1 /\ reqQueue'[i].ins = "setPos" => Far(reqQueue'[i].data) <= m
               /\ Len(reqQueue') > j - 1 /\ reqQueue' # <<>> =>
                     reqQueue'[Len(reqQueue')].ins = "getPos"
               /\ Len(reqQueue') \in Nat
    <2>1. CASE reqQueue = <<>>
      BY <1>1, <1>2, <2>1, ExchangeMoves
    <2>2. CASE reqQueue # <<>>
      <3>1. /\ 1 \in 1..Len(reqQueue) /\ Len(reqQueue') = Len(reqQueue) - 1
            /\ \A i \in 1..Len(reqQueue') :
                  i + 1 \in 1..Len(reqQueue) /\ reqQueue'[i] = reqQueue[i + 1]
        BY <1>1, <1>2, <2>2, ExchangeMoves
      <3>2. Len(reqQueue') \in Nat /\ (Len(reqQueue') > j - 1 => Len(reqQueue) > j)
        BY <1>1, <1>2, <3>1
      <3>3. reqQueue' # <<>> => Len(reqQueue') \in 1..Len(reqQueue')
        <4>1. reqQueue' \in Seq(Frames)
          BY <1>1, <1>2, RequestFacts DEF Exchange
        <4> QED  BY <3>2, <4>1
      <3>4. Len(reqQueue') + 1 = Len(reqQueue)
        BY <1>1, <1>2, <3>1
      <3>5. \A i \in 1..Len(reqQueue') : i > j - 1 => i + 1 > j
        BY <3>2
      <3> QED  BY <1>2, <3>1, <3>2, <3>3, <3>4, <3>5 DEF Tidy
    <2> QED  BY <2>1, <2>2
  <1>3. ASSUME Tidy(m, k), PositionCycle PROVE Tidy(m, k)'
    <2>1. Far(info.ReceivePos) \in Nat /\ \A p \in Int : Far(p) \in Nat
      BY <1>1, <1>3, GoingFacts
    <2>2. ASSUME NEW i \in 1..Len(reqQueue'), i > k, reqQueue'[i].ins = "setPos"
          PROVE  Far(reqQueue'[i].data) <= m
      <3>1. CASE i \in 1..Len(reqQueue)
        BY <1>1, <1>3, <2>2, <3>1, WorkerMoves DEF Tidy
      <3>2. CASE i > Len(reqQueue)
        <4>1. reqQueue'[i].data \in Int /\ Far(reqQueue'[i].data) < Far(info.ReceivePos)
          BY <1>1, <1>3, <2>2, <3>2, WorkerMoves
        <4>2. Far(reqQueue'[i].data) \in Nat /\ Far(info.ReceivePos) <= m + 1
          BY <1>3, <2>1, <4>1 DEF Tidy, Within
        <4> QED  BY <2>1, <4>1, <4>2
      <3> QED  BY <1>1, <1>3, <3>1, <3>2
    <2>3. Len(reqQueue') > k => reqQueue'[Len(reqQueue')].ins = "getPos"
      BY <1>1, <1>3, WorkerMoves DEF Tidy
    <2> QED  BY <1>1, <1>3, <2>2, <2>3 DEF Tidy, Far
  <1>4. ASSUME Tidy(m, k), UNCHANGED vars PROVE Tidy(m, k)'
    BY <1>1, <1>4 DEF Tidy, Far, vars
  <1>5. ASSUME Tidy(m, k), Exchange PROVE Tidy(m, k)'
    <2>1. Len(reqQueue') \in Nat
      BY <1>2, <1>5
    <2>2. Len(reqQueue') > k => reqQueue' # <<>>
      BY <2>1
    <2>3. \A i \in 1..Len(reqQueue') : i > k => i > k - 1
      BY <2>1
    <2>4. Len(reqQueue') > k => Len(reqQueue') > k - 1
      BY <2>1
    <2> QED  BY <1>1, <1>2, <1>5, <2>2, <2>3, <2>4 DEF Tidy, Far
  <1>6. ASSUME Tidy(m, k + 1), Exchange PROVE Tidy(m, k)'
    <2>1. Len(reqQueue') \in Nat /\ (k + 1) - 1 = k
      BY <1>2, <1>6
    <2>2. Len(reqQueue') > k => reqQueue' # <<>>
      BY <2>1
    <2>3. /\ \A i \in 1..Len(reqQueue') :
                i > (k + 1) - 1 /\ reqQueue'[i].ins = "setPos" => Far(reqQueue'[i].data) <= m
          /\ Len(reqQueue') > (k + 1) - 1 /\ reqQueue' # <<>> =>
                     reqQueue'[Len(reqQueue')].ins = "getPos"
      BY <1>2, <1>6
    <2>4. Within(m + 1)' /\ targetPos' = targetPos
      BY <1>1, <1>6
    <2> QED  BY <2>1, <2>2, <2>3, <2>4 DEF Tidy, Far
  <1>7. Tidy(m, k) => PositionCycle \/ Exchange \/ UNCHANGED vars
    BY GoingSteps DEF Tidy, Within
  <1> QED  BY <1>3, <1>4, <1>5, <1>6, <1>7

\* The drive stands at its set point, and nothing worse than m waits.
Still(m) == Tidy(m, 0) /\ drive.real = drive.set

\* A set point waits at one of the first k places; one waits.
SetDue(m, k) ==
    Still(m) /\ \E i \in 1..Len(reqQueue) : i <= k /\ reqQueue[i].ins = "setPos"
HasSet(m) == Still(m) /\ \E i \in 1..Len(reqQueue) : reqQueue[i].ins = "setPos"

\* The drive is within m of the target for good, or (far) further off until a set
\* point comes.
Sides == {"near", "far"}
OnSide(m, b, p) == b = "near" <=> Far(p) <= m
Settled(m, b) ==
    /\ Still(m)
    /\ OnSide(m, b, drive.real)
    /\ b = "near" \/ \A i \in 1..Len(reqQueue) : reqQueue[i].ins # "setPos"

LEMMA StillStays ==
  ASSUME CanInv, Sends, NEW m \in Nat, Tidy(m, 0), [Next]_vars, Going'
  PROVE  /\ Going /\ targetPos' = targetPos /\ Tidy(m, 0)'
         /\ PositionCycle \/ Exchange \/ UNCHANGED vars
         /\ Still(m) => Still(m)'
         /\ Exchange => Still(m)'
  <1>1. Going
    BY DEF Tidy, Within
  <1>2. Tidy(m, 0)'
    BY TidySteps
  <1>3. PositionCycle \/ UNCHANGED vars => drive' = drive
    BY DEF PositionCycle, Look, Move, vars, outside
  <1>4. Exchange => drive'.real = drive'.set
    BY <1>1, ExchangeMoves
  <1> QED  BY <1>1, <1>2, <1>3, <1>4, GoingSteps DEF Still

\* The set point waiting first comes nearer to the drive, which takes it.
LEMMA SetSteps ==
  ASSUME CanInv, Sends, NEW m \in Nat, [Next]_vars, Going'
  PROVE  /\ \A k \in Nat : SetDue(m, k) => SetDue(m, k)' \/ Settled(m, "near")'
         /\ \A k \in Nat : SetDue(m, k + 1) /\ Exchange => SetDue(m, k)' \/ Settled(m, "near")'
         /\ Settled(m, "near") => Settled(m, "near")'
  <1>1. Still(m) => /\ Going /\ targetPos' = targetPos /\ Still(m)'
                    /\ PositionCycle \/ Exchange \/ UNCHANGED vars
                    /\ Len(reqQueue) \in Nat
    <2>1. ASSUME Still(m) PROVE Tidy(m, 0) /\ Going
      BY <2>1 DEF Still, Tidy, Within
    <2> QED  BY <2>1, StillStays, GoingFacts
  <1>2. \A k \in Nat : SetDue(m, k) => Still(m)
    BY DEF SetDue
  <1>3. ASSUME NEW k \in Nat, SetDue(m, k + 1), Exchange
        PROVE  SetDue(m, k)' \/ Settled(m, "near")'
    <2>1. PICK i \in 1..Len(reqQueue) : i <= k + 1 /\ reqQueue[i].ins = "setPos"
      BY <1>3 DEF SetDue
    <2>2. Still(m)' /\ targetPos' = targetPos /\ Going /\ Len(reqQueue) \in Nat
      BY <1>1, <1>2, <1>3
    <2>3. /\ Len(reqQueue') = Len(reqQueue) - 1
          /\ \A j \in 1..Len(reqQueue') : reqQueue'[j] = reqQueue[j + 1]
          /\ reqQueue[1].ins = "setPos" => drive'.set = reqQueue[1].data
      <3>1. reqQueue # <<>>
        BY <2>1
      <3> QED  BY <1>3, <2>2, <3>1, ExchangeMoves
    <2>4. CASE i = 1
      <3>1. Far(reqQueue[1].data) <= m
        BY <1>3, <2>1, <2>4 DEF SetDue, Still, Tidy
      <3>2. drive'.real = reqQueue[1].data
        BY <2>1, <2>2, <2>3, <2>4 DEF Still
      <3>3. OnSide(m, "near", drive.real)'
        BY <2>2, <3>1, <3>2 DEF OnSide, Far
      <3> QED  BY <2>2, <3>3 DEF Settled
    <2>5. CASE i # 1
      <3>1. i - 1 \in 1..Len(reqQueue') /\ i - 1 <= k /\ (i - 1) + 1 = i
        BY <2>1, <2>2, <2>3, <2>5
      <3>2. reqQueue'[i - 1].ins = "setPos"
        BY <2>1, <2>3, <3>1
      <3> QED  BY <2>2, <3>1, <3>2 DEF SetDue
    <2> QED  BY <2>4, <2>5
  <1>4. ASSUME NEW k \in Nat, SetDue(m, k), Exchange
        PROVE  SetDue(m, k)' \/ Settled(m, "near")'
    <2>1. PICK i \in 1..Len(reqQueue) : i <= k /\ reqQueue[i].ins = "setPos"
      BY <1>4 DEF SetDue
    <2>2. k - 1 \in Nat /\ (k - 1) + 1 = k
      BY <2>1
    <2>3. SetDue(m, k - 1)' \/ Settled(m, "near")'
      BY <1>3, <1>4, <2>2
    <2>4. SetDue(m, k - 1)' => SetDue(m, k)'
      BY <2>2 DEF SetDue
    <2> QED  BY <2>3, <2>4
  <1>5. ASSUME NEW k \in Nat, SetDue(m, k), PositionCycle \/ UNCHANGED vars
        PROVE  SetDue(m, k)'
    <2>1. PICK i \in 1..Len(reqQueue) : i <= k /\ reqQueue[i].ins = "setPos"
      BY <1>5 DEF SetDue
    <2>2. CASE PositionCycle
      <3>1. i \in 1..Len(reqQueue') /\ reqQueue'[i] = reqQueue[i]
        BY <1>1, <1>2, <1>5, <2>2, WorkerMoves
      <3> QED  BY <1>1, <1>2, <1>5, <2>1, <3>1 DEF SetDue
    <2>3. CASE UNCHANGED vars
      BY <1>1, <1>2, <1>5, <2>1, <2>3 DEF SetDue, vars
    <2> QED  BY <1>5, <2>2, <2>3
  <1>6. ASSUME Settled(m, "near") PROVE Settled(m, "near")'
    <2>1. Still(m) /\ Far(drive.real) <= m /\ drive.set = drive.real
      BY <1>6 DEF Settled, OnSide, Still
    <2>2. CASE PositionCycle \/ UNCHANGED vars
      <3>1. drive' = drive
        BY <2>2 DEF PositionCycle, Look, Move, vars, outside
      <3> QED  BY <1>1, <2>1, <3>1 DEF Settled, OnSide, Far
    <2>3. CASE Exchange
      <3>1. drive'.real = drive'.set
        BY <1>1, <2>1, <2>3, ExchangeMoves
      <3>2. Far(drive'.set) <= m
        <4>1. CASE reqQueue # <<>> /\ reqQueue[1].ins = "setPos"
          <5>1. drive'.set = reqQueue[1].data /\ 1 \in 1..Len(reqQueue)
            BY <1>1, <2>1, <2>3, <4>1, ExchangeMoves
          <5> QED  BY <2>1, <4>1, <5>1 DEF Still, Tidy
        <4>2. CASE ~(reqQueue # <<>> /\ reqQueue[1].ins = "setPos")
          <5>1. drive'.set = drive.set
            BY <1>1, <2>1, <2>3, <4>2, ExchangeMoves
          <5> QED  BY <2>1, <5>1
        <4> QED  BY <4>1, <4>2
      <3> QED  BY <1>1, <2>1, <3>1, <3>2 DEF Settled, OnSide, Far
    <2> QED  BY <1>1, <2>1, <2>2, <2>3
  <1>7. \A k \in Nat : SetDue(m, k) => PositionCycle \/ Exchange \/ UNCHANGED vars
    BY <1>1, <1>2
  <1> QED  BY <1>3, <1>4, <1>5, <1>6, <1>7

\* A drive that is too far off stands until a set point waits.
LEMMA SettledSteps ==
  ASSUME CanInv, Sends, NEW m \in Nat, NEW b \in Sides, Settled(m, b), [Next]_vars, Going'
  PROVE  /\ Settled(m, b)' \/ (b = "far" /\ HasSet(m)')
         /\ b = "far" => drive'.real = drive.real
  <1>1. /\ Going /\ targetPos' = targetPos /\ Still(m)' /\ Still(m)
        /\ PositionCycle \/ Exchange \/ UNCHANGED vars
    BY StillStays DEF Settled, Still
  <1>2. CASE b = "near"
    BY <1>2, SetSteps
  <1>3. CASE b = "far"
    <2>1. drive'.set = drive.set
      <3>1. CASE PositionCycle \/ UNCHANGED vars
        BY <3>1 DEF PositionCycle, Look, Move, vars, outside
      <3>2. CASE Exchange
        <4>1. CASE reqQueue = <<>>
          BY <1>1, <3>2, <4>1, ExchangeMoves
        <4>2. CASE reqQueue # <<>>
          <5>1. 1 \in 1..Len(reqQueue)
            BY <1>1, <3>2, <4>2, ExchangeMoves
          <5>2. reqQueue[1].ins # "setPos"
            BY <1>3, <5>1 DEF Settled
          <5> QED  BY <1>1, <3>2, <4>2, <5>2, ExchangeMoves
        <4> QED  BY <4>1, <4>2
      <3> QED  BY <1>1, <3>1, <3>2
    <2>2. OnSide(m, b, drive.real)'
      BY <1>1, <2>1 DEF Settled, Still, OnSide, Far
    <2> QED  BY <1>1, <1>3, <2>1, <2>2 DEF Settled, HasSet, Still
  <1> QED  BY <1>2, <1>3 DEF Sides

\* A request for the position is answered within k exchanges, and no answer that comes
\* after this answer is from the other side; it was given, as were those.
Mark(m, b, k) ==
    /\ Settled(m, b)
    /\ \/ \E i \in 1..Len(answers) :
             /\ i <= k /\ answers[i].ins = "getPos"
             /\ \A j \in 1..Len(answers) :
                   j >= i /\ answers[j].ins = "getPos" => OnSide(m, b, answers[j].data)
       \/ \E i \in 1..Len(reqQueue) : Len(answers) + i <= k /\ reqQueue[i].ins = "getPos"
Shown(m, b) ==
    /\ Settled(m, b)
    /\ OnSide(m, b, info.ReceivePos)
    /\ \A j \in 1..Len(answers) : answers[j].ins = "getPos" => OnSide(m, b, answers[j].data)

\* What the worker was shown, or the set point that changes it.
Goal(m, b) == Shown(m, b) \/ (b = "far" /\ HasSet(m))

LEMMA MarkSteps ==
  ASSUME CanInv, Sends, NEW m \in Nat, NEW b \in Sides, [Next]_vars, Going'
  PROVE  /\ \A k \in Nat : Mark(m, b, k) => Mark(m, b, k)' \/ Goal(m, b)'
         /\ \A k \in Nat : Mark(m, b, k + 1) /\ Exchange => Mark(m, b, k)' \/ Goal(m, b)'
  <1>1. \A k \in Nat : Mark(m, b, k) =>
           /\ Going /\ targetPos' = targetPos
           /\ PositionCycle \/ Exchange \/ UNCHANGED vars
           /\ Settled(m, b)' \/ Goal(m, b)'
           /\ Len(answers) \in Nat /\ Len(reqQueue) \in Nat
    <2>1. Settled(m, b) => Going
      BY DEF Settled, Still, Tidy, Within
    <2>2. Settled(m, b) => Going /\ targetPos' = targetPos
                           /\ (PositionCycle \/ Exchange \/ UNCHANGED vars)
                           /\ Len(answers) \in Nat /\ Len(reqQueue) \in Nat
      BY <2>1, GoingSteps, GoingFacts
    <2> QED  BY <2>2, SettledSteps DEF Mark, Goal
  <1>2. ASSUME NEW k \in Nat, Mark(m, b, k + 1), Exchange, Settled(m, b)'
        PROVE  Mark(m, b, k)' \/ Shown(m, b)'
    <2>0. Going /\ targetPos' = targetPos /\ Len(answers) \in Nat /\ Len(reqQueue) \in Nat
      BY <1>1, <1>2
    <2>1. PICK s : Row(s) /\ Delivered(s)
      BY <1>2, <2>0, ExchangeMoves
    <2>2. /\ OnSide(m, b, drive'.real)
          /\ Len(s) \in Nat /\ Len(answers) <= Len(s)
          /\ \A j : OnSide(m, b, j)' <=> OnSide(m, b, j)
      BY <1>2, <2>0, <2>1 DEF Settled, OnSide, Far, Row
    <2>3. ASSUME NEW i \in 1..Len(s), i <= k + 1, s[i].ins = "getPos",
                 \A j \in 1..Len(s) : j >= i /\ s[j].ins = "getPos" => OnSide(m, b, s[j].data)
          PROVE  Mark(m, b, k)' \/ Shown(m, b)'
      <3>1. /\ 1 \in 1..Len(s) /\ Len(answers') = Len(s) - 1
            /\ \A j \in 1..Len(answers') : j + 1 \in 1..Len(s) /\ answers'[j] = s[j + 1]
            /\ s[1].ins = "getPos" => info'.ReceivePos = s[1].data
        <4>1. s # <<>>
          BY <2>3
        <4> QED  BY <2>1, <4>1 DEF Delivered
      <3>2. CASE i = 1
        <4>1. OnSide(m, b, info'.ReceivePos)
          BY <2>3, <3>1, <3>2
        <4>2. \A j \in 1..Len(answers') :
                 answers'[j].ins = "getPos" => OnSide(m, b, answers'[j].data)
          <5>1. \A j \in 1..Len(answers') : j + 1 >= i
            BY <2>2, <3>1, <3>2
          <5> QED  BY <2>3, <3>1, <5>1
        <4>3. OnSide(m, b, info.ReceivePos)'
          BY <2>2, <4>1 DEF OnSide, Far
        <4>4. (\A j \in 1..Len(answers) :
                 answers[j].ins = "getPos" => OnSide(m, b, answers[j].data))'
          BY <2>0, <4>2 DEF OnSide, Far
        <4> QED  BY <1>2, <4>3, <4>4 DEF Shown
      <3>3. CASE i # 1
        <4>1. i - 1 \in 1..Len(answers') /\ i - 1 <= k /\ (i - 1) + 1 = i
          BY <2>2, <2>3, <3>1, <3>3
        <4>2. answers'[i - 1].ins = "getPos"
          BY <2>3, <3>1, <4>1
        <4>3. \A j \in 1..Len(answers') :
                 j >= i - 1 /\ answers'[j].ins = "getPos" => OnSide(m, b, answers'[j].data)
          <5>1. \A j \in 1..Len(answers') : j >= i - 1 => j + 1 >= i
            BY <2>2, <3>1
          <5> QED  BY <2>3, <3>1, <5>1
        <4>4. (\E x \in 1..Len(answers) :
                 /\ x <= k /\ answers[x].ins = "getPos"
                 /\ \A j \in 1..Len(answers) :
                      j >= x /\ answers[j].ins = "getPos" => OnSide(m, b, answers[j].data))'
          BY <2>0, <4>1, <4>2, <4>3 DEF OnSide, Far
        <4> QED  BY <1>2, <4>4 DEF Mark
      <3> QED  BY <3>2, <3>3
    <2>4. CASE \E i \in 1..Len(answers) :
                 /\ i <= k + 1 /\ answers[i].ins = "getPos"
                 /\ \A j \in 1..Len(answers) :
                      j >= i /\ answers[j].ins = "getPos" => OnSide(m, b, answers[j].data)
      <3>1. PICK i \in 1..Len(answers) :
                 /\ i <= k + 1 /\ answers[i].ins = "getPos"
                 /\ \A j \in 1..Len(answers) :
                      j >= i /\ answers[j].ins = "getPos" => OnSide(m, b, answers[j].data)
        BY <2>4
      <3>2. i \in 1..Len(s) /\ s[i] = answers[i]
        BY <2>1 DEF Row
      <3>3. ASSUME NEW j \in 1..Len(s), j >= i, s[j].ins = "getPos"
            PROVE  OnSide(m, b, s[j].data)
        <4>1. CASE j \in 1..Len(answers)
          BY <2>1, <3>1, <3>3, <4>1 DEF Row
        <4>2. CASE j > Len(answers)
          BY <2>1, <2>2, <3>3, <4>2 DEF Row
        <4> QED  BY <2>0, <2>2, <4>1, <4>2
      <3> QED  BY <2>3, <3>1, <3>2, <3>3
    <2>5. CASE \E i \in 1..Len(reqQueue) :
                 Len(answers) + i <= k + 1 /\ reqQueue[i].ins = "getPos"
      <3>1. PICK i \in 1..Len(reqQueue) :
                 Len(answers) + i <= k + 1 /\ reqQueue[i].ins = "getPos"
        BY <2>5
      <3>2. reqQueue # <<>>
        BY <3>1
      <3>3. CASE i = 1
        <4>1. Len(s) = Len(answers) + 1 /\ s[Len(s)].ins = "getPos"
          BY <2>1, <3>1, <3>2, <3>3 DEF Row
        <4>2. Len(s) \in 1..Len(s) /\ Len(s) <= k + 1 /\ Len(s) > Len(answers)
          BY <2>0, <2>2, <3>1, <3>3, <4>1
        <4>3. \A j \in 1..Len(s) : j >= Len(s) => j = Len(s)
          BY <2>2
        <4>4. OnSide(m, b, s[Len(s)].data)
          BY <2>1, <2>2, <4>1, <4>2 DEF Row
        <4> QED  BY <2>3, <4>1, <4>2, <4>3, <4>4
      <3>4. CASE i # 1
        <4>1. /\ Len(reqQueue') = Len(reqQueue) - 1
              /\ \A j \in 1..Len(reqQueue') : reqQueue'[j] = reqQueue[j + 1]
          BY <1>2, <2>0, <3>2, ExchangeMoves
        <4>2. i - 1 \in 1..Len(reqQueue') /\ (i - 1) + 1 = i
          BY <2>0, <3>1, <3>4, <4>1
        <4>3. Len(answers') <= Len(answers) /\ Len(answers') \in Nat
          <5>1. CASE s = <<>>
            <6>1. Len(answers') = 0
              BY <2>1, <5>1 DEF Delivered
            <6> QED  BY <2>0, <6>1
          <5>2. CASE s # <<>>
            <6>1. Len(answers') = Len(s) - 1 /\ 1 \in 1..Len(s)
              BY <2>1, <5>2 DEF Delivered
            <6>2. Len(s) <= Len(answers) + 1
              BY <2>0, <2>1 DEF Row
            <6> QED  BY <2>0, <2>2, <6>1, <6>2
          <5> QED  BY <5>1, <5>2
        <4>4. Len(answers') + (i - 1) <= k
          BY <2>0, <3>1, <4>3
        <4>5. reqQueue'[i - 1].ins = "getPos"
          BY <3>1, <4>1, <4>2
        <4> QED  BY <1>2, <4>2, <4>4, <4>5 DEF Mark
      <3> QED  BY <3>3, <3>4
    <2> QED  BY <1>2, <2>4, <2>5 DEF Mark
  <1>3. ASSUME NEW k \in Nat, Mark(m, b, k), Exchange, Settled(m, b)'
        PROVE  Mark(m, b, k)' \/ Shown(m, b)'
    <2>0. Len(answers) \in Nat /\ Len(reqQueue) \in Nat
      BY <1>1, <1>3
    <2>1. k # 0
      BY <1>3, <2>0 DEF Mark
    <2>2. k - 1 \in Nat /\ (k - 1) + 1 = k
      BY <2>1
    <2>3. Mark(m, b, k - 1)' \/ Shown(m, b)'
      BY <1>2, <1>3, <2>2
    <2>4. (Len(answers) \in Nat /\ Len(reqQueue) \in Nat)'
      <3>1. CanInv'
        BY NextCanInv
      <3>2. answers' \in Seq(Frames) /\ reqQueue' \in Seq(Frames)
        BY <3>1 DEF CanInv, CanTypes
      <3> QED  BY <3>2
    <2>5. Mark(m, b, k - 1)' => Mark(m, b, k)'
      BY <2>2, <2>4 DEF Mark
    <2> QED  BY <2>3, <2>5
  <1>4. ASSUME NEW k \in Nat, Mark(m, b, k), PositionCycle \/ UNCHANGED vars, Settled(m, b)'
        PROVE  Mark(m, b, k)'
    <2>0. Going /\ targetPos' = targetPos
      BY <1>1, <1>4
    <2>1. answers' = answers
      BY <1>4 DEF PositionCycle, Look, Move, vars, outside
    <2>2. \A i \in 1..Len(reqQueue) : i \in 1..Len(reqQueue') /\ reqQueue'[i] = reqQueue[i]
      <3>1. CASE PositionCycle
        BY <2>0, <3>1, WorkerMoves
      <3>2. CASE UNCHANGED vars
        BY <3>2 DEF vars
      <3> QED  BY <1>4, <3>1, <3>2
    <2>3. (\E i \in 1..Len(answers) :
             /\ i <= k /\ answers[i].ins = "getPos"
             /\ \A j \in 1..Len(answers) :
                   j >= i /\ answers[j].ins = "getPos" => OnSide(m, b, answers[j].data))
          => (\E i \in 1..Len(answers) :
             /\ i <= k /\ answers[i].ins = "getPos"
             /\ \A j \in 1..Len(answers) :
                   j >= i /\ answers[j].ins = "getPos" => OnSide(m, b, answers[j].data))'
      BY <2>0, <2>1 DEF OnSide, Far
    <2> QED  BY <1>4, <2>1, <2>2, <2>3 DEF Mark
  <1> QED  BY <1>1, <1>2, <1>3, <1>4 DEF Goal

\* What the worker was shown from afar it goes on to see, while its queue drains; it notices
\* the distance in its next period, and then sends a set point.
Drained(m, k) == Shown(m, "far") /\ Len(reqQueue) <= k

LEMMA DrainSteps ==
  ASSUME CanInv, Sends, NEW m \in Nat, m >= Tolerance, [Next]_vars, Going', Shown(m, "far")
  PROVE  /\ Shown(m, "far")' \/ HasSet(m)'
         /\ PositionCycle /\ noticed # 0 => HasSet(m)'
         /\ PositionCycle /\ noticed = 0 => noticed' # 0 /\ reqQueue' = reqQueue
         /\ PositionCycle \/ Exchange \/ UNCHANGED vars
         /\ Exchange => Len(reqQueue') <= Len(reqQueue) /\ Len(reqQueue') \in Nat
         /\ Exchange /\ reqQueue # <<>> => Len(reqQueue') = Len(reqQueue) - 1
         /\ Len(reqQueue) \in Nat /\ (Len(reqQueue) = 0 <=> reqQueue = <<>>)
  <1>1. Settled(m, "far") /\ Still(m) /\ Tidy(m, 0) /\ Going
    BY DEF Shown, Settled, Still, Tidy, Within
  <1>2. /\ Settled(m, "far")' \/ HasSet(m)'
        /\ drive'.real = drive.real /\ targetPos' = targetPos /\ Still(m)'
        /\ PositionCycle \/ Exchange \/ UNCHANGED vars
    BY <1>1, SettledSteps, StillStays DEF Sides
  <1>3. /\ reqQueue \in Seq(Frames) /\ Len(reqQueue) \in Nat /\ Len(answers) \in Nat
        /\ (Len(reqQueue) = 0 <=> reqQueue = <<>>)
        /\ info.ReceivePos \in Int /\ Tolerance \in Nat /\ \A p \in Int : Far(p) \in Nat
    BY <1>1, GoingFacts
  <1>4. /\ PositionCycle /\ noticed # 0 => HasSet(m)'
        /\ PositionCycle /\ noticed = 0 => noticed' # 0 /\ reqQueue' = reqQueue
    <2>1. ~(Far(info.ReceivePos) <= m)
      BY DEF Shown, OnSide
    <2>2. Far(info.ReceivePos) \in Nat /\ Tolerance \in Nat
      BY <1>3
    <2>3. Far(info.ReceivePos) > Tolerance
      BY <2>1, <2>2
    <2> QED  BY <1>1, <1>2, <2>3, WorkerMoves DEF HasSet
  <1>5. CASE Exchange
    <2>1. PICK s : Row(s) /\ Delivered(s)
      BY <1>1, <1>5, ExchangeMoves
    <2>2. \A j \in 1..Len(s) : s[j].ins = "getPos" => OnSide(m, "far", s[j].data)
      <3>1. OnSide(m, "far", drive'.real)
        BY <1>1, <1>2 DEF Settled
      <3>2. Len(s) \in Nat /\ Len(answers) \in Nat
        BY <1>3, <2>1 DEF Row
      <3>3. \A j \in 1..Len(s) : j \in 1..Len(answers) \/ j > Len(answers)
        BY <3>2
      <3> QED  BY <2>1, <3>1, <3>3 DEF Row, Shown
    <2>3. OnSide(m, "far", info'.ReceivePos)
      BY <2>1, <2>2 DEF Delivered, Shown
    <2>4. \A j \in 1..Len(answers') :
             answers'[j].ins = "getPos" => OnSide(m, "far", answers'[j].data)
      <3>1. CASE s = <<>>
        BY <2>1, <3>1 DEF Delivered
      <3>2. CASE s # <<>>
        BY <2>1, <2>2, <3>2 DEF Delivered
      <3> QED  BY <3>1, <3>2
    <2>5. Shown(m, "far")' \/ HasSet(m)'
      BY <1>2, <2>3, <2>4 DEF Shown, OnSide, Far
    <2>6. CASE reqQueue = <<>>
      <3>1. Len(reqQueue') <= Len(reqQueue) /\ Len(reqQueue') \in Nat
        <4>1. reqQueue' = reqQueue
          BY <1>1, <1>5, <2>6, ExchangeMoves
        <4> QED  BY <1>3, <4>1
      <3> QED  BY <1>2, <1>3, <1>4, <2>5, <2>6, <3>1, Zenon
    <2>7. CASE reqQueue # <<>>
      <3>1. Len(reqQueue') = Len(reqQueue) - 1
        BY <1>1, <1>5, <2>7, ExchangeMoves
      <3>2. Len(reqQueue') <= Len(reqQueue) /\ Len(reqQueue') \in Nat
        <4>1. Len(reqQueue) \in Nat /\ Len(reqQueue) # 0
          BY <1>3, <2>7
        <4> QED  BY <3>1, <4>1
      <3> QED  BY <1>2, <1>3, <1>4, <2>5, <2>7, <3>1, <3>2, Zenon
    <2> QED  BY <2>6, <2>7
  <1>6. CASE UNCHANGED vars \/ (PositionCycle /\ noticed = 0)
    <2>1. UNCHANGED <<info, answers, reqQueue>>
      BY <1>1, <1>4, <1>6, WorkerMoves DEF vars, outside, fields
    <2>2. Shown(m, "far")' \/ HasSet(m)'
      BY <1>2, <2>1 DEF Shown, OnSide, Far
    <2>3. ~Exchange \/ reqQueue = <<>>
      <3>1. ASSUME Exchange, reqQueue # <<>> PROVE Len(reqQueue') = Len(reqQueue) - 1
        BY <1>1, <3>1, ExchangeMoves
      <3> QED  BY <1>3, <2>1, <3>1
    <2>4. Len(reqQueue') <= Len(reqQueue) /\ Len(reqQueue') \in Nat
      BY <1>3, <2>1
    <2> QED  BY <1>2, <1>3, <1>4, <2>2, <2>3, <2>4, Zenon
  <1>7. CASE ~Exchange /\ PositionCycle /\ noticed # 0
    BY <1>2, <1>3, <1>4, <1>7, Zenon
  <1> QED  BY <1>2, <1>5, <1>6, <1>7, Zenon

\* Once the worker was shown that the drive is nearer, everything is.
LEMMA ShownIsNearer ==
  ASSUME CanInv, Sends, NEW m \in Nat, Shown(m, "near")
  PROVE  Within(m)
  <1>1. Going /\ Len(reqQueue) \in Nat
    BY GoingFacts DEF Shown, Settled, Still, Tidy, Within
  <1>2. \A i \in 1..Len(reqQueue) : i > 0
    BY <1>1
  <1> QED  BY <1>1, <1>2 DEF Shown, Settled, Still, Tidy, Within, OnSide

\* Where a motor under way stands in all this.
LEMMA Stations ==
  ASSUME CanInv, Sends, NEW m \in Nat
  PROVE  /\ Within(m + 1) => \E k \in Nat : Tidy(m, k)
         /\ Still(m) => Settled(m, "near") \/ Settled(m, "far") \/ HasSet(m)
         /\ HasSet(m) <=> \E k \in Nat : SetDue(m, k)
         /\ ~SetDue(m, 0)
         /\ \A b \in Sides : ~Mark(m, b, 0)
         /\ \A b \in Sides :
              Settled(m, b) /\ reqQueue # <<>> => \E k \in Nat : Mark(m, b, k)
         /\ Shown(m, "far") => \E k \in Nat : Drained(m, k)
  <1>1. Going => Len(reqQueue) \in Nat /\ Len(answers) \in Nat /\ reqQueue \in Seq(Frames)
    BY GoingFacts
  <1>2. Still(m) => Going
    BY DEF Still, Tidy, Within
  <1>3. ASSUME Within(m + 1) PROVE \E k \in Nat : Tidy(m, k)
    <2>1. Len(reqQueue) \in Nat /\ \A i \in 1..Len(reqQueue) : ~(i > Len(reqQueue))
      BY <1>1, <1>3 DEF Within
    <2>2. Tidy(m, Len(reqQueue))
      BY <1>3, <2>1 DEF Tidy
    <2> QED  BY <2>1, <2>2
  <1>4. Still(m) => Settled(m, "near") \/ Settled(m, "far") \/ HasSet(m)
    BY DEF Settled, OnSide, HasSet
  <1>5. HasSet(m) => \E k \in Nat : SetDue(m, k)
    <2> SUFFICES ASSUME HasSet(m) PROVE \E k \in Nat : SetDue(m, k)
      OBVIOUS
    <2>1. Len(reqQueue) \in Nat /\ \A i \in 1..Len(reqQueue) : i <= Len(reqQueue)
      BY <1>1, <1>2 DEF HasSet
    <2>2. SetDue(m, Len(reqQueue))
      BY <2>1 DEF HasSet, SetDue
    <2> QED  BY <2>1, <2>2
  <1>6. \A k \in Nat : SetDue(m, k) => HasSet(m)
    BY DEF HasSet, SetDue
  <1>7. ~SetDue(m, 0)
    <2> SUFFICES ASSUME SetDue(m, 0) PROVE FALSE
      OBVIOUS
    <2>1. Len(reqQueue) \in Nat
      BY <1>1, <1>2 DEF SetDue
    <2> QED  BY <2>1 DEF SetDue
  <1>8. ASSUME NEW b \in Sides, Mark(m, b, 0) PROVE FALSE
    <2>1. Len(reqQueue) \in Nat /\ Len(answers) \in Nat
      BY <1>1, <1>2, <1>8 DEF Mark, Settled
    <2> QED  BY <1>8, <2>1 DEF Mark
  <1>9. ASSUME NEW b \in Sides, Settled(m, b), reqQueue # <<>>
        PROVE  \E k \in Nat : Mark(m, b, k)
    <2>1. Len(reqQueue) \in Nat /\ Len(answers) \in Nat /\ reqQueue \in Seq(Frames)
      BY <1>1, <1>2, <1>9 DEF Settled
    <2>2. Len(reqQueue) > 0 /\ Len(reqQueue) \in 1..Len(reqQueue)
      BY <1>9, <2>1
    <2>3. reqQueue[Len(reqQueue)].ins = "getPos"
      BY <1>9, <2>2 DEF Settled, Still, Tidy
    <2>4. Len(answers) + Len(reqQueue) \in Nat
          /\ Len(answers) + Len(reqQueue) <= Len(answers) + Len(reqQueue)
      BY <2>1
    <2>5. Mark(m, b, Len(answers) + Len(reqQueue))
      BY <1>9, <2>2, <2>3, <2>4 DEF Mark
    <2> QED  BY <2>4, <2>5
  <1>10. Shown(m, "far") => \E k \in Nat : Drained(m, k)
    <2> SUFFICES ASSUME Shown(m, "far") PROVE \E k \in Nat : Drained(m, k)
      OBVIOUS
    <2>1. Len(reqQueue) \in Nat /\ Len(reqQueue) <= Len(reqQueue)
      BY <1>1, <1>2 DEF Shown, Settled
    <2>2. Drained(m, Len(reqQueue))
      BY <2>1 DEF Drained
    <2> QED  BY <2>1, <2>2
  <1> QED  BY <1>3, <1>4, <1>5, <1>6, <1>7, <1>8, <1>9, <1>10

\* Finitely many distances have a bound.
LEMMA Bounded ==
  ASSUME NEW n \in Nat, NEW f \in [1..n -> Nat]
  PROVE  \E c \in Nat : \A i \in 1..n : f[i] <= c
  <1> DEFINE T == {k \in 0..n : \A c \in Nat : \E i \in 1..k : ~(f[i] <= c)}
  <1>1. CASE T = {}
    <2>1. n \in 0..n
      OBVIOUS
    <2> QED  BY <1>1, <2>1
  <1>2. CASE T # {}
    <2>1. T \subseteq Nat
      OBVIOUS
    <2> HIDE DEF T
    <2>2. PICK k \in T : \A j \in T : <<j, k>> \notin OpToRel(<, Nat)
      BY <1>2, <2>1, WFMin, NatLessThanWellFounded, Zenon
    <2>3. \A j \in T : ~(j < k)
      BY <2>1, <2>2, Zenon DEF OpToRel
    <2> USE DEF T
    <2>4. k \in 0..n /\ \A c \in Nat : \E i \in 1..k : ~(f[i] <= c)
      OBVIOUS
    <2>5. k # 0
      BY <2>4
    <2>6. k - 1 \in 0..n /\ k - 1 < k
      BY <2>4, <2>5
    <2>7. PICK c \in Nat : \A i \in 1..(k - 1) : f[i] <= c
      BY <2>3, <2>6
    <2>8. k \in 1..n /\ f[k] \in Nat
      BY <2>4, <2>5
    <2>9. \A i \in 1..k : f[i] <= c + f[k]
      <3> TAKE i \in 1..k
      <3>1. CASE i = k
        BY <2>8, <3>1
      <3>2. CASE i # k
        <4>1. i \in 1..(k - 1) /\ i \in 1..n
          BY <2>4, <3>2
        <4>2. f[i] \in Nat /\ f[i] <= c
          BY <2>7, <4>1
        <4> QED  BY <2>8, <4>2
      <3> QED  BY <3>1, <3>2
    <2>10. c + f[k] \in Nat
      BY <2>8
    <2> QED  BY <2>4, <2>9, <2>10
  <1> QED  BY <1>1, <1>2

\* A motor under way is somewhere.
LEMMA SomewhereWithin ==
  ASSUME CanInv, Sends, Going
  PROVE  \E k \in Nat : Within(Tolerance + k)
  <1>1. /\ reqQueue \in Seq(Frames) /\ answers \in Seq(Frames) /\ Tolerance \in Nat
        /\ Len(reqQueue) \in Nat /\ Len(answers) \in Nat
        /\ drive.set \in Int /\ drive.real \in Int /\ info.ReceivePos \in Int
        /\ \A p \in Int : Far(p) \in Nat
    BY GoingFacts
  <1>2. ASSUME NEW s \in Seq(Frames)
        PROVE  \E c \in Nat : \A i \in 1..Len(s) : Far(s[i].data) \in Nat /\ Far(s[i].data) <= c
    <2> DEFINE f == [i \in 1..Len(s) |-> Far(s[i].data)]
    <2>1. \A i \in 1..Len(s) : Far(s[i].data) \in Nat
      <3> TAKE i \in 1..Len(s)
      <3>1. s[i] \in Frames
        OBVIOUS
      <3>2. s[i].data \in Int
        BY <3>1 DEF Frames
      <3> QED  BY <1>1, <3>2
    <2>2. Len(s) \in Nat /\ f \in [1..Len(s) -> Nat]
      BY <2>1
    <2>3. PICK c \in Nat : \A i \in 1..Len(s) : f[i] <= c
      BY <2>2, Bounded
    <2> QED  BY <2>1, <2>3
  <1>3. PICK a \in Nat : \A i \in 1..Len(reqQueue) :
            Far(reqQueue[i].data) \in Nat /\ Far(reqQueue[i].data) <= a
    BY <1>1, <1>2
  <1>4. PICK c \in Nat : \A i \in 1..Len(answers) :
            Far(answers[i].data) \in Nat /\ Far(answers[i].data) <= c
    BY <1>1, <1>2
  <1> DEFINE x == Far(drive.set)
             y == Far(drive.real)
             z == Far(info.ReceivePos)
             k == a + c + x + y + z
  <1>5. x \in Nat /\ y \in Nat /\ z \in Nat
    BY <1>1
  <1> HIDE DEF x, y, z
  <1>6. /\ k \in Nat
        /\ x <= Tolerance + k /\ y <= Tolerance + k /\ z <= Tolerance + k
        /\ \A d \in Nat : d <= a \/ d <= c => d <= Tolerance + k
    BY <1>1, <1>5
  <1> HIDE DEF k
  <1>7. Within(Tolerance + k)
    BY <1>3, <1>4, <1>6 DEF Within, x, y, z
  <1> QED  BY <1>6, <1>7

\* When the threads can do something about it.
BusCan == Going /\ (reqQueue # <<>> \/ answers # <<>> \/ drive.real # drive.set)
WorkerCan == Going /\ reqQueue = <<>>

LEMMA InvAlways == Spec => [](CanInv /\ Sends)
  BY CanInvariant, SendsAlways, PTL

\* The queue becomes tidy from one place to the next, and the drive goes to its set point.
LEMMA TidyFalls ==
  ASSUME [](BusCan => ENABLED <<~crashed /\ Bus>>_vars), NEW m \in Nat, NEW k \in Nat
  PROVE  Spec => (Tidy(m, k + 1) ~> (Tidy(m, k) \/ ~Going))
  <1>1. CanInv /\ Sends /\ Tidy(m, k + 1) /\ [Next]_vars => Tidy(m, k + 1)' \/ ~Going'
    <2>1. k + 1 \in Nat
      OBVIOUS
    <2> QED  BY <2>1, TidySteps
  <1>2. CanInv /\ Sends /\ Tidy(m, k + 1) /\ [Next]_vars /\ <<~crashed /\ Bus>>_vars =>
            Tidy(m, k)' \/ ~Going'
    BY TidySteps, GoingSteps DEF Tidy, Within
  <1>3. CanInv /\ Sends /\ Tidy(m, k + 1) => Tidy(m, k) \/ BusCan
    <2> SUFFICES ASSUME CanInv, Sends, Tidy(m, k + 1), reqQueue = <<>> PROVE Tidy(m, k)
      BY DEF BusCan, Tidy, Within
    <2> QED  BY DEF Tidy
  <1> QED  BY <1>1, <1>2, <1>3, InvAlways, PTL DEF Spec

LEMMA ComesToStand ==
  ASSUME [](BusCan => ENABLED <<~crashed /\ Bus>>_vars), NEW m \in Nat
  PROVE  Spec => (Tidy(m, 0) ~> (Still(m) \/ ~Going))
  <1>1. CanInv /\ Sends /\ Tidy(m, 0) /\ [Next]_vars => Tidy(m, 0)' \/ ~Going'
    BY StillStays
  <1>2. CanInv /\ Sends /\ Tidy(m, 0) /\ [Next]_vars /\ <<~crashed /\ Bus>>_vars =>
            Still(m)' \/ ~Going'
    BY StillStays, GoingSteps DEF Tidy, Within
  <1>3. Tidy(m, 0) => Still(m) \/ BusCan
    BY DEF Tidy, Within, Still, BusCan
  <1> QED  BY <1>1, <1>2, <1>3, InvAlways, PTL DEF Spec

\* A set point that waits is taken.
LEMMA SetFalls ==
  ASSUME [](BusCan => ENABLED <<~crashed /\ Bus>>_vars), NEW m \in Nat, NEW k \in Nat
  PROVE  Spec => (SetDue(m, k + 1) ~> (SetDue(m, k) \/ (Settled(m, "near") \/ ~Going)))
  <1>0. SetDue(m, k + 1) => Going
    BY DEF SetDue, Still, Tidy, Within
  <1>1. CanInv /\ Sends /\ SetDue(m, k + 1) /\ [Next]_vars =>
            SetDue(m, k + 1)' \/ Settled(m, "near")' \/ ~Going'
    <2>1. k + 1 \in Nat
      OBVIOUS
    <2> QED  BY <2>1, SetSteps
  <1>2. CanInv /\ Sends /\ SetDue(m, k + 1) /\ [Next]_vars /\ <<~crashed /\ Bus>>_vars =>
            SetDue(m, k)' \/ Settled(m, "near")' \/ ~Going'
    BY <1>0, SetSteps, GoingSteps
  <1>3. CanInv /\ Sends /\ SetDue(m, k + 1) => BusCan
    BY <1>0, GoingFacts DEF SetDue, BusCan
  <1> QED  BY <1>1, <1>2, <1>3, InvAlways, PTL DEF Spec

\* The stations on the way, for either side.
MarkNear(m, k) == Mark(m, "near", k)
MarkFar(m, k) == Mark(m, "far", k)
GoalNear(m) == Goal(m, "near")
GoalFar(m) == Goal(m, "far")
SettledNear(m) == Settled(m, "near")
SettledFar(m) == Settled(m, "far")

\* The mark comes nearer to the worker.
LEMMA MarkFalls ==
  ASSUME [](BusCan => ENABLED <<~crashed /\ Bus>>_vars), NEW m \in Nat, NEW k \in Nat
  PROVE  Spec =>
           /\ MarkNear(m, k + 1) ~> (MarkNear(m, k) \/ (GoalNear(m) \/ ~Going))
           /\ MarkFar(m, k + 1) ~> (MarkFar(m, k) \/ (GoalFar(m) \/ ~Going))
  <1>0. k + 1 \in Nat
    OBVIOUS
  <1>1. \A b \in Sides : Mark(m, b, k + 1) => Going
    BY DEF Mark, Settled, Still, Tidy, Within
  <1>2. ASSUME NEW b \in Sides
        PROVE  /\ CanInv /\ Sends /\ Mark(m, b, k + 1) /\ [Next]_vars =>
                      Mark(m, b, k + 1)' \/ Goal(m, b)' \/ ~Going'
               /\ CanInv /\ Sends /\ Mark(m, b, k + 1) /\ [Next]_vars
                      /\ <<~crashed /\ Bus>>_vars =>
                      Mark(m, b, k)' \/ Goal(m, b)' \/ ~Going'
               /\ CanInv /\ Sends /\ Mark(m, b, k + 1) => BusCan
    <2>1. CanInv /\ Sends /\ Mark(m, b, k + 1) /\ [Next]_vars =>
              Mark(m, b, k + 1)' \/ Goal(m, b)' \/ ~Going'
      BY <1>0, MarkSteps
    <2>2. CanInv /\ Sends /\ Mark(m, b, k + 1) /\ [Next]_vars /\ <<~crashed /\ Bus>>_vars =>
              Mark(m, b, k)' \/ Goal(m, b)' \/ ~Going'
      BY <1>1, MarkSteps, GoingSteps
    <2>3. CanInv /\ Sends /\ Mark(m, b, k + 1) => BusCan
      <3> SUFFICES ASSUME CanInv, Sends, Mark(m, b, k + 1), reqQueue = <<>>, answers = <<>>
                   PROVE  FALSE
        BY <1>1 DEF BusCan
      <3> QED  BY DEF Mark
    <2> QED  BY <2>1, <2>2, <2>3
  <1>3. /\ CanInv /\ Sends /\ MarkNear(m, k + 1) /\ [Next]_vars =>
               MarkNear(m, k + 1)' \/ GoalNear(m)' \/ ~Going'
        /\ CanInv /\ Sends /\ MarkNear(m, k + 1) /\ [Next]_vars /\ <<~crashed /\ Bus>>_vars =>
               MarkNear(m, k)' \/ GoalNear(m)' \/ ~Going'
        /\ CanInv /\ Sends /\ MarkNear(m, k + 1) => BusCan
    BY <1>2 DEF MarkNear, GoalNear, Sides
  <1>4. /\ CanInv /\ Sends /\ MarkFar(m, k + 1) /\ [Next]_vars =>
               MarkFar(m, k + 1)' \/ GoalFar(m)' \/ ~Going'
        /\ CanInv /\ Sends /\ MarkFar(m, k + 1) /\ [Next]_vars /\ <<~crashed /\ Bus>>_vars =>
               MarkFar(m, k)' \/ GoalFar(m)' \/ ~Going'
        /\ CanInv /\ Sends /\ MarkFar(m, k + 1) => BusCan
    BY <1>2 DEF MarkFar, GoalFar, Sides
  <1> QED  BY <1>3, <1>4, InvAlways, PTL DEF Spec

\* The worker has noticed a distance; it stays noticed until it pushes.
NoticedNear(m) == SettledNear(m) /\ noticed # 0
NoticedFar(m) == SettledFar(m) /\ noticed # 0

\* An empty queue gets a request for the position, or the worker notices a distance first.
LEMMA IsAskedOrNotices ==
  ASSUME [](WorkerCan => ENABLED <<~crashed /\ Worker>>_vars), NEW m \in Nat
  PROVE  Spec =>
           /\ SettledNear(m) ~>
                 ((SettledNear(m) /\ reqQueue # <<>>) \/ NoticedNear(m) \/ GoalNear(m) \/ ~Going)
           /\ SettledFar(m) ~>
                 ((SettledFar(m) /\ reqQueue # <<>>) \/ NoticedFar(m) \/ GoalFar(m) \/ ~Going)
  <1>1. ASSUME NEW b \in Sides
        PROVE  /\ CanInv /\ Sends /\ Settled(m, b) /\ [Next]_vars =>
                      Settled(m, b)' \/ Goal(m, b)' \/ ~Going'
               /\ CanInv /\ Sends /\ Settled(m, b) /\ [Next]_vars
                      /\ <<~crashed /\ Worker>>_vars =>
                      \/ (Settled(m, b) /\ reqQueue # <<>>)' \/ (Settled(m, b) /\ noticed # 0)'
                      \/ Goal(m, b)' \/ ~Going'
               /\ Settled(m, b) => (Settled(m, b) /\ reqQueue # <<>>) \/ WorkerCan
    <2>1. Settled(m, b) => Going
      BY DEF Settled, Still, Tidy, Within
    <2>2. CanInv /\ Sends /\ Settled(m, b) /\ [Next]_vars =>
              Settled(m, b)' \/ Goal(m, b)' \/ ~Going'
      BY SettledSteps DEF Goal
    <2>3. CanInv /\ Sends /\ Settled(m, b) /\ [Next]_vars /\ <<~crashed /\ Worker>>_vars =>
              \/ (Settled(m, b) /\ reqQueue # <<>>)' \/ (Settled(m, b) /\ noticed # 0)'
              \/ Goal(m, b)' \/ ~Going'
      BY <2>1, <2>2, GoingSteps, WorkerMoves
    <2>4. Settled(m, b) => (Settled(m, b) /\ reqQueue # <<>>) \/ WorkerCan
      BY <2>1 DEF WorkerCan
    <2> QED  BY <2>2, <2>3, <2>4
  <1>2. /\ CanInv /\ Sends /\ SettledNear(m) /\ [Next]_vars =>
               SettledNear(m)' \/ GoalNear(m)' \/ ~Going'
        /\ CanInv /\ Sends /\ SettledNear(m) /\ [Next]_vars /\ <<~crashed /\ Worker>>_vars =>
               (SettledNear(m) /\ reqQueue # <<>>)' \/ NoticedNear(m)' \/ GoalNear(m)' \/ ~Going'
        /\ SettledNear(m) => (SettledNear(m) /\ reqQueue # <<>>) \/ WorkerCan
    BY <1>1 DEF SettledNear, NoticedNear, GoalNear, Sides
  <1>3. /\ CanInv /\ Sends /\ SettledFar(m) /\ [Next]_vars =>
               SettledFar(m)' \/ GoalFar(m)' \/ ~Going'
        /\ CanInv /\ Sends /\ SettledFar(m) /\ [Next]_vars /\ <<~crashed /\ Worker>>_vars =>
               (SettledFar(m) /\ reqQueue # <<>>)' \/ NoticedFar(m)' \/ GoalFar(m)' \/ ~Going'
        /\ SettledFar(m) => (SettledFar(m) /\ reqQueue # <<>>) \/ WorkerCan
    BY <1>1 DEF SettledFar, NoticedFar, GoalFar, Sides
  <1> QED  BY <1>2, <1>3, InvAlways, PTL DEF Spec

\* The distance noticed makes it push.
LEMMA NoticedIsAsked ==
  ASSUME [](WorkerCan => ENABLED <<~crashed /\ Worker>>_vars), NEW m \in Nat
  PROVE  Spec =>
           /\ NoticedNear(m) ~> ((SettledNear(m) /\ reqQueue # <<>>) \/ GoalNear(m) \/ ~Going)
           /\ NoticedFar(m) ~> ((SettledFar(m) /\ reqQueue # <<>>) \/ GoalFar(m) \/ ~Going)
  <1>1. ASSUME NEW b \in Sides
        PROVE  /\ CanInv /\ Sends /\ Settled(m, b) /\ noticed # 0 /\ [Next]_vars =>
                      \/ (Settled(m, b) /\ noticed # 0)' \/ (Settled(m, b) /\ reqQueue # <<>>)'
                      \/ Goal(m, b)' \/ ~Going'
               /\ CanInv /\ Sends /\ Settled(m, b) /\ noticed # 0 /\ [Next]_vars
                      /\ <<~crashed /\ Worker>>_vars =>
                      (Settled(m, b) /\ reqQueue # <<>>)' \/ Goal(m, b)' \/ ~Going'
               /\ Settled(m, b) => (Settled(m, b) /\ reqQueue # <<>>) \/ WorkerCan
    <2>1. Settled(m, b) => Going
      BY DEF Settled, Still, Tidy, Within
    <2>2. CanInv /\ Sends /\ Settled(m, b) /\ [Next]_vars =>
              Settled(m, b)' \/ Goal(m, b)' \/ ~Going'
      BY SettledSteps DEF Goal
    <2>3. CanInv /\ Sends /\ Settled(m, b) /\ [Next]_vars => PositionCycle \/ noticed' = noticed
      BY <2>1, GoingSteps DEF Exchange, vars, command
    <2>4. CanInv /\ Sends /\ Settled(m, b) /\ noticed # 0 /\ PositionCycle => reqQueue' # <<>>
      BY <2>1, WorkerMoves
    <2>5. CanInv /\ Sends /\ Settled(m, b) /\ [Next]_vars /\ <<~crashed /\ Worker>>_vars =>
              PositionCycle
      BY <2>1, GoingSteps
    <2>6. Settled(m, b) => (Settled(m, b) /\ reqQueue # <<>>) \/ WorkerCan
      BY <2>1 DEF WorkerCan
    <2> QED  BY <2>2, <2>3, <2>4, <2>5, <2>6
  <1>2. /\ CanInv /\ Sends /\ NoticedNear(m) /\ [Next]_vars =>
               NoticedNear(m)' \/ (SettledNear(m) /\ reqQueue # <<>>)' \/ GoalNear(m)' \/ ~Going'
        /\ CanInv /\ Sends /\ NoticedNear(m) /\ [Next]_vars /\ <<~crashed /\ Worker>>_vars =>
               (SettledNear(m) /\ reqQueue # <<>>)' \/ GoalNear(m)' \/ ~Going'
        /\ NoticedNear(m) => (SettledNear(m) /\ reqQueue # <<>>) \/ WorkerCan
    BY <1>1 DEF SettledNear, NoticedNear, GoalNear, Sides
  <1>3. /\ CanInv /\ Sends /\ NoticedFar(m) /\ [Next]_vars =>
               NoticedFar(m)' \/ (SettledFar(m) /\ reqQueue # <<>>)' \/ GoalFar(m)' \/ ~Going'
        /\ CanInv /\ Sends /\ NoticedFar(m) /\ [Next]_vars /\ <<~crashed /\ Worker>>_vars =>
               (SettledFar(m) /\ reqQueue # <<>>)' \/ GoalFar(m)' \/ ~Going'
        /\ NoticedFar(m) => (SettledFar(m) /\ reqQueue # <<>>) \/ WorkerCan
    BY <1>1 DEF SettledFar, NoticedFar, GoalFar, Sides
  <1> QED  BY <1>2, <1>3, InvAlways, PTL DEF Spec

LEMMA IsAsked ==
  ASSUME [](WorkerCan => ENABLED <<~crashed /\ Worker>>_vars), NEW m \in Nat
  PROVE  Spec =>
           /\ SettledNear(m) ~> ((SettledNear(m) /\ reqQueue # <<>>) \/ GoalNear(m) \/ ~Going)
           /\ SettledFar(m) ~> ((SettledFar(m) /\ reqQueue # <<>>) \/ GoalFar(m) \/ ~Going)
  BY IsAskedOrNotices, NoticedIsAsked, PTL

LEMMA DrainStays ==
  ASSUME CanInv, Sends, NEW m \in Nat, m >= Tolerance, NEW k \in Nat, Drained(m, k),
         [Next]_vars, Going'
  PROVE  Drained(m, k)' \/ HasSet(m)'
  <1> SUFFICES ASSUME ~HasSet(m)' PROVE Drained(m, k)'
    OBVIOUS
  <1>1. /\ Shown(m, "far")' /\ (Exchange \/ reqQueue' = reqQueue) /\ Len(reqQueue) \in Nat
        /\ (Exchange => Len(reqQueue') <= Len(reqQueue) /\ Len(reqQueue') \in Nat)
    BY DrainSteps DEF Drained, vars
  <1>3. Len(reqQueue') <= Len(reqQueue) /\ Len(reqQueue') \in Nat
    BY <1>1
  <1>4. Len(reqQueue') <= k
    <2>1. Len(reqQueue) <= k
      BY DEF Drained
    <2> QED  BY <1>1, <1>3, <2>1
  <1> QED  BY <1>1, <1>4 DEF Drained

\* A queue that only drains becomes empty, and then the worker sends a set point.
LEMMA DrainFalls ==
  ASSUME [](BusCan => ENABLED <<~crashed /\ Bus>>_vars),
         NEW m \in Nat, m >= Tolerance, NEW k \in Nat
  PROVE  Spec => (Drained(m, k + 1) ~> (Drained(m, k) \/ (HasSet(m) \/ ~Going)))
  <1>0. Drained(m, k + 1) => Going
    BY DEF Drained, Shown, Settled, Still, Tidy, Within
  <1>1. CanInv /\ Sends /\ Drained(m, k + 1) /\ [Next]_vars =>
            Drained(m, k + 1)' \/ HasSet(m)' \/ ~Going'
    <2>1. k + 1 \in Nat
      OBVIOUS
    <2> QED  BY <2>1, DrainStays
  <1>2. CanInv /\ Sends /\ Drained(m, k + 1) /\ [Next]_vars /\ <<~crashed /\ Bus>>_vars =>
            Drained(m, k)' \/ HasSet(m)' \/ ~Going'
    <2> SUFFICES ASSUME CanInv, Sends, Drained(m, k + 1), [Next]_vars, ~crashed /\ Bus,
                        Going', ~HasSet(m)'
                 PROVE  Drained(m, k)'
      OBVIOUS
    <2>1. Exchange
      BY <1>0, GoingSteps
    <2>2. /\ Shown(m, "far")' /\ Len(reqQueue) \in Nat /\ (Len(reqQueue) = 0 <=> reqQueue = <<>>)
          /\ Len(reqQueue') <= Len(reqQueue) /\ Len(reqQueue') \in Nat
          /\ (reqQueue # <<>> => Len(reqQueue') = Len(reqQueue) - 1)
      BY <2>1, DrainSteps DEF Drained
    <2>3. Len(reqQueue) <= k + 1
      BY DEF Drained
    <2>4. Len(reqQueue') <= k
      BY <2>2, <2>3
    <2> QED  BY <2>2, <2>4 DEF Drained
  <1>3. CanInv /\ Sends /\ Drained(m, k + 1) => Drained(m, k) \/ BusCan
    <2> SUFFICES ASSUME CanInv, Sends, Drained(m, k + 1), reqQueue = <<>> PROVE Drained(m, k)
      BY <1>0 DEF BusCan
    <2>1. Len(reqQueue) = 0
      OBVIOUS
    <2> QED  BY <2>1 DEF Drained
  <1> QED  BY <1>1, <1>2, <1>3, InvAlways, PTL DEF Spec

\* With an empty queue the worker notices the distance, and then sends a set point.
DrainNoticed(m) == Drained(m, 0) /\ noticed # 0

LEMMA SendsSetPoint ==
  ASSUME [](WorkerCan => ENABLED <<~crashed /\ Worker>>_vars), NEW m \in Nat, m >= Tolerance
  PROVE  Spec => (Drained(m, 0) ~> (HasSet(m) \/ ~Going))
  <1>0. Drained(m, 0) => Going /\ Shown(m, "far")
    BY DEF Drained, Shown, Settled, Still, Tidy, Within
  <1>1. CanInv /\ Sends /\ Drained(m, 0) /\ [Next]_vars =>
            Drained(m, 0)' \/ HasSet(m)' \/ ~Going'
    BY DrainStays
  <1>2. CanInv /\ Sends /\ Drained(m, 0) /\ [Next]_vars /\ <<~crashed /\ Worker>>_vars =>
            DrainNoticed(m)' \/ HasSet(m)' \/ ~Going'
    <2> SUFFICES ASSUME CanInv, Sends, Drained(m, 0), [Next]_vars, <<~crashed /\ Worker>>_vars,
                        Going', ~HasSet(m)'
                 PROVE  DrainNoticed(m)'
      OBVIOUS
    <2>1. PositionCycle
      BY <1>0, GoingSteps
    <2>2. noticed' # 0
      BY <1>0, <2>1, DrainSteps
    <2> QED  BY <1>1, <2>2 DEF DrainNoticed
  <1>3. CanInv /\ Sends /\ DrainNoticed(m) /\ [Next]_vars =>
            DrainNoticed(m)' \/ HasSet(m)' \/ ~Going'
    <2> SUFFICES ASSUME CanInv, Sends, Drained(m, 0), noticed # 0, [Next]_vars,
                        Going', ~HasSet(m)'
                 PROVE  DrainNoticed(m)'
      BY DEF DrainNoticed
    <2>1. Exchange \/ UNCHANGED vars
      BY <1>0, DrainSteps
    <2>2. noticed' = noticed
      BY <2>1 DEF Exchange, vars, command
    <2> QED  BY <1>1, <2>2 DEF DrainNoticed
  <1>4. CanInv /\ Sends /\ DrainNoticed(m) /\ [Next]_vars /\ <<~crashed /\ Worker>>_vars =>
            HasSet(m)' \/ ~Going'
    BY <1>0, GoingSteps, DrainSteps DEF DrainNoticed
  <1>5. CanInv /\ Sends /\ Drained(m, 0) => WorkerCan
    <2> SUFFICES ASSUME CanInv, Sends, Drained(m, 0) PROVE reqQueue = <<>>
      BY <1>0 DEF WorkerCan
    <2>1. reqQueue \in Seq(Frames) /\ Len(reqQueue) \in Nat /\ Len(reqQueue) <= 0
      BY <1>0, GoingFacts DEF Drained
    <2> QED  BY <2>1
  <1>6. DrainNoticed(m) => Drained(m, 0)
    BY DEF DrainNoticed
  <1>7. Spec => (Drained(m, 0) ~> (DrainNoticed(m) \/ HasSet(m) \/ ~Going))
    BY <1>1, <1>2, <1>5, InvAlways, PTL DEF Spec
  <1>8. Spec => (DrainNoticed(m) ~> (HasSet(m) \/ ~Going))
    BY <1>3, <1>4, <1>5, <1>6, InvAlways, PTL DEF Spec
  <1> QED  BY <1>7, <1>8, PTL

\* The instances of the rule of induction on the way from a distance of m + 1 to m, and
\* for the way as a whole.
RulesNear(m) ==
    /\ ByInduction(LAMBDA k : Tidy(m, k), ~Going)
    /\ ByInduction(LAMBDA k : SetDue(m, k), SettledNear(m) \/ ~Going)
    /\ ByInduction(LAMBDA k : MarkNear(m, k), GoalNear(m) \/ ~Going)
    /\ ByInduction(LAMBDA k : MarkFar(m, k), GoalFar(m) \/ ~Going)
    /\ ByInduction(LAMBDA k : Drained(m, k), HasSet(m) \/ ~Going)
Left(k) == Within(Tolerance + k)
RulesFar == ByInduction(Left, ~Going)

\* Everything comes nearer to the target: first the requests that wait, then the drive,
\* then what is known of it.
LEMMA ComesNearer ==
  ASSUME [](BusCan => ENABLED <<~crashed /\ Bus>>_vars),
         [](WorkerCan => ENABLED <<~crashed /\ Worker>>_vars),
         NEW m \in Nat, m >= Tolerance
  PROVE  RulesNear(m) => (Spec => (Within(m + 1) ~> (Within(m) \/ ~Going)))
  <1>1. Spec => \A k \in Nat : Tidy(m, k + 1) ~> (Tidy(m, k) \/ ~Going)
    BY TidyFalls
  <1>2. Spec => \A k \in Nat : SetDue(m, k + 1) ~> (SetDue(m, k) \/ (SettledNear(m) \/ ~Going))
    BY SetFalls DEF SettledNear
  <1>3. Spec => \A k \in Nat : MarkNear(m, k + 1) ~> (MarkNear(m, k) \/ (GoalNear(m) \/ ~Going))
    BY MarkFalls
  <1>4. Spec => \A k \in Nat : MarkFar(m, k + 1) ~> (MarkFar(m, k) \/ (GoalFar(m) \/ ~Going))
    BY MarkFalls
  <1>5. Spec => \A k \in Nat : Drained(m, k + 1) ~> (Drained(m, k) \/ (HasSet(m) \/ ~Going))
    BY DrainFalls
  <1>6. Spec => (Tidy(m, 0) ~> (Still(m) \/ ~Going))
    BY ComesToStand
  <1>7. Spec => /\ SettledNear(m) ~>
                      ((SettledNear(m) /\ reqQueue # <<>>) \/ GoalNear(m) \/ ~Going)
                /\ SettledFar(m) ~>
                      ((SettledFar(m) /\ reqQueue # <<>>) \/ GoalFar(m) \/ ~Going)
    BY IsAsked
  <1>9. Spec => (Drained(m, 0) ~> (HasSet(m) \/ ~Going))
    BY SendsSetPoint
  <1>10. CanInv /\ Sends =>
           /\ Within(m + 1) => \E k \in Nat : Tidy(m, k)
           /\ Still(m) => SettledNear(m) \/ SettledFar(m) \/ HasSet(m)
           /\ HasSet(m) => \E k \in Nat : SetDue(m, k)
           /\ ~SetDue(m, 0) /\ ~MarkNear(m, 0) /\ ~MarkFar(m, 0)
           /\ SettledNear(m) /\ reqQueue # <<>> => \E k \in Nat : MarkNear(m, k)
           /\ SettledFar(m) /\ reqQueue # <<>> => \E k \in Nat : MarkFar(m, k)
           /\ Shown(m, "far") => \E k \in Nat : Drained(m, k)
    BY Stations DEF Sides, SettledNear, SettledFar, MarkNear, MarkFar
  <1>11. CanInv /\ Sends /\ Shown(m, "near") => Within(m)
    BY ShownIsNearer
  <1>12. /\ GoalNear(m) => Shown(m, "near")
         /\ GoalFar(m) => Shown(m, "far") \/ HasSet(m)
    BY DEF Goal, GoalNear, GoalFar
  <1>13. Spec /\ RulesNear(m) => (Within(m + 1) ~> (Still(m) \/ ~Going))
    BY <1>1, <1>6, <1>10, InvAlways, PTL DEF RulesNear, ByInduction
  <1>14. Spec /\ RulesNear(m) => (HasSet(m) ~> (SettledNear(m) \/ ~Going))
    BY <1>2, <1>10, InvAlways, PTL DEF RulesNear, ByInduction
  <1>15. Spec /\ RulesNear(m) => (SettledNear(m) ~> (Within(m) \/ ~Going))
    BY <1>3, <1>7, <1>10, <1>11, <1>12, InvAlways, PTL DEF RulesNear, ByInduction
  <1>16. Spec /\ RulesNear(m) => (Shown(m, "far") ~> (HasSet(m) \/ ~Going))
    BY <1>5, <1>9, <1>10, InvAlways, PTL DEF RulesNear, ByInduction
  <1>17. Spec /\ RulesNear(m) => (SettledFar(m) ~> (HasSet(m) \/ ~Going))
    BY <1>4, <1>7, <1>10, <1>12, <1>16, InvAlways, PTL DEF RulesNear, ByInduction
  <1> QED  BY <1>10, <1>13, <1>14, <1>15, <1>17, InvAlways, PTL

\* The distances from the tolerance up, by how much is left.
LEMMA LeftIsWithin ==
  /\ CanInv /\ Sends /\ Going => \E k \in Nat : Left(k)
  /\ CanInv /\ Sends /\ Left(0) /\ [Next]_vars => Left(0)' \/ ~Going'
  /\ Left(0) => Abs(drive.real - targetPos) <= Tolerance
  <1>0. Tolerance \in Nat /\ Tolerance + 0 = Tolerance
    BY MotorAssumption
  <1>1. CanInv /\ Sends /\ Going => \E k \in Nat : Left(k)
    BY SomewhereWithin DEF Left
  <1>2. CanInv /\ Sends /\ Left(0) /\ [Next]_vars => Left(0)' \/ ~Going'
    BY <1>0, WithinStays DEF Left
  <1>3. Left(0) => Abs(drive.real - targetPos) <= Tolerance
    BY <1>0 DEF Left, Within, Far
  <1> QED  BY <1>1, <1>2, <1>3

LEMMA LeftFalls ==
  ASSUME [](BusCan => ENABLED <<~crashed /\ Bus>>_vars),
         [](WorkerCan => ENABLED <<~crashed /\ Worker>>_vars),
         NEW m \in Nat, NEW k \in Nat, m = Tolerance + k
  PROVE  RulesNear(m) => (Spec => (Left(k + 1) ~> (Left(k) \/ ~Going)))
  <1>0. Tolerance \in Nat
    BY MotorAssumption
  <1>1. m >= Tolerance /\ Tolerance + (k + 1) = m + 1
    BY <1>0
  <1>2. RulesNear(m) => (Spec => (Within(m + 1) ~> (Within(m) \/ ~Going)))
    BY <1>1, ComesNearer
  <1>3. (Left(k + 1) <=> Within(m + 1)) /\ (Left(k) <=> Within(m))
    BY <1>1 DEF Left
  <1> QED  BY <1>2, <1>3, PTL

\* A ZeroErr motor that is on, was sent somewhere and is left in peace goes there and stays
\* there, up to the tolerance, for any positions, speeds and queue, unless positions keep
\* arriving between the two reads of its worker: however stale the positions its set points
\* are computed from, none leads further away than the worst of what waits, is stored or on
\* its way, and the worst comes nearer again and again.  By the fairness of both threads;
\* the hypotheses say when it applies, and are the instances of the rule of induction.
THEOREM MotorGoesThere ==
  ASSUME [](BusCan => ENABLED <<~crashed /\ Bus>>_vars),
         [](WorkerCan => ENABLED <<~crashed /\ Worker>>_vars)
  PROVE  (\A m \in Nat : RulesNear(m)) /\ RulesFar => (Spec => GetsThere)
  <1>1. (\A m \in Nat : RulesNear(m)) =>
          (Spec => \A k \in Nat : Left(k + 1) ~> (Left(k) \/ ~Going))
    <2>1. \A k \in Nat : Tolerance + k \in Nat
      BY MotorAssumption
    <2> QED  BY <2>1, LeftFalls
  <1>2. Going <=> quiet /\ maxStep > 0 /\ drive.power = "on" /\ ~kind.eyou /\ Whole
    BY DEF Going
  <1>3. (\A m \in Nat : RulesNear(m)) /\ RulesFar
          => (Spec => (Going ~> (Left(0) \/ ~Going)))
    BY <1>1, LeftIsWithin, InvAlways, PTL DEF RulesFar, ByInduction
  <1> QED  BY <1>2, <1>3, LeftIsWithin, InvAlways, PTL DEF GetsThere, Spec
=============================================================================
