-------------------------- MODULE StatusBatchProofs --------------------------
(***************************************************************************)
(* The status messages are as StatusBatchProps says for any number of      *)
(* devices on gateways of any mode, and keep coming.                       *)
(***************************************************************************)
EXTENDS StatusBatchProps, WellFoundedInduction, TLAPS

\* At the start nothing was heard, reported or sent.
LEMMA InitInv == Init => BatchInv
<1> SUFFICES ASSUME Init PROVE BatchInv
  OBVIOUS
<1>1. 1 \in Devices /\ Devices # {}
  BY BatchAssumption DEF Devices
<1>2. Nothing \in [Devices -> 0..3] /\ 0 \in 0..MaxAge /\ 0 \in 0..(2 * N)
  BY BatchAssumption DEF Nothing
<1>3. TypeOK
  <2>1. /\ msg \in [count : [Devices -> 0..3], age : 0..MaxAge]
        /\ count \in [Devices -> 0..3] /\ age \in 0..MaxAge /\ since \in 0..(2 * N)
    BY <1>2 DEF Init
  <2>2. frames \in Managers /\ turn \in Devices /\ heard = {} /\ ready = FALSE /\ reported = {} /\ sent = 0 /\ phase = 0
    BY <1>1 DEF Init
  <2>3. sent \in 0..2 /\ phase \in 0..N
    BY <2>2, BatchAssumption
  <2>4. ready \in BOOLEAN /\ heard \subseteq Devices /\ reported \subseteq Devices
    BY <2>2, Zenon
  <2>5. theirs \in BOOLEAN /\ gateway \in [Devices -> {"always", "turns", "never"}]
    BY Zenon DEF Init
  <2> QED
    BY <2>1, <2>2, <2>3, <2>4, <2>5 DEF TypeOK
<1>4. sent = 0 /\ reported = {} /\ heard = {} /\ phase = 0 /\ ready = FALSE
  BY DEF Init
<1> QED
  BY <1>3, <1>4
  DEF BatchInv, Before, Steady, FirstMessageComplete, SteadyMessagesCurrent,
      CompleteWithoutMisses

\* The turn ends: the next device's comes, and with it perhaps the next cycle.
TurnEnds ==
    /\ UNCHANGED <<frames, gateway>>
    /\ turn' = IF turn = N THEN 1 ELSE turn + 1
    /\ theirs' = IF turn = N THEN ~theirs ELSE theirs

\* What the end of a turn does to the message under construction.
LEMMA EndTurnFacts ==
    ASSUME TypeOK,
           NEW newCount \in [Devices -> 0..3], NEW newAge \in 0..MaxAge,
           EndTurn(newCount, newAge)
    PROVE  /\ TurnEnds
           /\ turn' \in Devices /\ theirs' \in BOOLEAN
           /\ Shared' = Shared
           /\ count' = newCount
           /\ age' \in 0..MaxAge
           /\ age' <= IF turn = N THEN newAge + 1 ELSE newAge
           /\ newCount = Nothing => age' = 0
<1>1. turn' \in Devices
  BY BatchAssumption DEF TypeOK, EndTurn, Devices
<1>2. theirs' \in BOOLEAN
  BY Zenon DEF TypeOK, EndTurn
<1>3. /\ age' \in 0..MaxAge
      /\ age' <= IF turn = N THEN newAge + 1 ELSE newAge
      /\ newCount = Nothing => age' = 0
  BY BatchAssumption DEF EndTurn, Least
<1>4. TurnEnds
  BY Zenon DEF EndTurn, TurnEnds
<1> QED
  BY <1>1, <1>2, <1>3, <1>4 DEF EndTurn, Shared

\* How long ago a device was called grows by one in each turn but that of a call.
LEMMA AgoSteps ==
    ASSUME TypeOK, TurnEnds, NEW d \in Devices, gateway[d] # "never"
    PROVE  /\ Ago(d) \in 1..(2 * N) /\ Ago(d)' \in Nat
           /\ d = turn /\ Called(d) =>
                /\ Ago(d)' = 1
                /\ Ago(d) = IF d \in Shared THEN 2 * N ELSE N
           /\ ~(d = turn /\ Called(d)) =>
                /\ Ago(d)' = Ago(d) + 1
                /\ Ago(d) < IF d \in Shared THEN 2 * N ELSE N
<1>1. turn \in 1..N /\ d \in 1..N /\ N \in Nat \ {0}
  BY BatchAssumption DEF TypeOK, Devices
<1>2. (d \in Shared)' <=> d \in Shared
  BY DEF TurnEnds, Shared
<1>3. turn' = IF turn = N THEN 1 ELSE turn + 1
  BY DEF TurnEnds
<1>4. CASE d \notin Shared
  <2>1. Called(d)
    BY <1>4 DEF TypeOK, Called, Shared
  <2>2. Ago(d) = IF d < turn THEN turn - d ELSE turn - d + N
    BY <1>4 DEF Ago
  <2>3. Ago(d)' = IF d < turn' THEN turn' - d ELSE turn' - d + N
    BY <1>2, <1>4 DEF Ago
  <2> QED
    BY <1>1, <1>3, <1>4, <2>1, <2>2, <2>3
<1>5. CASE d \in Shared /\ theirs
  <2>1. Called(d)
    BY <1>5 DEF Called
  <2>2. Ago(d) = IF d < turn THEN turn - d ELSE turn - d + 2 * N
    BY <1>5 DEF Ago
  <2>3. theirs' <=> turn # N
    BY <1>5 DEF TurnEnds
  <2>4. Ago(d)' = IF turn # N THEN IF d < turn' THEN turn' - d ELSE turn' - d + 2 * N
                              ELSE turn' - d + N
    BY <1>2, <1>5, <2>3 DEF Ago
  <2> QED
    BY <1>1, <1>3, <1>5, <2>1, <2>2, <2>4
<1>6. CASE d \in Shared /\ ~theirs
  <2>1. ~Called(d)
    BY <1>6 DEF Called, Shared
  <2>2. Ago(d) = turn - d + N
    BY <1>6 DEF Ago
  <2>3. theirs' <=> turn = N
    BY <1>6 DEF TurnEnds
  <2>4. Ago(d)' = IF turn = N THEN IF d < turn' THEN turn' - d ELSE turn' - d + 2 * N
                              ELSE turn' - d + N
    BY <1>2, <1>6, <2>3 DEF Ago
  <2> QED
    BY <1>1, <1>3, <1>6, <2>1, <2>2, <2>4
<1> QED
  BY <1>4, <1>5, <1>6

\* In a message that leaves in the steady state: the device whose turn it is has not
\* been called since the last message, or once if others share time.
LEMMA CallsBound ==
    ASSUME TypeOK, TurnEnds, since < Span, NEW d \in Devices, gateway[d] # "never"
    PROVE  /\ Calls(d) \in Nat
           /\ Calls(d) <= IF Shared = {} \/ d \in Shared THEN 1 ELSE 2
           /\ d = turn /\ Called(d) =>
                Calls(d) + 1 <= IF Shared = {} \/ d \in Shared THEN 1 ELSE 2
           /\ Ends \in Nat /\ Ends <= IF Shared = {} THEN 1 ELSE 2
<1>1. turn \in 1..N /\ N \in Nat \ {0} /\ since \in Nat
  BY BatchAssumption DEF TypeOK, Devices
<1>2. Ago(d) \in 1..(2 * N) /\ (d = turn /\ Called(d) => Ago(d) = IF d \in Shared THEN 2 * N ELSE N)
  BY AgoSteps
<1>3. CASE Shared = {}
  <2>1. since < N /\ d \notin Shared
    BY <1>3 DEF Span
  <2> QED
    BY <1>1, <1>2, <1>3, <2>1 DEF Calls, Ends
<1>4. CASE Shared # {}
  <2>1. since < 2 * N
    BY <1>4 DEF Span
  <2> QED
    BY <1>1, <1>2, <1>4, <2>1 DEF Calls, Ends
<1> QED
  BY <1>3, <1>4

\* A turn in which no message leaves, in the steady state: the device that was called,
\* if one was, reports.
LEMMA SteadyGoesOn ==
    ASSUME TypeOK, Steady, sent > 0, "other" \notin frames,
           \A d \in Devices : gateway[d] # "never",
           NEW newCount \in [Devices -> 0..3], EndTurn(newCount, age),
           since' = LaterSince, UNCHANGED <<sent, phase>>,
           \A d \in Devices \ {turn} : newCount[d] = count[d],
           newCount[turn] <= IF Called(turn) THEN count[turn] + 1 ELSE count[turn],
           reported' = IF Called(turn) THEN reported \cup {turn} ELSE reported,
           reported' # Devices
    PROVE  Steady'
<1> USE BatchAssumption
<1>1. /\ phase \in Devices /\ since < Span
      /\ reported = {d \in Devices : Ago(d) <= since}
      /\ \A d \in Devices : count[d] <= Calls(d)
      /\ age <= Ends
      /\ Shared = {} \/ phase \in Shared => Ago(phase) = since + 1
  BY DEF Steady
<1>2. /\ turn \in Devices /\ turn \in 1..N /\ N \in Nat \ {0} /\ since \in 0..(2 * N)
      /\ age \in 0..MaxAge /\ count \in [Devices -> 0..3]
  BY DEF TypeOK, Devices
<1>3. /\ TurnEnds /\ Shared' = Shared /\ count' = newCount /\ age' \in 0..MaxAge
      /\ age' <= IF turn = N THEN age + 1 ELSE age
  BY <1>2, EndTurnFacts
<1>4. Span' = Span /\ Span \in {N, 2 * N} /\ (Shared # {} => Span = 2 * N)
  BY <1>3 DEF Span
<1>5. since' = since + 1
  BY <1>1, <1>2, <1>4 DEF LaterSince, Least
<1>6. ASSUME NEW d \in Devices
      PROVE  /\ Ago(d) \in 1..(2 * N) /\ Ago(d)' \in Nat
             /\ d = turn /\ Called(turn) =>
                  /\ Ago(d)' = 1
                  /\ Ago(d) = Span \/ (d \notin Shared /\ Ago(d) = N)
             /\ ~(d = turn /\ Called(turn)) => Ago(d)' = Ago(d) + 1 /\ Ago(d) < Span
  BY <1>2, <1>3, <1>4, AgoSteps DEF Span
<1>7. ~(\A d \in Devices : (d = turn /\ Called(turn)) \/ Ago(d) <= since)
  <2> SUFFICES ASSUME \A d \in Devices : (d = turn /\ Called(turn)) \/ Ago(d) <= since
               PROVE  reported' = Devices
    OBVIOUS
  <2>1. reported' \subseteq Devices
    BY <1>1, <1>2
  <2>2. ASSUME NEW d \in Devices PROVE d \in reported'
    <3>1. CASE d = turn /\ Called(turn)
      BY <3>1
    <3>2. CASE Ago(d) <= since
      BY <1>1, <3>2
    <3> QED
      BY <3>1, <3>2
  <2> QED
    BY <2>1, <2>2
<1>8. since' < Span'
  <2>1. since # Span - 1
    BY <1>2, <1>4, <1>6, <1>7
  <2> QED
    BY <1>1, <1>2, <1>4, <1>5, <2>1
<1>9. reported' = {d \in Devices : Ago(d)' <= since'}
  <2>1. \A d \in Devices : Ago(d)' <= since' <=> (d = turn /\ Called(turn)) \/ Ago(d) <= since
    BY <1>2, <1>5, <1>6
  <2> QED
    BY <1>1, <1>2, <2>1
<1>10. ASSUME NEW d \in Devices
       PROVE  count'[d] <= Calls(d)'
  <2>1. (d \in Shared)' <=> d \in Shared
    BY <1>3
  <2>2. count[d] <= Calls(d) /\ count[d] \in Nat /\ count'[d] \in Nat
    BY <1>1, <1>2, <1>3
  <2>3. CASE d = turn /\ Called(turn)
    <3>1. Ago(d)' = 1 /\ Ago(d) = IF d \in Shared THEN 2 * N ELSE N
      BY <1>2, <1>3, <2>3, AgoSteps
    <3>2. count'[d] <= count[d] + 1
      BY <1>3, <2>3
    <3>3. since < 2 * N
      BY <1>1, <1>2, <1>4
    <3> QED
      BY <1>2, <1>5, <2>1, <2>2, <3>1, <3>2, <3>3 DEF Calls
  <2>4. CASE ~(d = turn /\ Called(turn))
    <3>1. Ago(d)' = Ago(d) + 1
      BY <1>6, <2>4
    <3>2. count'[d] <= count[d]
      BY <1>2, <1>3, <2>4
    <3>3. Calls(d)' = Calls(d)
      BY <1>2, <1>5, <1>6, <2>1, <3>1 DEF Calls
    <3>4. Calls(d) \in Nat
      BY DEF Calls
    <3> QED
      BY <2>2, <3>2, <3>3, <3>4
  <2> QED
    BY <2>3, <2>4
<1>11. age' <= Ends'
  <2>1. since < 2 * N
    BY <1>1, <1>2, <1>4
  <2>2. turn' = IF turn = N THEN 1 ELSE turn + 1
    BY <1>3 DEF TurnEnds
  <2> QED
    BY <1>1, <1>2, <1>3, <1>5, <2>1, <2>2 DEF Ends
<1>12. ASSUME Shared = {} \/ phase \in Shared
       PROVE  Ago(phase)' = since' + 1
  <2>1. ASSUME NEW p \in Devices, p = phase
        PROVE  Ago(p)' = since' + 1
    <3>1. Ago(p) = since + 1 /\ (Shared = {} => Span = N) /\ (p \in Shared \/ Shared = {})
      BY <1>1, <1>12, <2>1 DEF Span
    <3>2. CASE p = turn /\ Called(turn)
      <4>1. Ago(p) = Span
        BY <1>3, <1>4, <1>6, <3>1, <3>2
      <4>2. \A d \in Devices : d = turn \/ Ago(d) < Span
        BY <1>6
      <4> QED
        BY <1>2, <1>4, <1>6, <1>7, <3>1, <3>2, <4>1, <4>2
    <3>3. CASE ~(p = turn /\ Called(turn))
      BY <1>5, <1>6, <3>1, <3>3
    <3> QED
      BY <3>2, <3>3
  <2>2. phase' = phase
    OBVIOUS
  <2>3. Ago(phase)' = since' + 1
    BY <1>1, <2>1, <2>2 DEF Ago
  <2> QED
    BY <2>3
<1> QED
  BY <1>1, <1>3, <1>8, <1>9, <1>10, <1>11, <1>12 DEF Steady

\* A turn that reports (Own or Miss) preserves the invariant.
LEMMA ReportInv ==
    ASSUME BatchInv, Called(turn),
           NEW h, h = heard \/ h = heard \cup {turn},
           NEW newCount, newCount = count \/ newCount = [count EXCEPT ![turn] = Least(@ + 1, 3)],
           h # heard \/ "none" \notin frames => newCount[turn] >= 1,
           CheckAndSendStatus(h, reported \cup {turn}, newCount, age)
    PROVE  BatchInv'
<1> USE BatchAssumption
<1>1. TypeOK /\ turn \in Devices /\ h \subseteq Devices
  BY DEF BatchInv, TypeOK
<1>2. newCount \in [Devices -> 0..3] /\ \A d \in Devices : d # turn => newCount[d] = count[d]
  BY DEF BatchInv, TypeOK, Least
<1>3. newCount[turn] >= count[turn] /\ newCount[turn] <= count[turn] + 1
  BY DEF BatchInv, TypeOK, Least
<1>4. /\ age \in 0..MaxAge /\ 0 \in 0..MaxAge /\ Nothing \in [Devices -> 0..3]
      /\ since \in 0..(2 * N) /\ N \in Nat \ {0} /\ LaterSince \in 0..(2 * N)
  BY <1>1 DEF TypeOK, Nothing, LaterSince, Least
<1>5. gateway[turn] # "never" /\ \A d \in h : gateway[d] # "never"
  BY <1>1 DEF BatchInv, Called, Shared
<1>6. CASE IsReady(h) /\ reported \cup {turn} = Devices
  <2>1. /\ heard' = h /\ ready' = TRUE /\ reported' = {}
        /\ sent' = Least(sent + 1, 2)
        /\ msg' = [count |-> newCount, age |-> age]
        /\ phase' = turn
        /\ since' = 0
        /\ EndTurn(Nothing, 0)
    BY <1>6 DEF CheckAndSendStatus, FlagsAfterMessage
  <2>2. /\ TurnEnds /\ frames' = frames /\ gateway' = gateway /\ turn' \in Devices
        /\ theirs' \in BOOLEAN /\ Shared' = Shared
        /\ count' = Nothing /\ age' = 0
    BY <1>1, <1>4, <2>1, EndTurnFacts DEF TurnEnds
  <2>3. sent \in 0..2 /\ sent' \in 1..2 /\ (sent' = 1 => sent = 0) /\ (sent' = 2 => sent > 0)
    BY <1>1, <2>1 DEF TypeOK, Least
  <2>4. h = Devices
    BY <1>6, <1>1 DEF IsReady, BatchInv, TypeOK
  <2>5. TypeOK'
    <3>1. msg' \in [count : [Devices -> 0..3], age : 0..MaxAge]
      BY <1>2, <1>4, <2>1
    <3>2. phase' \in 0..N /\ since' \in 0..(2 * N)
      BY <1>1, <1>4, <2>1 DEF Devices
    <3> QED
      BY <1>1, <1>4, <2>1, <2>2, <2>3, <3>1, <3>2 DEF TypeOK
  <2>6. FirstMessageComplete'
    <3> SUFFICES ASSUME sent = 0, NEW d \in Devices PROVE newCount[d] >= 1
      BY <2>1, <2>3 DEF FirstMessageComplete
    <3>1. CASE d \in heard /\ "thread" \notin frames
      BY <3>1, <1>1, <1>2, <1>3 DEF BatchInv, Before, TypeOK
    <3>2. CASE d \notin heard
      BY <3>2, <2>4
    <3>3. CASE "thread" \in frames
      <4>1. "none" \notin frames
        BY <3>3, <1>1 DEF TypeOK
      <4> QED
        BY <4>1, <1>1, <1>2, <1>3, <1>6 DEF BatchInv, TypeOK
    <3> QED
      BY <3>1, <3>2, <3>3
  <2>7. SteadyMessagesCurrent'
    <3> SUFFICES ASSUME sent > 0, "other" \notin frames
                 PROVE  /\ \A d \in Devices :
                             newCount[d] <= IF Shared = {} \/ d \in Shared THEN 1 ELSE 2
                        /\ age <= IF Shared = {} THEN 1 ELSE 2
      BY <2>1, <2>2, <2>3 DEF SteadyMessagesCurrent
    <3>1. since < Span /\ age <= Ends /\ \A d \in Devices : count[d] <= Calls(d)
      BY DEF BatchInv, Steady
    <3>2. \A d \in Devices : gateway[d] # "never"
      BY <1>5, <2>4
    <3>3. ASSUME NEW d \in Devices
          PROVE  newCount[d] <= IF Shared = {} \/ d \in Shared THEN 1 ELSE 2
      <4>1. count[d] <= Calls(d) /\ count[d] \in Nat /\ newCount[d] \in Nat /\ Calls(d) \in Nat
        BY <1>1, <1>2, <2>2, <3>1, <3>2, CallsBound DEF TypeOK
      <4>2. CASE d = turn
        <5>1. Calls(d) + 1 <= IF Shared = {} \/ d \in Shared THEN 1 ELSE 2
          BY <1>1, <2>2, <3>1, <3>2, <4>2, CallsBound
        <5> QED
          BY <1>3, <4>1, <4>2, <5>1
      <4>3. CASE d # turn
        <5>1. Calls(d) <= IF Shared = {} \/ d \in Shared THEN 1 ELSE 2
          BY <1>1, <2>2, <3>1, <3>2, CallsBound
        <5> QED
          BY <1>2, <4>1, <4>3, <5>1
      <4> QED
        BY <4>2, <4>3
    <3>4. Ends \in Nat /\ Ends <= IF Shared = {} THEN 1 ELSE 2
      BY <1>1, <2>2, <3>1, <3>2, CallsBound
    <3> QED
      BY <1>4, <3>1, <3>3, <3>4
  <2>8. CompleteWithoutMisses'
    BY <1>1, <1>2, <1>3, <1>6, <2>1, <2>2 DEF CompleteWithoutMisses, BatchInv, TypeOK
  <2>9. Steady'
    <3>1. ASSUME NEW d \in Devices
          PROVE  Ago(d)' \in Nat /\ Ago(d)' >= 1 /\ (d = turn => Ago(d)' = 1)
      BY <1>1, <1>5, <2>2, <2>4, AgoSteps
    <3>2. {d \in Devices : Ago(d)' <= 0} = {} /\ Devices # {}
      BY <1>1, <3>1
    <3>3. (Span \in Nat /\ Span > 0)'
      BY <1>4 DEF Span
    <3>4. \A d \in Devices : (Calls(d) \in Nat)' /\ count'[d] = 0
      BY <2>2 DEF Calls, Nothing
    <3>5. (Ends \in Nat)'
      BY DEF Ends
    <3>6. Ago(phase)' = 1
      <4>1. ASSUME NEW p \in Devices, p = turn PROVE Ago(p)' = 1
        BY <3>1, <4>1
      <4> QED
        BY <1>1, <2>1, <4>1 DEF Ago
    <3> QED
      BY <1>1, <2>1, <2>2, <3>2, <3>3, <3>4, <3>5, <3>6 DEF Steady
  <2> QED
    BY <1>5, <2>1, <2>2, <2>3, <2>4, <2>5, <2>6, <2>7, <2>8, <2>9 DEF BatchInv, Before, Nothing
<1>7. CASE ~(IsReady(h) /\ reported \cup {turn} = Devices)
  <2>1. /\ heard' = h /\ ready' = IsReady(h) /\ reported' = reported \cup {turn}
        /\ UNCHANGED <<sent, msg, phase>>
        /\ since' = LaterSince
        /\ EndTurn(newCount, age)
    BY <1>7 DEF CheckAndSendStatus
  <2>2. /\ TurnEnds /\ frames' = frames /\ gateway' = gateway /\ turn' \in Devices
        /\ theirs' \in BOOLEAN /\ Shared' = Shared
        /\ count' = newCount /\ age' \in 0..MaxAge
    BY <1>1, <1>2, <1>4, <2>1, EndTurnFacts DEF TurnEnds
  <2>3. TypeOK'
    <3>1. IsReady(h) \in BOOLEAN
      BY <1>1, Zenon DEF IsReady, TypeOK
    <3> QED
      BY <1>1, <1>2, <1>4, <2>1, <2>2, <3>1 DEF TypeOK
  <2>4. FirstMessageComplete' /\ SteadyMessagesCurrent' /\ CompleteWithoutMisses'
    BY <2>1, <2>2 DEF BatchInv, FirstMessageComplete, SteadyMessagesCurrent, CompleteWithoutMisses
  <2>5. Before'
    BY <1>1, <1>2, <1>3, <2>1, <2>2 DEF BatchInv, Before, TypeOK
  <2>6. (ready => heard = Devices /\ reported # Devices)' /\ (sent > 0 => ready)'
    BY <1>1, <1>7, <2>1 DEF BatchInv, IsReady, TypeOK
  <2>7. ("none" \notin frames => \A d \in reported : count[d] >= 1)'
    BY <1>1, <1>2, <1>3, <2>1, <2>2 DEF BatchInv, TypeOK
  <2>8. Steady'
    <3> SUFFICES ASSUME sent > 0, "other" \notin frames PROVE Steady'
      BY <2>1, <2>2 DEF Steady
    <3>1. Steady /\ IsReady(h) /\ \A d \in Devices : gateway[d] # "never"
      BY DEF BatchInv, IsReady
    <3>2. reported' # Devices
      BY <1>7, <2>1, <3>1
    <3> QED
      BY <1>1, <1>2, <1>3, <2>1, <3>1, <3>2, SteadyGoesOn
  <2>9. (\A d \in heard : gateway[d] # "never")'
    BY <1>5, <2>1, <2>2
  <2> QED
    BY <2>3, <2>4, <2>5, <2>6, <2>7, <2>8, <2>9 DEF BatchInv
<1> QED
  BY <1>6, <1>7

\* A turn without a call, or with a frame of somebody else, leaves the message alone.
LEMMA PassByInv ==
    ASSUME BatchInv, PassBy, ~Called(turn) \/ "other" \in frames PROVE BatchInv'
<1> USE BatchAssumption
<1>1. /\ EndTurn(count, age) /\ since' = LaterSince
      /\ UNCHANGED <<heard, ready, reported, sent, msg, phase>>
  BY DEF PassBy
<1>2. TypeOK /\ count \in [Devices -> 0..3] /\ age \in 0..MaxAge /\ turn \in Devices
  BY DEF BatchInv, TypeOK
<1>3. /\ frames' = frames /\ gateway' = gateway /\ turn' \in Devices /\ theirs' \in BOOLEAN
      /\ Shared' = Shared /\ count' = count /\ age' \in 0..MaxAge
  BY <1>1, <1>2, EndTurnFacts DEF TurnEnds
<1>4. LaterSince \in 0..(2 * N)
  BY <1>2 DEF TypeOK, LaterSince, Least
<1>5. TypeOK'
  BY <1>1, <1>2, <1>3, <1>4 DEF TypeOK
<1>6. Steady'
  <2> SUFFICES ASSUME sent > 0, "other" \notin frames PROVE Steady'
    BY <1>1, <1>3 DEF Steady
  <2>1. Steady /\ reported # Devices /\ \A d \in Devices : gateway[d] # "never"
    BY DEF BatchInv, Steady
  <2> QED
    BY <1>1, <1>2, <2>1, SteadyGoesOn DEF TypeOK
<1> QED
  BY <1>1, <1>2, <1>3, <1>5, <1>6
  DEF BatchInv, Before, FirstMessageComplete, SteadyMessagesCurrent, CompleteWithoutMisses

\* The invariant depends on these variables alone.
LEMMA SameSteady ==
    ASSUME Steady, UNCHANGED <<frames, gateway, theirs, turn, reported, count, age, sent, phase, since>>
    PROVE  Steady'
<1>1. Shared' = Shared /\ Span' = Span /\ Ends' = Ends
  BY DEF Shared, Span, Ends
<1>2. \A d \in Devices : Ago(d)' = Ago(d) /\ Calls(d)' = Calls(d)
  BY <1>1 DEF Ago, Calls
<1>3. Ago(phase)' = Ago(phase)
  BY <1>1 DEF Ago
<1> QED
  BY <1>1, <1>2, <1>3 DEF Steady

\* A device that becomes ready by itself changes no message.
LEMMA SetReadyInv == ASSUME BatchInv, SetReady PROVE BatchInv'
<1>1. /\ "thread" \in frames
      /\ UNCHANGED <<frames, gateway, theirs, turn, ready, reported, count, age, sent, msg, phase,
                     since>>
  BY DEF SetReady
<1>2. PICK d \in Devices \ heard : gateway[d] # "never" /\ heard' = heard \cup {d}
  BY DEF SetReady
<1>3. ~ready
  BY <1>2 DEF BatchInv
<1>4. Steady' /\ Shared' = Shared
  BY <1>1, SameSteady DEF BatchInv, Shared
<1> QED
  BY <1>1, <1>2, <1>3, <1>4
  DEF BatchInv, TypeOK, Before, FirstMessageComplete, SteadyMessagesCurrent, CompleteWithoutMisses

\* A step without a turn and without SetReady changes nothing.
LEMMA StutterInv == ASSUME BatchInv, UNCHANGED vars PROVE BatchInv'
<1>1. UNCHANGED <<frames, gateway, theirs, turn, heard, ready, reported, count, age, sent, msg,
                  phase, since>>
  BY DEF vars
<1>2. Steady' /\ Shared' = Shared
  BY <1>1, SameSteady DEF BatchInv, Shared
<1>3. TypeOK'
  <2>1. ready' \in BOOLEAN /\ theirs' \in BOOLEAN
    BY <1>1, Zenon DEF BatchInv, TypeOK
  <2> QED
    BY <1>1, <2>1 DEF BatchInv, TypeOK
<1> QED
  BY <1>1, <1>2, <1>3
  DEF BatchInv, Before, FirstMessageComplete, SteadyMessagesCurrent, CompleteWithoutMisses

\* Every step preserves the invariant.
LEMMA NextInv == ASSUME BatchInv, [Next]_vars PROVE BatchInv'
<1>1. count \in [Devices -> 0..3] /\ turn \in Devices
  BY DEF BatchInv, TypeOK
<1>2. CASE Called(turn) /\ Own
  <2> DEFINE newCount == [count EXCEPT ![turn] = Least(@ + 1, 3)]
  <2>1. newCount[turn] >= 1
    BY <1>1 DEF Least
  <2> QED
    BY <1>2, <2>1, ReportInv DEF Own
<1>3. CASE Called(turn) /\ Miss
  <2>1. "none" \in frames
    BY <1>3 DEF Miss
  <2> QED
    BY <1>3, <2>1, ReportInv DEF Miss
<1>4. CASE Called(turn) /\ Other
  BY <1>4, PassByInv DEF Other
<1>5. CASE ~Called(turn) /\ PassBy
  BY <1>5, PassByInv
<1>6. CASE SetReady
  BY <1>6, SetReadyInv
<1>7. CASE UNCHANGED vars
  BY <1>7, StutterInv
<1> QED
  BY <1>2, <1>3, <1>4, <1>5, <1>6, <1>7 DEF Next, Turn

\* BatchInv holds for every number of devices, whatever their passages hold.
THEOREM BatchInvariant == Spec => []BatchInv
<1>1. BatchInv /\ [Next]_vars => BatchInv'
  BY NextInv
<1> QED
  BY InitInv, <1>1, PTL DEF Spec

\* The first message lacks no motor, and devices that cannot be missed are in
\* every message.
THEOREM MessagesLackNobody == Spec => []MessagesComplete
<1>1. BatchInv => MessagesComplete
  BY DEF BatchInv, MessagesComplete
<1> QED
  BY BatchInvariant, <1>1, PTL

\* A motor appears at most once in a later message, with a status of this or the last
\* cycle; at most twice, with a status at most two cycles old, where motors on gateways
\* that share time slow the messages down.
THEOREM MessagesAsPromised == Spec => []SteadyMessagesCurrent
<1>1. BatchInv => SteadyMessagesCurrent
  BY DEF BatchInv
<1> QED
  BY BatchInvariant, <1>1, PTL

\* The turn in which messages leave does not change once the first has left: at once
\* where no gateway shares time, otherwise from when it is that of a device of one.
THEOREM PhaseIsKept == Spec => PhaseKept
<1>1. ASSUME BatchInv, [Next]_vars, phase # 0, "other" \notin frames,
             Shared = {} \/ phase \in Shared
      PROVE  phase' = phase
  <2>1. TypeOK /\ sent > 0
    BY <1>1 DEF BatchInv, Before, TypeOK
  <2>2. phase \in Devices /\ reported = {d \in Devices : Ago(d) <= since}
        /\ Ago(phase) = since + 1 /\ since \in Nat
    BY <1>1, <2>1 DEF BatchInv, Steady, TypeOK
  <2>3. phase \notin reported
    <3>1. ASSUME NEW p \in Devices, p = phase PROVE ~(Ago(p) <= since)
      BY <2>2, <3>1
    <3> QED
      BY <2>2, <3>1
  <2>4. ASSUME NEW h, NEW newCount,
               CheckAndSendStatus(h, reported \cup {turn}, newCount, age)
        PROVE  phase' = phase
    <3>1. CASE IsReady(h) /\ reported \cup {turn} = Devices
      <4>1. turn = phase
        BY <2>2, <2>3, <3>1
      <4> QED
        BY <2>4, <3>1, <4>1 DEF CheckAndSendStatus
    <3>2. CASE ~(IsReady(h) /\ reported \cup {turn} = Devices)
      BY <2>4, <3>2 DEF CheckAndSendStatus
    <3> QED
      BY <3>1, <3>2
  <2>5. CASE Own \/ Miss
    BY <2>4, <2>5 DEF Own, Miss
  <2>6. CASE PassBy \/ SetReady \/ UNCHANGED vars
    BY <2>6 DEF PassBy, SetReady, vars
  <2> QED
    BY <1>1, <2>5, <2>6 DEF Next, Turn, Other
<1>2. BatchInv /\ [Next]_vars
        => [phase # 0 /\ "other" \notin frames /\ (Shared = {} \/ phase \in Shared)
              => phase' = phase]_vars
  BY <1>1
<1> QED
  BY BatchInvariant, <1>2, PTL DEF Spec, PhaseKept

-----------------------------------------------------------------------------
(* Messages keep coming *)

\* The rule of descent on the natural numbers, for states: from P one comes to Q
\* if from P with R = n one comes to Q, or to P with a smaller R, for every n.
\* It holds of every behaviour; theorems take the instances they need of it.
Falls(P, Q, R, n) == (P /\ R = n) ~> (Q \/ (P /\ R < n))
ByDescent(P, Q, R) == [](P => R \in Nat) /\ (\A n \in Nat : Falls(P, Q, R, n)) => (P ~> Q)

\* A message is under construction that waits for nothing but reports.
Building == ready /\ "other" \notin frames /\ reported # {}

\* Its devices that lack a report; the turns before one is called; and before all are.
Lacking == Devices \ reported
Due(d) ==
    IF d \in Shared
    THEN IF theirs THEN IF turn <= d THEN d - turn ELSE d - turn + 2 * N
                   ELSE d - turn + N
    ELSE IF turn <= d THEN d - turn ELSE d - turn + N
TurnsLeft ==
    IF Lacking = {} THEN 0
    ELSE CHOOSE m \in {Due(d) : d \in Lacking} : \A d \in Lacking : Due(d) <= m

\* Of finitely many turns one is the last.
LEMMA LastTurn ==
  ASSUME NEW S, S \subseteq 0..(2 * N - 1), S # {}
  PROVE  \E m \in S : \A j \in S : j <= m
  <1> DEFINE last == 2 * N - 1
             rest == {last - m : m \in S}
  <1>1. N \in Nat /\ last \in Int /\ \A m \in S : m \in Nat /\ last - m \in Nat
    BY BatchAssumption
  <1> HIDE DEF last
  <1>2. rest \subseteq Nat /\ rest # {}
    BY <1>1
  <1>3. PICK r \in rest : \A n \in rest : <<n, r>> \notin OpToRel(<, Nat)
    BY <1>2, WFMin, NatLessThanWellFounded, Zenon
  <1>4. \A n \in rest : ~(n < r)
    BY <1>2, <1>3, Zenon DEF OpToRel
  <1>5. PICK m \in S : r = last - m
    OBVIOUS
  <1>6. \A j \in S : ~(last - j < r)
    BY <1>4
  <1> QED  BY <1>1, <1>5, <1>6

IsLast ==
    /\ \A d \in Devices : Due(d) \in 0..(2 * N - 1)
    /\ TurnsLeft \in Nat
    /\ \A d \in Lacking : Due(d) <= TurnsLeft
    /\ Lacking # {} => \E d \in Lacking : TurnsLeft = Due(d)

LEMMA TurnsLeftIsLast == turn \in Devices => IsLast
  <1> SUFFICES ASSUME turn \in Devices PROVE IsLast
    OBVIOUS
  <1> USE DEF IsLast
  <1>1. \A d \in Devices : Due(d) \in 0..(2 * N - 1)
    BY BatchAssumption DEF Due, Devices
  <1> DEFINE dues == {Due(d) : d \in Lacking}
  <1>2. CASE Lacking = {}
    BY <1>1, <1>2 DEF TurnsLeft
  <1>3. CASE Lacking # {}
    <2>1. dues \subseteq 0..(2 * N - 1) /\ dues # {}
      BY <1>1, <1>3 DEF Lacking
    <2>2. \E m \in dues : \A j \in dues : j <= m
      BY <2>1, LastTurn
    <2>3. \E m \in dues : \A d \in Lacking : Due(d) <= m
      BY <2>2
    <2>4. TurnsLeft \in dues /\ \A d \in Lacking : Due(d) <= TurnsLeft
      BY <1>3, <2>3 DEF TurnsLeft
    <2> QED  BY <1>1, <2>1, <2>4, BatchAssumption
  <1> QED  BY <1>2, <1>3

\* A turn brings every device nearer to its call, but for the one it calls.
LEMMA DueSteps ==
  ASSUME TypeOK, TurnEnds, NEW d \in Devices, gateway[d] # "never",
         d # turn \/ ~Called(turn)
  PROVE  Due(d)' \in Int /\ Due(d)' < Due(d)
  <1>1. turn \in 1..N /\ d \in 1..N /\ N \in Nat \ {0}
    BY BatchAssumption DEF TypeOK, Devices
  <1>2. ((d \in Shared)' <=> d \in Shared) /\ turn' = IF turn = N THEN 1 ELSE turn + 1
    BY DEF TurnEnds, Shared
  <1>3. CASE d \notin Shared
    <2>1. d # turn
      BY <1>3 DEF TypeOK, Called, Shared
    <2>2. /\ Due(d) = IF turn <= d THEN d - turn ELSE d - turn + N
          /\ Due(d)' = IF turn' <= d THEN d - turn' ELSE d - turn' + N
      BY <1>2, <1>3 DEF Due
    <2> QED  BY <1>1, <1>2, <2>1, <2>2
  <1>4. CASE d \in Shared /\ theirs
    <2>1. d # turn
      BY <1>4 DEF Called
    <2>2. theirs' <=> turn # N
      BY <1>4 DEF TurnEnds
    <2>3. /\ Due(d) = IF turn <= d THEN d - turn ELSE d - turn + 2 * N
          /\ Due(d)' = IF turn # N THEN IF turn' <= d THEN d - turn' ELSE d - turn' + 2 * N
                                   ELSE d - turn' + N
      BY <1>2, <1>4, <2>2 DEF Due
    <2> QED  BY <1>1, <1>2, <2>1, <2>3
  <1>5. CASE d \in Shared /\ ~theirs
    <2>1. theirs' <=> turn = N
      BY <1>5 DEF TurnEnds
    <2>2. /\ Due(d) = d - turn + N
          /\ Due(d)' = IF turn = N THEN IF turn' <= d THEN d - turn' ELSE d - turn' + 2 * N
                                   ELSE d - turn' + N
      BY <1>2, <1>5, <2>1 DEF Due
    <2> QED  BY <1>1, <1>2, <2>2
  <1> QED  BY <1>3, <1>4, <1>5

\* A turn that leaves a device to be heard of brings the last of them nearer.
LEMMA LastNearer ==
  ASSUME BatchInv, ready, TurnEnds, turn' \in Devices, Lacking' # {},
         \A d \in Lacking' : d \in Lacking /\ (d # turn \/ ~Called(turn))
  PROVE  TurnsLeft' < TurnsLeft
  <1>1. TypeOK /\ turn \in Devices /\ \A d \in Devices : gateway[d] # "never"
    BY DEF BatchInv, TypeOK
  <1>2. (turn \in Devices => IsLast)'
    BY TurnsLeftIsLast, PTL
  <1>3. PICK d \in Lacking' : TurnsLeft' = Due(d)'
    BY <1>2 DEF IsLast
  <1>4. d \in Devices /\ d \in Lacking /\ (d # turn \/ ~Called(turn))
    BY <1>3 DEF Lacking
  <1>5. Due(d)' \in Int /\ Due(d)' < Due(d)
    BY <1>1, <1>4, DueSteps
  <1>6. Due(d) <= TurnsLeft /\ Due(d) \in Int /\ TurnsLeft \in Nat
    BY <1>1, <1>4, TurnsLeftIsLast, BatchAssumption DEF IsLast
  <1> QED  BY <1>3, <1>5, <1>6

\* Every turn completes the message or brings the last device that lacks a report
\* nearer to its own.
LEMMA TurnNearer ==
  ASSUME BatchInv, Building, [Next]_vars
  PROVE  /\ Building' \/ reported' = {}
         /\ ~Turn => TurnsLeft' = TurnsLeft
         /\ Turn => reported' = {} \/ TurnsLeft' < TurnsLeft
  <1>0. /\ turn \in Devices /\ reported \subseteq Devices /\ reported # Devices
        /\ ready /\ "other" \notin frames /\ TypeOK
        /\ count \in [Devices -> 0..3] /\ age \in 0..MaxAge
    BY DEF BatchInv, TypeOK, Building
  <1>a. ASSUME NEW newCount, NEW newAge, EndTurn(newCount, newAge)
        PROVE  TurnEnds /\ turn' \in Devices /\ frames' = frames
    <2>1. TurnEnds /\ frames' = frames
      BY <1>a, Zenon DEF EndTurn, TurnEnds
    <2>2. turn' \in Devices
      BY <1>0, <2>1, BatchAssumption DEF TurnEnds, Devices
    <2> QED  BY <2>1, <2>2
  <1>1. CASE Called(turn) /\ (Own \/ Miss)
    <2>1. PICK h, newCount : CheckAndSendStatus(h, reported \cup {turn}, newCount, age)
      BY <1>1 DEF Own, Miss
    <2>2. ready' /\ frames' = frames /\ TurnEnds /\ turn' \in Devices
      <3>1. ready'
        BY <1>0, <2>1 DEF CheckAndSendStatus, IsReady
      <3> QED
        BY <1>a, <2>1, <3>1, Zenon DEF CheckAndSendStatus
    <2>a. Turn
      BY <1>1 DEF Turn
    <2>3. CASE reported \cup {turn} = Devices
      <3>1. reported' = {}
        BY <1>0, <2>1, <2>3 DEF CheckAndSendStatus, FlagsAfterMessage, IsReady
      <3> QED  BY <2>a, <3>1
    <2>4. CASE reported \cup {turn} # Devices
      <3>1. reported' = reported \cup {turn} /\ Building'
        BY <1>0, <2>1, <2>2, <2>4 DEF CheckAndSendStatus, Building
      <3>2. Lacking' # {} /\ \A d \in Lacking' : d \in Lacking /\ d # turn
        BY <1>0, <2>4, <3>1 DEF Lacking, Devices
      <3>3. TurnsLeft' < TurnsLeft
        BY <1>0, <2>2, <3>2, LastNearer
      <3> QED  BY <2>a, <3>1, <3>3
    <2> QED  BY <2>3, <2>4
  <1>2. CASE ~Called(turn) /\ PassBy
    <2>1. UNCHANGED <<ready, reported>> /\ frames' = frames /\ TurnEnds /\ turn' \in Devices
      BY <1>2, <1>a DEF PassBy
    <2>2. Lacking' # {} /\ \A d \in Lacking' : d \in Lacking
      BY <1>0, <2>1 DEF Lacking, Devices
    <2>3. TurnsLeft' < TurnsLeft
      BY <1>0, <1>2, <2>1, <2>2, LastNearer
    <2>4. Building'
      BY <2>1 DEF Building
    <2> QED  BY <1>2, <2>3, <2>4 DEF Turn
  <1>3. CASE ~Turn
    <2>1. UNCHANGED <<frames, gateway, theirs, turn, ready, reported>>
      BY <1>3 DEF Next, SetReady, vars
    <2>2. Lacking' = Lacking /\ \A d \in Devices : Due(d)' = Due(d)
      BY <2>1 DEF Lacking, Due, Shared
    <2>3. {Due(d) : d \in Lacking}' = {Due(d) : d \in Lacking}
      BY <2>2 DEF Lacking
    <2> QED  BY <1>3, <2>1, <2>2, <2>3 DEF Building, TurnsLeft, Lacking, Due, Shared
  <1> QED  BY <1>0, <1>1, <1>2, <1>3 DEF Turn, Other

LEMMA TurnsFall ==
  ASSUME [](Building => ENABLED <<Turn>>_vars), NEW n \in Nat
  PROVE  Spec => Falls(Building, reported = {}, TurnsLeft, n)
  <1> DEFINE Here == Building /\ TurnsLeft = n
             Gone == reported = {} \/ (Building /\ TurnsLeft < n)
  <1>1. BatchInv /\ Here /\ [Next]_vars => Here' \/ Gone'
    BY TurnNearer
  <1>2. BatchInv /\ Here /\ [Next]_vars /\ <<Turn>>_vars => Gone'
    BY TurnNearer
  <1>3. Here => Building
    OBVIOUS
  <1> HIDE DEF Here, Gone
  <1>4. Spec => (Here ~> Gone)
    BY <1>1, <1>2, <1>3, BatchInvariant, PTL DEF Spec
  <1> QED  BY <1>4 DEF Here, Gone, Falls

\* Once every device was heard of messages keep coming, for any number of devices,
\* although devices fall silent.  By the fairness of the bus thread and descent to
\* the turn of the last device that has not reported; the hypotheses say when
\* fairness applies, and are the instance of the rule.
THEOREM MessagesKeepComing ==
  ASSUME [](Building => ENABLED <<Turn>>_vars)
  PROVE  ByDescent(Building, reported = {}, TurnsLeft) => (Spec => KeepsPublishing)
  <1>1. Spec => \A n \in Nat : Falls(Building, reported = {}, TurnsLeft, n)
    BY TurnsFall
  <1>2. BatchInv => TurnsLeft \in Nat
    BY TurnsLeftIsLast DEF IsLast, BatchInv, TypeOK
  <1>3. Spec /\ ByDescent(Building, reported = {}, TurnsLeft) => (Building ~> (reported = {}))
    BY <1>1, <1>2, BatchInvariant, PTL DEF ByDescent
  <1>4. ready /\ "other" \notin frames => Building \/ reported = {}
    BY DEF Building
  <1> QED  BY <1>3, <1>4, PTL DEF KeepsPublishing
=============================================================================
