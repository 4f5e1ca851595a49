--------------------------- MODULE StatusBatchProps ---------------------------
(***************************************************************************)
(* What subscribers of ~/motor_state and of the other status topics may    *)
(* rely on, and the inductive invariant behind it.                         *)
(***************************************************************************)
EXTENDS StatusBatch

\* Type invariant.
TypeOK ==
    /\ frames \in Managers
    /\ gateway \in [Devices -> {"always", "turns", "never"}]
    /\ theirs \in BOOLEAN
    /\ turn \in Devices
    /\ heard \subseteq Devices
    /\ ready \in BOOLEAN
    /\ reported \subseteq Devices
    /\ count \in [Devices -> 0..3]
    /\ age \in 0..MaxAge
    /\ sent \in 0..2
    /\ msg \in [count : [Devices -> 0..3], age : 0..MaxAge]
    /\ phase \in 0..N
    /\ since \in 0..(2 * N)

\* The first message holds a status of every motor, although a motor that is
\* silent counts as reported in each cycle it misses.
FirstMessageComplete == sent = 1 => \A d \in Devices : msg.count[d] >= 1

\* Once the first message is out, a motor that answers or misses whenever it is called
\* appears at most once per message, with a status of this or the last cycle.  If any
\* motor is on a gateway that shares time, messages come in every second cycle: then
\* the others appear up to twice, and statuses are up to two cycles old.
SteadyMessagesCurrent ==
    sent = 2 /\ "other" \notin frames =>
        /\ \A d \in Devices : msg.count[d] <= IF Shared = {} \/ d \in Shared THEN 1 ELSE 2
        /\ msg.age <= IF Shared = {} THEN 1 ELSE 2

\* Then the message always leaves in the turn of the same device: the one whose
\* answer completed the set, never realigned to the start of the cycle.  Where gateways
\* share time it settles on one of their devices.
PhaseKept ==
    [][phase # 0 /\ "other" \notin frames /\ (Shared = {} \/ phase \in Shared)
          => phase' = phase]_vars

\* In the managers without a miss callback a message never leaves without a
\* status of every device, frames of strangers and silent devices included.
CompleteWithoutMisses ==
    sent > 0 /\ "none" \notin frames => \A d \in Devices : msg.count[d] >= 1

\* Both: no message lacks a device but for motors that were silent after the first one.
MessagesComplete == FirstMessageComplete /\ CompleteWithoutMisses

\* Once every motor was heard of messages keep coming, also when motors fall
\* silent: the set of reports is completed again and again.
KeepsPublishing == ready /\ "other" \notin frames ~> (reported = {})

-----------------------------------------------------------------------------
(* The inductive invariant *)

\* The turns since a device was called last, in a bus that has run for two cycles.
Ago(d) ==
    IF d \in Shared
    THEN IF theirs THEN IF d < turn THEN turn - d ELSE turn - d + 2 * N
                   ELSE turn - d + N
    ELSE IF d < turn THEN turn - d ELSE turn - d + N

\* The turns in which every device is called.
Span == IF Shared = {} THEN N ELSE 2 * N

\* How often the device was called since the last message.
Calls(d) ==
    IF Ago(d) > since THEN 0
    ELSE IF d \in Shared \/ Ago(d) + N > since THEN 1 ELSE 2

\* How many cycles ended since the last message.
Ends == IF since < turn THEN 0 ELSE IF since < turn + N THEN 1 ELSE 2

\* No message was ever sent: whoever was heard of has a status waiting, unless it
\* was its own thread that made it ready.
Before ==
    sent = 0 => phase = 0 /\ ("thread" \notin frames => \A d \in heard : count[d] >= 1)

\* In the steady state those that were called since the last message have reported,
\* once in each call, and within two cycles all are.
Steady ==
    sent > 0 /\ "other" \notin frames =>
        /\ phase \in Devices
        /\ since < Span
        /\ reported = {d \in Devices : Ago(d) <= since}
        /\ \A d \in Devices : count[d] <= Calls(d)
        /\ age <= Ends
        /\ Shared = {} \/ phase \in Shared => Ago(phase) = since + 1

BatchInv ==
    /\ TypeOK
    /\ Before
    /\ Steady
    /\ ready => heard = Devices /\ reported # Devices
    /\ \A d \in heard : gateway[d] # "never"
    /\ sent > 0 => ready
    /\ "none" \notin frames => \A d \in reported : count[d] >= 1
    /\ FirstMessageComplete
    /\ SteadyMessagesCurrent
    /\ CompleteWithoutMisses
=============================================================================
