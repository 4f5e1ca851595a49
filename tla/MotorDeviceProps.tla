-------------------------- MODULE MotorDeviceProps --------------------------
(* What a motor's device promises to the clients and to the machine. *)
EXTENDS MotorDevice

\* The frames on their way to the motor.
Sendable == {reqBuff} \cup {reqQueue[i] : i \in 1..Len(reqQueue)}

\* Types.
MotorTypeOK ==
    /\ node \in {"IDLE", "RUNNING"}
    /\ reqQueue \in Seq(Frames) /\ reqBuff \in Frames
    /\ phase \in {"request", "exchange", "response", "flag"}
    /\ answered \in BOOLEAN /\ heard \in BOOLEAN /\ ready \in BOOLEAN /\ quiet \in BOOLEAN
    /\ position \in Raw /\ real \in Raw
    /\ report \in Int /\ goal \in Int
    /\ last \in {"none", "position", "distance", "speed"}

\* A command is computed only from a position that was received, and until the
\* node runs and the motor was heard of nothing but a stop goes out, however
\* the executor and the bus thread interleave.
StopsUntilHeard ==
    /\ phase = "flag" \/ ready => heard
    /\ \A f \in Sendable : f # Stop => node = "RUNNING" /\ ready

\* No frame asks for a position beyond the limits of the motor.
WithinLimits == \A f \in Sendable : f.kind = "position" => f.val \in Raw

\* The inductive invariant of a motor's device.
MotorInv == MotorTypeOK /\ StopsUntilHeard /\ WithinLimits

\* The zero offset is applied once on the way out and once on the way back:
\* a motor sent to a position ends up reporting that position.
PositionReached == <>[](quiet /\ last = "position" => report = goal)

\* A motor sent a distance ends up that distance from where it was
\* (SetMotorDistance.msg:2, "distance  # rad").
DistanceReached == <>[](quiet /\ last = "distance" => report = goal)
=============================================================================
