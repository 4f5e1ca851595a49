---------------------------- MODULE MCCanOpenMotor ----------------------------
(* TLC instances of CanOpenMotor. *)
EXTENDS CanOpenMotorProps
MCKinds == {ZeroErrPosition, ZeroErrTorque, EyouPosition}
MCPositions == {0, 4}
MCSteps == {2}
=============================================================================
