--------------------------- MODULE MCMotorDevice ---------------------------
(* TLC instances of MotorDevice: a motor with five raw positions whose zero  *)
(* is one off, commands inside and outside the limits.                       *)
EXTENDS MotorDeviceProps

MCPositions == {-2, 0, 3}
MCDistances == {-1, 1}
=============================================================================
