---------------------------- MODULE MCNodeMonitor ----------------------------
(* A TLC instance of NodeMonitor: a list of two motors and the power board;    *)
(* the node state goes to a monitor of one motor.                              *)
EXTENDS NodeProps

mcSectionOf == [d \in Devices |-> IF d = "power" THEN "power_mapping" ELSE "motors_mapping"]
=============================================================================
