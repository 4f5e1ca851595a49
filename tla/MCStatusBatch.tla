---------------------------- MODULE MCStatusBatch ----------------------------
(* TLC instance of StatusBatch. *)
EXTENDS StatusBatchProps

\* MotorDeviceManager hears of a silent motor; the managers of the hand, of the Eyou and
\* of the ZeroErr motors do not, and their passages bring other frames.
MCManagers == {{"own", "none"}, {"own", "other", "extended"}, {"own", "other", "thread"}}
=============================================================================
