---------------------------- MODULE MCSensorFrames ----------------------------
(* A TLC instance of SensorFrames. *)
EXTENDS SensorFramesProps
=============================================================================
