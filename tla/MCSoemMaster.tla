---------------------------- MODULE MCSoemMaster ----------------------------
(* A TLC instance of SoemMaster: two slaves, a small window, few attempts.   *)
EXTENDS SoemMasterProps
=============================================================================
