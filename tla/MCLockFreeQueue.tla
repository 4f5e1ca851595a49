--------------------------- MODULE MCLockFreeQueue ---------------------------
(***************************************************************************)
(* TLC instance of LockFreeQueue, and the mistakes its properties catch.   *)
(***************************************************************************)
EXTENDS LockFreeQueueProps
=============================================================================
