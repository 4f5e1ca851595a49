--------------------------- MODULE MCCommandFanout ---------------------------
(* TLC instance of CommandFanout: three motors on gateways of either kind,   *)
(* and a message that names them in the order opposite to the bus thread's.  *)
EXTENDS CommandFanout

MCOrder == [i \in 1..3 |-> 4 - i]
=============================================================================
