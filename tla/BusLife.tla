------------------------------- MODULE BusLife -------------------------------
(***************************************************************************)
(* What the rest of the node sees of the EtherCAT master: the bus is       *)
(* started once, the start ends in a bus that runs or in a failure, a bus  *)
(* that ended never runs again, and the caller of Init() gets an answer    *)
(* that does not tell which it was.                                        *)
(***************************************************************************)
VARIABLES
    life,       \* "down", "starting", "up", "failed", "ended"
    answer      \* what Init() returned, "no" before it does

busLifeVars == <<life, answer>>

BusLifeInit == life = "down" /\ answer = "no"

\* Init() is called.
Begin == life = "down" /\ life' = "starting" /\ UNCHANGED answer

\* Init() returns, with the bus running or not.
Settle == life = "starting" /\ life' \in {"up", "failed"} /\ answer' = "true"

\* The bus stops for good.
End == life = "up" /\ life' = "ended" /\ UNCHANGED answer

BusLifeNext == Begin \/ Settle \/ End

BusLifeSafety == BusLifeInit /\ [][BusLifeNext]_busLifeVars
BusLifeSpec == BusLifeSafety /\ WF_busLifeVars(Settle)
=============================================================================
