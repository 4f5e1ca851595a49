----------------------------- MODULE MCHandDevice -----------------------------
(* A TLC instance of HandDevice: a gateway with the hand and, on the same CAN *)
(* bus, a motor and another extended device, both of which ask in each turn.  *)
(* Any selection of them is registered in any order, with any mode.           *)
EXTENDS HandDeviceProps

Device(d, m, a) == [dev |-> d, gateway |-> 1, passage |-> 1, mode |-> m, asks |-> a]
mcHand == Device("hand", "extended", {"query", "command"})
mcEntries == {mcHand, Device("motor", "standard", {"command"}),
              Device("rival", "extended", {"command"})}
=============================================================================
