---------------------------- MODULE MCPowerBoard ----------------------------
(* TLC instances of PowerBoard: three instructions, rounds of six cycles.    *)
EXTENDS PowerBoardProps
=============================================================================
