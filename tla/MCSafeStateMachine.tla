------------------------- MODULE MCSafeStateMachine -------------------------
(* Fault patterns that call for three states: full operation, the fallback  *)
(* without LiDAR, and the minimal risk condition.                           *)
EXTENDS SafeStateMachine

MCFaultPattern == {{}, {kLidar}, {kLidar, kRadar, kInvalid}}
=============================================================================
