------------------------- MODULE MCSafetyArbitrator -------------------------
(* The arbitrator with LiDAR and Radar, both mandatory, as in the repository's *)
(* tests, the index kInvalid, which no report can reach, and a short ring.     *)
EXTENDS SafetyArbitrator
=============================================================================
