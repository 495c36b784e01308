------------------------- MODULE MCServiceRegistry --------------------------
(* Three services for a registry of two entries, so that it fills up.       *)
EXTENDS ServiceRegistry
=============================================================================
