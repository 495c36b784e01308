-------------------------- MODULE MCEventDispatch ---------------------------
(* A ring of three slots, two subscribers, two topics and two payloads.    *)
EXTENDS EventDispatch
=============================================================================
