---------------------------- MODULE MCIpcBridge -----------------------------
(* The bridge on a ring of RingSlots slots with an 8-valued counter.        *)
EXTENDS IpcBridge
=============================================================================
