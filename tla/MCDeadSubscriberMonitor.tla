---------------------- MODULE MCDeadSubscriberMonitor -----------------------
(* Three subscribers for a table of two entries, so that it fills up and its *)
(* entries change hands; subscribers are interchangeable.                    *)
EXTENDS DeadSubscriberMonitor, TLC

Subscribers == Permutations(Key)
=============================================================================
