----------------------------- MODULE FifoChannel ----------------------------
(***************************************************************************)
(* What a ring buffer of the gateway promises to its producer and its      *)
(* consumer: a bounded FIFO.  An accepted event is delivered exactly once, *)
(* in order and unaltered; an event is refused for lack of room only while *)
(* Capacity events wait.  IpcBridge (safety loop to M7) and EventDispatch  *)
(* (network thread to safety loop) are shown to implement it.              *)
(***************************************************************************)
EXTENDS Naturals, Sequences

CONSTANTS Event,      \* the events that fit in a slot
          NoEvent,    \* "nothing received yet"
          Capacity,   \* how many events can wait
          FullCode    \* the error code of a refusal for lack of room

VARIABLES queue,   \* the events accepted and not yet delivered, oldest first
          rc,      \* what the last call of the producer returned
          out      \* the last event delivered

vars == <<queue, rc, out>>

Refusal == {"kNotInitialized", "kAlreadyRegistered", "kInvalidArgument"}

Init == queue = <<>> /\ rc = "none" /\ out = NoEvent

\* The channel is opened: nothing waits in it.
Open == queue = <<>> /\ rc' = "ok" /\ UNCHANGED <<queue, out>>

Accept(e) == /\ Len(queue) < Capacity
             /\ queue' = Append(queue, e)
             /\ rc' = "ok"
             /\ UNCHANGED out

\* A misuse of the interface is reported and changes nothing.
Reject == rc' \in Refusal /\ UNCHANGED <<queue, out>>

Full == /\ Len(queue) = Capacity
        /\ rc' = FullCode
        /\ UNCHANGED <<queue, out>>

Deliver == /\ queue # <<>>
           /\ out' = Head(queue)
           /\ queue' = Tail(queue)
           /\ UNCHANGED rc

Next == Open \/ (\E e \in Event : Accept(e)) \/ Reject \/ Full \/ Deliver

SafeSpec == Init /\ [][Next]_vars

\* The consumer keeps taking what waits.
Spec == SafeSpec /\ WF_vars(Deliver)
=============================================================================
