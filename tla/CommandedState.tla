--------------------------- MODULE CommandedState ---------------------------
(***************************************************************************)
(* What the safety arbitrator does with the state it is in, seen from      *)
(* outside: it moves only to a state that the degradation matrix calls     *)
(* for, offers each to the M7 before it commits it, and commits it whether *)
(* or not the ring had room.  The M7 takes what the ring accepted in       *)
(* order.                                                                  *)
(*                                                                         *)
(* SafeStateMachine (ExecuteTransition() store by store, with the numbers, *)
(* the log and the listeners) and SafetyArbitrator (the whole loop, behind *)
(* the fault monitor) are two models of the same code; both implement this *)
(* specification.                                                          *)
(***************************************************************************)
EXTENDS Naturals, Sequences

CONSTANTS
  Called,     \* the states the matrix calls for
  Initial,    \* the state after Init()
  Latched,    \* the state that is left no more
  Capacity    \* commands that fit in the ring to the M7

VARIABLES
  phase,      \* between transitions, or the next call: "idle", "send", "commit"
  current,    \* the committed state
  target,     \* the state it is on its way to; current when idle
  queue,      \* the states commanded and not yet taken by the M7
  enforced    \* the state the M7 enforces

vars == <<phase, current, target, queue, enforced>>

Init == /\ phase = "idle"
        /\ current = Initial /\ target = Initial
        /\ queue = <<>> /\ enforced = Initial

Require(s) == /\ phase = "idle"
              /\ s # current /\ current # Latched
              /\ target' = s
              /\ phase' = "send"
              /\ UNCHANGED <<current, queue, enforced>>

Offer == /\ phase = "send"
         /\ queue' = IF Len(queue) < Capacity THEN Append(queue, target) ELSE queue
         /\ phase' = "commit"
         /\ UNCHANGED <<current, target, enforced>>

Commit == /\ phase = "commit"
          /\ current' = target
          /\ phase' = "idle"
          /\ UNCHANGED <<target, queue, enforced>>

Enforce == /\ queue # <<>>
           /\ enforced' = Head(queue)
           /\ queue' = Tail(queue)
           /\ UNCHANGED <<phase, current, target>>

Next == (\E s \in Called : Require(s)) \/ Offer \/ Commit \/ Enforce

Spec == Init /\ [][Next]_vars

\* Every state that is committed, on its way or enforced is the initial one or
\* one the matrix calls for.
OnlyCalled ==
  /\ {current, target, enforced} \subseteq Called \cup {Initial}
  /\ queue \in Seq(Called \cup {Initial})
=============================================================================
