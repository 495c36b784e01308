--------------------------- MODULE EventDispatch ----------------------------
(***************************************************************************)
(* Publish/subscribe in SoaServiceManager.cpp: the event ring between the  *)
(* network receive thread, which calls PublishEvent(), and the safety      *)
(* loop, which calls ProcessEvents(), and the subscriber table that a      *)
(* third thread may extend with Subscribe() meanwhile.                     *)
(*                                                                         *)
(* A handler gets a reference into the ring, not a copy, and the table is  *)
(* read without a lock, so every load and store of an index or a count     *)
(* that another thread uses is a step of its own.  Init() is one step: the *)
(* threads start when it has returned.                                     *)
(***************************************************************************)
EXTENDS Integers, Sequences

CONSTANTS Topic,           \* (serviceId, eventId)
          Payload,         \* what tells two events of a topic apart
          NoEvent,         \* a default SoaEvent, a default SubscriberEntry
          RingSlots,       \* kMaxPendingEvents
          MaxSubscribers   \* kMaxSubscribers

ASSUME RingAssumption == RingSlots \in Nat /\ RingSlots > 1
ASSUME SubscriberAssumption == MaxSubscribers \in Nat

VARIABLES
  eventQueue, queueHead, queueTail,   \* the ring
  subscribers, subscriberCount,       \* the table
  initialised,
  ppc, ev, rc,         \* the network thread: control, event, last result
  spc, subrc,          \* the subscribing thread: control, last result
  dpc, subCount, i,    \* the safety loop: control, ProcessEvents()'s locals
  \* History, for the properties alone:
  calls,               \* subscribers handed the event at queueTail
  out                  \* the last event taken out of the ring

queueVars == <<eventQueue, queueHead, queueTail, initialised>>
tableVars == <<subscribers, subscriberCount, spc, subrc>>
pubVars   == <<ppc, ev, rc>>
loopVars  == <<dpc, subCount, i, calls, out>>
vars      == <<queueVars, tableVars, pubVars, loopVars>>

Index == 0 .. RingSlots - 1
Event == Topic \X Payload
Subscriber == 0 .. MaxSubscribers - 1
EventTopic(e) == e[1]

\* Slip: the index does not wrap.
NextSlotUnwrapped(k) == k + 1
\* (k + 1) % kMaxPendingEvents
NextSlot(k) == (k + 1) % RingSlots

\* Slip: the test for room is missing.
QueueNeverFull == FALSE
\* Slip: one slot too many is kept free.
QueueFullEarly == NextSlot(NextSlot(queueHead)) = queueTail
\* nextHead == tail
QueueFull == NextSlot(queueHead) = queueTail

\* The constructor.
Init == /\ eventQueue = [k \in Index |-> NoEvent]
        /\ queueHead = 0 /\ queueTail = 0
        /\ subscribers = [s \in Subscriber |-> NoEvent]
        /\ subscriberCount = 0
        /\ initialised = FALSE
        /\ ppc = "idle" /\ ev = NoEvent /\ rc = "none"
        /\ spc = "idle" /\ subrc = "none"
        /\ dpc = "idle" /\ subCount = 0 /\ i = 0
        /\ calls = {} /\ out = NoEvent

InitManager == /\ ~initialised
               /\ initialised' = TRUE
               /\ subscriberCount' = 0
               /\ queueHead' = 0
               /\ queueTail' = 0
               /\ rc' = "ok"
               /\ UNCHANGED <<eventQueue, subscribers, spc, subrc, ppc, ev,
                              loopVars>>

-----------------------------------------------------------------------------
(* The network thread: PublishEvent().                                     *)

PublishDown == /\ ppc = "idle"
               /\ ~initialised
               /\ rc' = "kNotInitialized"
               /\ UNCHANGED <<queueVars, tableVars, ppc, ev, loopVars>>

PublishFull == /\ ppc = "idle"
               /\ initialised
               /\ QueueFull
               /\ rc' = "kQueueFull"
               /\ UNCHANGED <<queueVars, tableVars, ppc, ev, loopVars>>

\* Both indices are loaded and there is room.
PublishBegin(e) == /\ ppc = "idle"
                   /\ initialised
                   /\ ~QueueFull
                   /\ ppc' = "write"
                   /\ ev' = e
                   /\ UNCHANGED <<queueVars, tableVars, rc, loopVars>>

PublishWrite == /\ ppc = "write"
                /\ eventQueue' = [eventQueue EXCEPT ![queueHead] = ev]
                /\ ppc' = "store"
                /\ UNCHANGED <<queueHead, queueTail, initialised, tableVars, ev,
                               rc, loopVars>>

PublishStore == /\ ppc = "store"
                /\ queueHead' = NextSlot(queueHead)
                /\ ppc' = "idle"
                /\ rc' = "ok"
                /\ UNCHANGED <<eventQueue, queueTail, initialised, tableVars, ev,
                               loopVars>>

PublishEvent == \/ PublishDown \/ PublishFull
                \/ \E e \in Event : PublishBegin(e)
                \/ PublishWrite \/ PublishStore

-----------------------------------------------------------------------------
(* The subscribing thread: Subscribe().                                    *)

SubscribeDown == /\ spc = "idle"
                 /\ ~initialised
                 /\ subrc' = "kNotInitialized"
                 /\ UNCHANGED <<queueVars, subscribers, subscriberCount, spc,
                                pubVars, loopVars>>

\* A null handler.
SubscribeNull == /\ spc = "idle"
                 /\ initialised
                 /\ subrc' = "kNullPointer"
                 /\ UNCHANGED <<queueVars, subscribers, subscriberCount, spc,
                                pubVars, loopVars>>

SubscribeFull == /\ spc = "idle"
                 /\ initialised
                 /\ subscriberCount >= MaxSubscribers
                 /\ subrc' = "kSubscriberFull"
                 /\ UNCHANGED <<queueVars, subscribers, subscriberCount, spc,
                                pubVars, loopVars>>

\* The entry is filled in; the table does not reach it yet.
SubscribeWrite(t) == /\ spc = "idle"
                     /\ initialised
                     /\ subscriberCount < MaxSubscribers
                     /\ subscribers' = [subscribers EXCEPT ![subscriberCount] = t]
                     /\ spc' = "store"
                     /\ UNCHANGED <<queueVars, subscriberCount, subrc, pubVars,
                                    loopVars>>

SubscribeStore == /\ spc = "store"
                  /\ subscriberCount' = subscriberCount + 1
                  /\ spc' = "idle"
                  /\ subrc' = "ok"
                  /\ UNCHANGED <<queueVars, subscribers, pubVars, loopVars>>

Subscribe == \/ SubscribeDown \/ SubscribeNull \/ SubscribeFull
             \/ \E t \in Topic : SubscribeWrite(t)
             \/ SubscribeStore

-----------------------------------------------------------------------------
(* The safety loop: ProcessEvents().                                       *)

\* The size of the table is loaded once per call.
ProcessBegin == /\ dpc = "idle"
                /\ initialised
                /\ subCount' = subscriberCount
                /\ dpc' = "look"
                /\ UNCHANGED <<queueVars, tableVars, pubVars, i, calls, out>>

\* tail == head: the call returns.
ProcessReturn == /\ dpc = "look"
                 /\ queueTail = queueHead
                 /\ dpc' = "idle"
                 /\ UNCHANGED <<queueVars, tableVars, pubVars, subCount, i, calls,
                                out>>

ProcessTake == /\ dpc = "look"
               /\ queueTail # queueHead
               /\ i' = 0
               /\ dpc' = "call"
               /\ UNCHANGED <<queueVars, tableVars, pubVars, subCount, calls, out>>

\* Slip: the loop stops one subscriber short.
MoreHandlersShort == i + 1 < subCount
\* i < subCount
MoreHandlers == i < subCount

\* Subscriber i is looked at, and called if the event is for it.
CallHandler == /\ dpc = "call"
               /\ MoreHandlers
               /\ calls' = IF subscribers[i] = EventTopic(eventQueue[queueTail])
                           THEN calls \cup {i} ELSE calls
               /\ i' = i + 1
               /\ UNCHANGED <<queueVars, tableVars, pubVars, dpc, subCount, out>>

\* All handlers have returned: the slot is given back and the locals end.
ProcessAdvance == /\ dpc = "call"
                  /\ ~MoreHandlers
                  /\ out' = eventQueue[queueTail]
                  /\ queueTail' = NextSlot(queueTail)
                  /\ dpc' = "look"
                  /\ i' = 0
                  /\ calls' = {}
                  /\ UNCHANGED <<eventQueue, queueHead, initialised, tableVars,
                                 pubVars, subCount>>

ProcessEvents == ProcessBegin \/ ProcessReturn \/ ProcessTake \/ CallHandler
                 \/ ProcessAdvance

Next == InitManager \/ PublishEvent \/ Subscribe \/ ProcessEvents

(* The safety loop calls ProcessEvents() every 10 ms and handlers return;   *)
(* a call of PublishEvent() that began ends.  Nobody promises an event.     *)
Fairness == WF_vars(ProcessEvents) /\ WF_vars(PublishWrite \/ PublishStore)

SafeSpec == Init /\ [][Next]_vars

Spec == SafeSpec /\ Fairness

-----------------------------------------------------------------------------
(* Properties.                                                             *)

\* Indices stay inside their arrays and what lies in the ring is an event.
DispatchTypeOK == /\ eventQueue \in [Index -> Event \cup {NoEvent}]
                  /\ queueHead \in Index /\ queueTail \in Index
                  /\ subscribers \in [Subscriber -> Topic \cup {NoEvent}]
                  /\ subscriberCount \in 0 .. MaxSubscribers
                  /\ subCount \in 0 .. subscriberCount
                  /\ i \in 0 .. subCount
                  /\ calls \subseteq Subscriber
                  /\ ppc \in {"idle", "write", "store"}
                  /\ spc \in {"idle", "store"}
                  /\ dpc \in {"idle", "look", "call"}

\* The event a handler works on, a reference to eventQueue_[tail], does not
\* change under it however fast the network thread publishes.
HandlerEventStable ==
  [][dpc = "call" => eventQueue'[queueTail] = eventQueue[queueTail]]_vars

\* When ProcessEvents() gives a slot back, exactly the subscribers of the
\* event's topic that were in the table when the call began have been handed
\* it, although the table may have grown meanwhile.
FanOutComplete ==
  [][queueTail' # queueTail =>
       calls = {s \in 0 .. subCount - 1 : subscribers[s] = EventTopic(out')}]_vars

Count == IF queueHead >= queueTail THEN queueHead - queueTail
                                   ELSE queueHead - queueTail + RingSlots

\* The k-th slot from queueTail on.
At(k) == IF queueTail + k < RingSlots THEN queueTail + k
                                      ELSE queueTail + k - RingSlots

\* The events in the ring, oldest first.
PendingEvents == [k \in 1 .. Count |-> eventQueue[At(k - 1)]]

Channel == INSTANCE FifoChannel WITH queue <- PendingEvents,
                                     Capacity <- RingSlots - 1,
                                     FullCode <- "kQueueFull"

\* The event ring implements the bounded FIFO: PublishEvent() reports Ok only
\* for an event that ProcessEvents() will hand out, once and in order, and
\* kQueueFull only when RingSlots - 1 events wait.
ImplementsFifo == Channel!Spec
=============================================================================
