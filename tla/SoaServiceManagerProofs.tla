---------------------- MODULE SoaServiceManagerProofs -----------------------
(***************************************************************************)
(* Proofs about the two halves of SoaServiceManager.  The event dispatch,  *)
(* for every ring size, every size of the subscriber table and every set   *)
(* of topics and payloads: the type invariant, that a handler's event is   *)
(* stable, that the fan-out is complete, and that the event ring           *)
(* implements the FIFO channel.  The service registry, for a table of any  *)
(* size: that an entry is complete before it is visible and keeps its      *)
(* identity, and that no single call takes an offered service down.        *)
(***************************************************************************)
EXTENDS EventDispatch, ServiceRegistry, SequenceTheorems, TLAPS

-----------------------------------------------------------------------------
(* The inductive invariant.                                                *)

\* Nobody is inside the manager before Init() has returned.
DownInv == ~initialised => /\ queueHead = 0 /\ queueTail = 0
                           /\ subscriberCount = 0
                           /\ ppc = "idle" /\ spc = "idle" /\ dpc = "idle"

\* Inside PublishEvent() there is room, and the slot at queueHead, once
\* written, holds the event.
PublishInv == ppc # "idle" => /\ ~QueueFull
                              /\ ev \in Event
                              /\ ppc = "store" => eventQueue[queueHead] = ev

\* Inside Subscribe() there is a free entry.
SubscribeInv == spc = "store" => subscriberCount < MaxSubscribers

\* While handlers are called the slot at queueTail is not given back, and those
\* called are the subscribers of its topic among the first i.
FanOutInv == IF dpc = "call"
             THEN /\ queueTail # queueHead
                  /\ calls = {s \in 0 .. i - 1 :
                                subscribers[s] = EventTopic(eventQueue[queueTail])}
             ELSE calls = {} /\ i = 0

DispatchInv == DispatchTypeOK /\ DownInv /\ PublishInv /\ SubscribeInv /\ FanOutInv

-----------------------------------------------------------------------------
(* Arithmetic of the ring.                                                 *)

\* Either the successor or, at the end of the ring, 0.
LEMMA NextSlotValue ==
  ASSUME NEW k \in Index
  PROVE  /\ NextSlot(k) \in Index
         /\ NextSlot(k) = IF k + 1 = RingSlots THEN 0 ELSE k + 1
  BY RingAssumption, SMTT(30) DEF NextSlot, Index

-----------------------------------------------------------------------------
(* The invariant is inductive.                                             *)

\* The constructor leaves an empty ring and an empty table.
LEMMA DispatchInit == Init => DispatchInv
  <1> SUFFICES ASSUME Init PROVE DispatchInv
    OBVIOUS
  <1>1. 0 \in Index
    BY RingAssumption DEF Index
  <1>2. DispatchTypeOK
    BY <1>1, SubscriberAssumption DEF Init, DispatchTypeOK
  <1> QED
    BY <1>2 DEF Init, DispatchInv, DownInv, PublishInv, SubscribeInv, FanOutInv

\* A step that touches neither the ring, nor the table, nor the two threads
\* that use them, keeps the invariant: Init() and the calls that are refused.
LEMMA QuietStep ==
  ASSUME DispatchInv,
         \/ InitManager \/ PublishDown \/ PublishFull
         \/ SubscribeDown \/ SubscribeNull \/ SubscribeFull
         \/ UNCHANGED vars
  PROVE  DispatchInv'
  <1> USE DEF vars, queueVars, tableVars, pubVars, loopVars
  <1>1. DispatchTypeOK'
    <2>1. 0 \in Index
      BY RingAssumption DEF Index
    <2>2. CASE InitManager
      BY <2>1, <2>2 DEF InitManager, DispatchInv, DispatchTypeOK, DownInv
    <2>3. CASE ~InitManager
      BY <2>3 DEF DispatchInv, DispatchTypeOK, PublishDown, PublishFull,
         SubscribeDown, SubscribeNull, SubscribeFull
    <2> QED
      BY <2>2, <2>3
  <1>2. UNCHANGED <<eventQueue, queueHead, queueTail, subscribers, subscriberCount,
                    ppc, ev, spc, dpc, i, calls>>
    BY DEF InitManager, PublishDown, PublishFull, SubscribeDown, SubscribeNull,
       SubscribeFull, DispatchInv, DownInv
  <1>3. ~initialised' => ~initialised
    BY DEF InitManager, PublishDown, PublishFull, SubscribeDown, SubscribeNull,
       SubscribeFull
  <1> QED
    BY <1>1, <1>2, <1>3
       DEF DispatchInv, DownInv, PublishInv, SubscribeInv, FanOutInv, QueueFull

\* PublishEvent() writes the slot at queueHead, which no handler looks at, and
\* there is room, so the new queueHead is not queueTail.
LEMMA PublishStep ==
  ASSUME DispatchInv,
         (\E e \in Event : PublishBegin(e)) \/ PublishWrite \/ PublishStore
  PROVE  DispatchInv'
  <1> USE DEF queueVars, tableVars, pubVars, loopVars
  <1>1. DispatchTypeOK /\ DownInv /\ PublishInv /\ SubscribeInv /\ FanOutInv
    BY DEF DispatchInv
  <1>2. UNCHANGED <<queueTail, initialised, tableVars, loopVars>> /\ initialised
    BY <1>1 DEF PublishBegin, PublishWrite, PublishStore, DownInv
  <1>3. CASE \E e \in Event : PublishBegin(e)
    <2>1. UNCHANGED <<eventQueue, queueHead>> /\ ppc' = "write" /\ ev' \in Event
          /\ ~QueueFull
      BY <1>3 DEF PublishBegin
    <2> QED
      BY <1>1, <1>2, <2>1 DEF DispatchInv, DispatchTypeOK, DownInv, PublishInv,
         SubscribeInv, FanOutInv, QueueFull
  <1>4. CASE PublishWrite
    <2>1. /\ eventQueue' = [eventQueue EXCEPT ![queueHead] = ev]
          /\ ppc' = "store" /\ UNCHANGED <<queueHead, ev>>
          /\ ~QueueFull /\ ev \in Event
      BY <1>1, <1>4 DEF PublishWrite, PublishInv
    <2>2. DispatchTypeOK'
      BY <1>1, <1>2, <2>1 DEF DispatchTypeOK
    <2>3. eventQueue'[queueHead] = ev
          /\ (queueTail # queueHead => eventQueue'[queueTail] = eventQueue[queueTail])
      BY <1>1, <2>1 DEF DispatchTypeOK
    <2> QED
      BY <1>1, <1>2, <2>1, <2>2, <2>3
         DEF DispatchInv, DownInv, PublishInv, SubscribeInv, FanOutInv, QueueFull
  <1>5. CASE PublishStore
    <2>1. queueHead' = NextSlot(queueHead) /\ ppc' = "idle" /\ UNCHANGED <<eventQueue, ev>>
          /\ NextSlot(queueHead) # queueTail
      BY <1>1, <1>5 DEF PublishStore, PublishInv, QueueFull
    <2>2. DispatchTypeOK'
      BY <1>1, <1>2, <2>1, NextSlotValue DEF DispatchTypeOK
    <2> QED
      BY <1>1, <1>2, <2>1, <2>2
         DEF DispatchInv, DownInv, PublishInv, SubscribeInv, FanOutInv
  <1> QED
    BY <1>3, <1>4, <1>5

\* Subscribe() fills the entry at subscriberCount, which the loop, that loaded
\* its bound earlier, never reaches.
LEMMA SubscribeStep ==
  ASSUME DispatchInv, (\E t \in Topic : SubscribeWrite(t)) \/ SubscribeStore
  PROVE  DispatchInv'
  <1> USE DEF queueVars, tableVars, pubVars, loopVars
  <1>1. DispatchTypeOK /\ DownInv /\ PublishInv /\ SubscribeInv /\ FanOutInv
    BY DEF DispatchInv
  <1>2. UNCHANGED <<queueVars, pubVars, loopVars>> /\ initialised
    BY <1>1 DEF SubscribeWrite, SubscribeStore, DownInv
  <1>3. CASE \E t \in Topic : SubscribeWrite(t)
    <2>1. PICK t \in Topic : SubscribeWrite(t)
      BY <1>3
    <2>2. /\ subscribers' = [subscribers EXCEPT ![subscriberCount] = t]
          /\ spc' = "store" /\ UNCHANGED subscriberCount
          /\ subscriberCount < MaxSubscribers
      BY <2>1 DEF SubscribeWrite
    <2>3. DispatchTypeOK'
      BY <1>1, <1>2, <2>2 DEF DispatchTypeOK
    <2>4. \A s \in 0 .. i - 1 : subscribers'[s] = subscribers[s]
      <3> SUFFICES ASSUME NEW s \in 0 .. i - 1 PROVE subscribers'[s] = subscribers[s]
        OBVIOUS
      <3>1. s \in Subscriber /\ s # subscriberCount
        BY <1>1, SubscriberAssumption DEF DispatchTypeOK, Subscriber
      <3> QED
        BY <1>1, <2>2, <3>1 DEF DispatchTypeOK
    <2>5. FanOutInv'
      BY <1>1, <1>2, <2>4 DEF FanOutInv
    <2> QED
      BY <1>1, <1>2, <2>2, <2>3, <2>5
         DEF DispatchInv, DownInv, PublishInv, SubscribeInv, QueueFull
  <1>4. CASE SubscribeStore
    <2>1. subscriberCount' = subscriberCount + 1 /\ spc' = "idle"
          /\ UNCHANGED subscribers /\ subscriberCount < MaxSubscribers
      BY <1>1, <1>4 DEF SubscribeStore, SubscribeInv
    <2>2. DispatchTypeOK'
      BY <1>1, <1>2, <2>1, SubscriberAssumption DEF DispatchTypeOK
    <2> QED
      BY <1>1, <1>2, <2>1, <2>2
         DEF DispatchInv, DownInv, PublishInv, SubscribeInv, FanOutInv, QueueFull
  <1> QED
    BY <1>3, <1>4

\* ProcessEvents() looks at one subscriber after the other and moves queueTail
\* only when it has looked at all.
LEMMA ProcessStep ==
  ASSUME DispatchInv, ProcessEvents
  PROVE  DispatchInv'
  <1> USE DEF queueVars, tableVars, pubVars, loopVars
  <1>1. DispatchTypeOK /\ DownInv /\ PublishInv /\ SubscribeInv /\ FanOutInv
    BY DEF DispatchInv
  <1>2. UNCHANGED <<eventQueue, queueHead, initialised, tableVars, pubVars>> /\ initialised
    BY <1>1 DEF ProcessEvents, ProcessBegin, ProcessReturn, ProcessTake, CallHandler,
       ProcessAdvance, DownInv
  <1>3. CASE ProcessBegin \/ ProcessReturn \/ ProcessTake
    <2>1. UNCHANGED <<queueTail, calls>> /\ dpc # "call" /\ i' = 0
          /\ (dpc' = "call" => queueTail # queueHead)
          /\ dpc' \in {"idle", "look", "call"}
          /\ subCount' \in {subCount, subscriberCount}
      BY <1>1, <1>3 DEF ProcessBegin, ProcessReturn, ProcessTake, FanOutInv
    <2>2. calls' = {}
      BY <1>1, <2>1 DEF FanOutInv
    <2>3. DispatchTypeOK'
      BY <1>1, <1>2, <2>1, SubscriberAssumption DEF DispatchTypeOK
    <2>4. FanOutInv'
      <3>1. 0 .. i' - 1 = {}
        BY <2>1
      <3> QED
        BY <1>2, <2>1, <2>2, <3>1 DEF FanOutInv
    <2> QED
      BY <1>1, <1>2, <2>1, <2>3, <2>4
         DEF DispatchInv, DownInv, PublishInv, SubscribeInv, QueueFull
  <1>4. CASE CallHandler
    <2>1. /\ dpc = "call" /\ i < subCount /\ i' = i + 1
          /\ UNCHANGED <<queueTail, dpc, subCount>>
          /\ calls' = IF subscribers[i] = EventTopic(eventQueue[queueTail])
                      THEN calls \cup {i} ELSE calls
      BY <1>4 DEF CallHandler, MoreHandlers
    <2>2. i \in Subscriber /\ i \in Nat
      BY <1>1, <2>1, SubscriberAssumption DEF DispatchTypeOK, Subscriber
    <2>3. 0 .. i' - 1 = (0 .. i - 1) \cup {i}
      BY <2>1, <2>2
    <2>4. DispatchTypeOK'
      BY <1>1, <1>2, <2>1, <2>2, SubscriberAssumption DEF DispatchTypeOK
    <2>5. FanOutInv'
      BY <1>1, <1>2, <2>1, <2>3 DEF FanOutInv
    <2> QED
      BY <1>1, <1>2, <2>1, <2>4, <2>5
         DEF DispatchInv, DownInv, PublishInv, SubscribeInv, QueueFull
  <1>5. CASE ProcessAdvance
    <2>1. /\ dpc = "call" /\ dpc' = "look" /\ i' = 0 /\ calls' = {}
          /\ queueTail' = NextSlot(queueTail) /\ UNCHANGED subCount
      BY <1>5 DEF ProcessAdvance
    <2>2. queueTail # queueHead /\ queueTail \in Index /\ queueHead \in Index
      BY <1>1, <2>1 DEF FanOutInv, DispatchTypeOK
    <2>3. DispatchTypeOK'
      BY <1>1, <1>2, <2>1, <2>2, NextSlotValue, SubscriberAssumption DEF DispatchTypeOK
    <2>4. NextSlot(queueHead) # NextSlot(queueTail)
      BY <2>2, NextSlotValue DEF Index
    <2> QED
      BY <1>1, <1>2, <2>1, <2>3, <2>4
         DEF DispatchInv, DownInv, PublishInv, SubscribeInv, FanOutInv, QueueFull
  <1> QED
    BY <1>3, <1>4, <1>5 DEF ProcessEvents

\* Every step of the three threads keeps the invariant.
LEMMA DispatchStep == DispatchInv /\ [Next]_vars => DispatchInv'
  BY QuietStep, PublishStep, SubscribeStep, ProcessStep DEF Next, PublishEvent, Subscribe

\* The invariant holds for every size of ring and table.
THEOREM DispatchCorrect == SafeSpec => []DispatchInv
  <1> QED
    BY DispatchInit, DispatchStep, PTL DEF SafeSpec

\* Indices stay inside the ring, counts inside the table, and what lies in the
\* ring is an event, however PublishEvent(), Subscribe() and ProcessEvents()
\* interleave.
THEOREM TypeCorrect == SafeSpec => []DispatchTypeOK
  <1>1. DispatchInv => DispatchTypeOK
    BY DEF DispatchInv
  <1> QED
    BY <1>1, DispatchCorrect, PTL

-----------------------------------------------------------------------------
(* Action properties.                                                      *)

\* Only PublishWrite writes the ring, at queueHead; while handlers are called
\* queueHead is not queueTail.
THEOREM StableEvent == SafeSpec => HandlerEventStable
  <1> DEFINE Stable == dpc = "call" => eventQueue'[queueTail] = eventQueue[queueTail]
  <1>1. DispatchInv /\ [Next]_vars => Stable
    <2> SUFFICES ASSUME DispatchInv, [Next]_vars, dpc = "call"
                 PROVE  eventQueue'[queueTail] = eventQueue[queueTail]
      OBVIOUS
    <2>1. CASE PublishWrite
      BY <2>1 DEF PublishWrite, DispatchInv, DispatchTypeOK, FanOutInv
    <2>2. CASE ~PublishWrite
      <3>1. eventQueue' = eventQueue
        BY <2>2 DEF Next, PublishEvent, Subscribe, ProcessEvents, InitManager,
           PublishDown, PublishFull, PublishBegin, PublishStore, SubscribeDown,
           SubscribeNull, SubscribeFull, SubscribeWrite, SubscribeStore, ProcessBegin,
           ProcessReturn, ProcessTake, CallHandler, ProcessAdvance, vars, queueVars
      <3> QED
        BY <3>1
    <2> QED
      BY <2>1, <2>2
  <1>2. SafeSpec => [][Stable]_vars
    BY <1>1, DispatchCorrect, PTL DEF SafeSpec
  <1> QED
    BY <1>2 DEF HandlerEventStable

\* A slot is given back only after every subscriber of its topic that the table
\* had at the beginning of the call, and no other, has been handed its event.
THEOREM CompleteFanOut == SafeSpec => FanOutComplete
  <1> DEFINE Complete ==
        queueTail' # queueTail =>
          calls = {s \in 0 .. subCount - 1 : subscribers[s] = EventTopic(out')}
  <1>1. DispatchInv /\ [Next]_vars => Complete
    <2> SUFFICES ASSUME DispatchInv, [Next]_vars, queueTail' # queueTail
                 PROVE  calls = {s \in 0 .. subCount - 1 :
                                   subscribers[s] = EventTopic(out')}
      OBVIOUS
    <2>1. ProcessAdvance
      BY DEF Next, PublishEvent, Subscribe, ProcessEvents, InitManager,
         PublishDown, PublishFull, PublishBegin, PublishWrite, PublishStore,
         SubscribeDown, SubscribeNull, SubscribeFull, SubscribeWrite, SubscribeStore,
         ProcessBegin, ProcessReturn, ProcessTake, CallHandler, vars, queueVars,
         DispatchInv, DownInv
    <2>2. i = subCount
      BY <2>1 DEF ProcessAdvance, MoreHandlers, DispatchInv, DispatchTypeOK
    <2> QED
      BY <2>1, <2>2 DEF ProcessAdvance, DispatchInv, FanOutInv
  <1> QED
    BY <1>1, DispatchCorrect, PTL DEF SafeSpec, FanOutComplete

-----------------------------------------------------------------------------
(* The ring implements the channel.                                        *)

\* What a slot can hold.
SlotValue == Event \cup {NoEvent}

\* A function on 1..n is a sequence of length n.
LEMMA FunctionIsSeq ==
  ASSUME NEW S, NEW n \in Nat, NEW f \in [1 .. n -> S]
  PROVE  f \in Seq(S) /\ Len(f) = n
  OBVIOUS

\* The events in the ring form a sequence of Count events.
LEMMA PendingSeq ==
  ASSUME DispatchTypeOK
  PROVE  /\ Count \in 0 .. RingSlots - 1
         /\ \A k \in 0 .. Count - 1 : At(k) \in Index
         /\ PendingEvents \in Seq(SlotValue)
         /\ Len(PendingEvents) = Count
         /\ \A k \in 1 .. Count : PendingEvents[k] = eventQueue[At(k - 1)]
  <1>1. queueHead \in Index /\ queueTail \in Index /\ eventQueue \in [Index -> SlotValue]
    BY DEF DispatchTypeOK, SlotValue
  <1>2. Count \in 0 .. RingSlots - 1
    BY <1>1, RingAssumption DEF Count, Index
  <1>3. \A k \in 0 .. Count - 1 : At(k) \in Index
    BY <1>1, <1>2, RingAssumption DEF At, Index
  <1>4. \A k \in 1 .. Count : eventQueue[At(k - 1)] \in SlotValue
    <2> SUFFICES ASSUME NEW k \in 1 .. Count PROVE eventQueue[At(k - 1)] \in SlotValue
      OBVIOUS
    <2>1. At(k - 1) \in Index
      BY <1>2, <1>3
    <2> QED
      BY <1>1, <2>1
  <1>5. PendingEvents = [k \in 1 .. Count |-> eventQueue[At(k - 1)]]
    BY DEF PendingEvents
  <1>6. PendingEvents \in [1 .. Count -> SlotValue]
    BY <1>4, <1>5
  <1>7. PendingEvents \in Seq(SlotValue) /\ Len(PendingEvents) = Count
    BY <1>2, <1>6, FunctionIsSeq
  <1> QED
    BY <1>2, <1>3, <1>5, <1>7

\* A full ring is a full channel.
LEMMA FullIsFull ==
  ASSUME DispatchTypeOK
  PROVE  QueueFull <=> Count = RingSlots - 1
  <1>1. queueHead \in Index /\ queueTail \in Index
    BY DEF DispatchTypeOK
  <1> QED
    BY <1>1, NextSlotValue, RingAssumption DEF QueueFull, Count, Index

\* The last store of PublishEvent() appends the event to the channel.
LEMMA StoreAccepts ==
  ASSUME DispatchInv, PublishStore
  PROVE  Channel!Accept(ev) /\ ev \in Event
  <1>1. DispatchTypeOK /\ DispatchTypeOK' /\ ~QueueFull /\ ev \in Event
        /\ eventQueue[queueHead] = ev
    BY PublishStep DEF DispatchInv, PublishInv, PublishStore
  <1>2. queueHead \in Index /\ queueTail \in Index /\ queueTail' = queueTail
        /\ eventQueue' = eventQueue /\ queueHead' = NextSlot(queueHead)
        /\ rc' = "ok" /\ out' = out
    BY <1>1 DEF DispatchTypeOK, PublishStore, loopVars
  <1>3. NextSlot(queueHead) = IF queueHead + 1 = RingSlots THEN 0 ELSE queueHead + 1
    BY <1>2, NextSlotValue
  <1>4. Count' = Count + 1 /\ Count < RingSlots - 1 /\ Count \in Nat
    BY <1>1, <1>2, <1>3, RingAssumption DEF Count, Index, QueueFull
  <1>5. At(Count) = queueHead /\ \A k \in 0 .. Count : At(k)' = At(k)
    BY <1>2, <1>4, RingAssumption DEF At, Count, Index
  <1>6. /\ PendingEvents \in Seq(SlotValue) /\ Len(PendingEvents) = Count
        /\ \A k \in 1 .. Count : PendingEvents[k] = eventQueue[At(k - 1)]
    BY <1>1, PendingSeq
  <1>7. /\ PendingEvents' \in Seq(SlotValue) /\ Len(PendingEvents') = Count + 1
        /\ \A k \in 1 .. Count + 1 : PendingEvents'[k] = eventQueue[At(k - 1)]
    <2>1. /\ PendingEvents' \in Seq(SlotValue) /\ Len(PendingEvents') = Count'
          /\ \A k \in 1 .. Count' : PendingEvents'[k] = eventQueue'[At(k - 1)']
      <3>1. Count' \in Nat
        BY <1>4
      <3>2. PendingEvents' = [k \in 1 .. Count' |-> eventQueue'[At(k - 1)']]
        BY DEF PendingEvents
      <3>3. \A k \in 1 .. Count' : eventQueue'[At(k - 1)'] \in SlotValue
        <4> SUFFICES ASSUME NEW k \in 1 .. Count'
                     PROVE  eventQueue'[At(k - 1)'] \in SlotValue
          OBVIOUS
        <4>1. At(k - 1) \in Index /\ At(k - 1)' = At(k - 1)
          BY <1>1, <1>2, <1>4, <1>5, RingAssumption DEF At, Index, Count
        <4> QED
          BY <1>1, <1>2, <4>1 DEF DispatchTypeOK, SlotValue
      <3>4. PendingEvents' \in [1 .. Count' -> SlotValue]
        BY <3>2, <3>3
      <3> QED
        BY <3>1, <3>2, <3>4, FunctionIsSeq
    <2>2. \A k \in 1 .. Count + 1 : At(k - 1)' = At(k - 1)
      BY <1>4, <1>5
    <2> QED
      BY <1>2, <1>4, <2>1, <2>2
  <1>8. PendingEvents' = Append(PendingEvents, ev)
    <2>1. /\ Append(PendingEvents, ev) \in Seq(SlotValue)
          /\ Len(Append(PendingEvents, ev)) = Count + 1
          /\ \A k \in 1 .. Count : Append(PendingEvents, ev)[k] = PendingEvents[k]
          /\ Append(PendingEvents, ev)[Count + 1] = ev
      <3>1. ev \in SlotValue
        BY <1>1 DEF SlotValue
      <3>2. /\ Append(PendingEvents, ev) \in Seq(SlotValue)
            /\ Len(Append(PendingEvents, ev)) = Len(PendingEvents) + 1
            /\ \A k \in 1 .. Len(PendingEvents) :
                 Append(PendingEvents, ev)[k] = PendingEvents[k]
            /\ Append(PendingEvents, ev)[Len(PendingEvents) + 1] = ev
        BY <1>6, <3>1, AppendProperties
      <3> QED
        BY <1>6, <3>2
    <2>2. ASSUME NEW k \in 1 .. Count + 1
          PROVE  PendingEvents'[k] = Append(PendingEvents, ev)[k]
      <3>1. CASE k = Count + 1
        <4>1. k - 1 = Count
          BY <1>4, <3>1
        <4> QED
          BY <1>1, <1>5, <1>7, <2>1, <3>1, <4>1
      <3>2. CASE k # Count + 1
        <4>1. k \in 1 .. Count
          BY <1>4, <3>2
        <4> QED
          BY <1>6, <1>7, <2>1, <4>1
      <3> QED
        BY <3>1, <3>2
    <2> QED
      BY <1>7, <2>1, <2>2, SeqEqual, Zenon
  <1> QED
    BY <1>1, <1>2, <1>4, <1>6, <1>8 DEF Channel!Accept

\* Giving a slot back delivers the oldest event of the channel.
LEMMA AdvanceDelivers ==
  ASSUME DispatchInv, ProcessAdvance
  PROVE  Channel!Deliver
  <1>1. DispatchTypeOK /\ DispatchTypeOK' /\ queueTail # queueHead
    BY ProcessStep DEF DispatchInv, FanOutInv, ProcessAdvance, ProcessEvents
  <1>2. queueHead \in Index /\ queueTail \in Index /\ queueTail' = NextSlot(queueTail)
        /\ UNCHANGED <<eventQueue, queueHead, rc>> /\ out' = eventQueue[queueTail]
    BY <1>1 DEF DispatchTypeOK, ProcessAdvance, pubVars
  <1>3. NextSlot(queueTail) = IF queueTail + 1 = RingSlots THEN 0 ELSE queueTail + 1
    BY <1>2, NextSlotValue
  <1>4. Count > 0 /\ Count' = Count - 1 /\ Count \in Nat
    BY <1>1, <1>2, <1>3, RingAssumption DEF Count, Index
  <1>5. At(0) = queueTail /\ \A k \in 0 .. Count - 2 : At(k)' = At(k + 1)
    BY <1>2, <1>3, <1>4, RingAssumption DEF At, Count, Index
  <1>6. /\ PendingEvents \in Seq(SlotValue) /\ Len(PendingEvents) = Count
        /\ \A k \in 1 .. Count : PendingEvents[k] = eventQueue[At(k - 1)]
    BY <1>1, PendingSeq
  <1>7. PendingEvents' = [k \in 1 .. Count - 1 |-> eventQueue[At(k)]]
    <2>1. PendingEvents' = [k \in 1 .. Count' |-> eventQueue'[At(k - 1)']]
      BY DEF PendingEvents
    <2>2. \A k \in 1 .. Count - 1 : At(k - 1)' = At(k)
      BY <1>4, <1>5
    <2> QED
      BY <1>2, <1>4, <2>1, <2>2
  <1>8. PendingEvents # <<>>
    BY <1>4, <1>6
  <1>9. PendingEvents' = Tail(PendingEvents)
    <2>1. /\ Tail(PendingEvents) \in Seq(SlotValue)
          /\ Len(Tail(PendingEvents)) = Count - 1
          /\ \A k \in 1 .. Count - 1 : Tail(PendingEvents)[k] = PendingEvents[k + 1]
      BY <1>6, <1>8, HeadTailProperties, Zenon
    <2>2. \A k \in 1 .. Count - 1 : PendingEvents[k + 1] = eventQueue[At(k)]
      BY <1>4, <1>6
    <2>3. PendingEvents' \in [1 .. Count - 1 -> SlotValue]
      <3>1. \A k \in 1 .. Count - 1 : PendingEvents[k + 1] \in SlotValue
        BY <1>4, <1>6
      <3> QED
        BY <1>7, <2>2, <3>1
    <2>4. PendingEvents' \in Seq(SlotValue) /\ Len(PendingEvents') = Count - 1
      BY <1>4, <2>3, FunctionIsSeq
    <2>5. \A k \in 1 .. Count - 1 : PendingEvents'[k] = Tail(PendingEvents)[k]
      BY <1>7, <2>1, <2>2
    <2> QED
      BY <2>1, <2>4, <2>5, SeqEqual, Zenon
  <1>10. Head(PendingEvents) = eventQueue[queueTail]
    BY <1>4, <1>5, <1>6
  <1> QED
    BY <1>2, <1>8, <1>9, <1>10 DEF Channel!Deliver
\* A step that keeps ring and indices keeps the channel's queue.
LEMMA SamePending ==
  ASSUME UNCHANGED <<eventQueue, queueHead, queueTail>>
  PROVE  PendingEvents' = PendingEvents
  BY DEF PendingEvents, Count, At

\* Filling the slot at queueHead is invisible: it does not wait.
LEMMA WriteInvisible ==
  ASSUME DispatchInv, PublishWrite
  PROVE  PendingEvents' = PendingEvents
  <1>1. DispatchTypeOK /\ UNCHANGED <<queueHead, queueTail>>
    BY DEF DispatchInv, PublishWrite
  <1>2. Count \in 0 .. RingSlots - 1 /\ \A k \in 0 .. Count - 1 : At(k) \in Index
    BY <1>1, PendingSeq
  <1>3. Count' = Count /\ \A k \in 0 .. Count - 1 : At(k)' = At(k)
    BY <1>1 DEF Count, At
  <1>4. \A k \in 0 .. Count - 1 : At(k) # queueHead
    BY <1>1, <1>2, RingAssumption DEF DispatchTypeOK, At, Count, Index
  <1>5. \A k \in 1 .. Count : eventQueue'[At(k - 1)'] = eventQueue[At(k - 1)]
    <2> SUFFICES ASSUME NEW k \in 1 .. Count
                 PROVE  eventQueue'[At(k - 1)'] = eventQueue[At(k - 1)]
      OBVIOUS
    <2>1. k - 1 \in 0 .. Count - 1
      BY <1>2
    <2>2. At(k - 1) \in Index /\ At(k - 1)' = At(k - 1) /\ At(k - 1) # queueHead
      BY <1>2, <1>3, <1>4, <2>1
    <2> QED
      BY <1>1, <2>2 DEF PublishWrite, DispatchTypeOK
  <1> QED
    BY <1>3, <1>5 DEF PendingEvents

\* Every step of the three threads is a step of the channel or leaves it alone.
LEMMA ChannelStep ==
  ASSUME DispatchInv, [Next]_vars
  PROVE  [Channel!Next]_(Channel!vars)
  <1> USE DEF Channel!vars, queueVars, tableVars, pubVars, loopVars
  <1>1. CASE InitManager
    <2>1. queueHead = 0 /\ queueTail = 0 /\ UNCHANGED <<eventQueue, queueHead, queueTail>>
          /\ rc' = "ok" /\ out' = out
      BY <1>1 DEF InitManager, DispatchInv, DownInv
    <2>2. PendingEvents = <<>>
      <3>1. DispatchTypeOK /\ Count = 0
        BY <2>1 DEF Count, DispatchInv
      <3> QED
        BY <3>1, PendingSeq, EmptySeq
    <2> QED
      BY <2>1, <2>2, SamePending DEF Channel!Next, Channel!Open
  <1>2. CASE PublishDown
    BY <1>2, SamePending DEF PublishDown, Channel!Next, Channel!Reject, Channel!Refusal
  <1>3. CASE PublishFull
    <2>1. Len(PendingEvents) = RingSlots - 1
      BY <1>3, FullIsFull, PendingSeq DEF PublishFull, DispatchInv
    <2> QED
      BY <1>3, <2>1, SamePending DEF PublishFull, Channel!Next, Channel!Full
  <1>4. CASE PublishWrite
    BY <1>4, WriteInvisible DEF PublishWrite
  <1>5. CASE PublishStore
    BY <1>5, StoreAccepts DEF Channel!Next
  <1>6. CASE ProcessAdvance
    BY <1>6, AdvanceDelivers DEF Channel!Next
  <1>7. CASE \/ \E e \in Event : PublishBegin(e)
             \/ Subscribe
             \/ ProcessBegin \/ ProcessReturn \/ ProcessTake \/ CallHandler
             \/ UNCHANGED vars
    <2>1. UNCHANGED <<eventQueue, queueHead, queueTail, rc, out>>
      BY <1>7 DEF PublishBegin, Subscribe, SubscribeDown, SubscribeNull, SubscribeFull,
         SubscribeWrite, SubscribeStore, ProcessBegin, ProcessReturn, ProcessTake,
         CallHandler, vars
    <2> QED
      BY <2>1, SamePending
  <1> QED
    BY <1>1, <1>2, <1>3, <1>4, <1>5, <1>6, <1>7 DEF Next, PublishEvent, ProcessEvents

\* The event ring implements the safety part of the FIFO channel of
\* RingSlots - 1 places: PublishEvent() answers Ok only for an event that is
\* handed out, once and in order, and kQueueFull only when the ring is full.
THEOREM Refinement == SafeSpec => Channel!SafeSpec
  <1>1. Init => Channel!Init
    <2> SUFFICES ASSUME Init PROVE Channel!Init
      OBVIOUS
    <2>1. DispatchTypeOK /\ Count = 0
      BY DispatchInit DEF Init, Count, DispatchInv
    <2>2. PendingEvents = <<>>
      BY <2>1, PendingSeq, EmptySeq
    <2> QED
      BY <2>2 DEF Init, Channel!Init
  <1> QED
    BY <1>1, ChannelStep, DispatchCorrect, PTL DEF SafeSpec, Channel!SafeSpec

-----------------------------------------------------------------------------
(* The service registry.  It shares nothing with the event dispatch.        *)

Committed == 0 .. registryCount - 1

RegTypeInv ==
  /\ registryCount \in 0 .. MaxServices
  /\ registry \in [EntryIndex -> Entry]
  /\ pc \in [Thread ->
               {"idle", "reset", "commit", "offer", "again", "look", "park", "down"}]
  /\ svc \in [Thread -> Service \cup {NoService}]

\* No service has two entries.
UniqueInv ==
  \A j \in Committed, k \in Committed : registry[j].svc = registry[k].svc => j = k

\* The entry that RegisterService() fills is new, and down before it is counted;
\* the discovery task registers and offers nothing.
NewcomerInv ==
  /\ pc["app"] \in {"reset", "commit"} =>
       /\ registryCount < MaxServices
       /\ registry[registryCount].svc \in Service
       /\ \A k \in Committed : registry[k].svc # registry[registryCount].svc
  /\ pc["app"] = "commit" => registry[registryCount].state = "kDown"
  /\ pc["sd"] \notin {"reset", "commit", "offer"}

\* A service in kStopping was parked since it was offered last, and so was one that
\* a call is about to take down, unless the application has offered it since then.
ParkedInv ==
  /\ \A k \in Committed : registry[k].state = "kStopping" => registry[k].svc \in parked
  /\ \A t \in Thread : pc[t] = "down" => svc[t] \in parked \/ t \in overtaken

RegistryInv == RegTypeInv /\ UniqueInv /\ NewcomerInv /\ ParkedInv

\* The registry is empty after Init().
LEMMA RegistryInitInv ==
  ASSUME RegistryInit
  PROVE  RegistryInv
  <1>1. RegTypeInv
    BY RegistryAssumption DEF RegistryInit, Entry, State, Thread, RegTypeInv
  <1>2. Committed = {}
    BY DEF RegistryInit, Committed
  <1>3. \A t \in Thread : pc[t] = "idle"
    BY DEF RegistryInit
  <1>4. pc["app"] = "idle" /\ pc["sd"] = "idle"
    BY <1>3 DEF Thread
  <1> QED
    BY <1>1, <1>2, <1>3, <1>4 DEF RegistryInv, UniqueInv, NewcomerInv, ParkedInv

\* OfferService() and StopService() change the state of the one entry that is the
\* service's, and nothing else.
LEMMA StateWritten ==
  ASSUME RegistryInv, NEW t \in Thread,
         NEW st \in State, WriteState(t, st)
  PROVE  /\ registry' \in [EntryIndex -> Entry]
         /\ \A k \in EntryIndex : registry'[k].svc = registry[k].svc
         /\ \A k \in EntryIndex : registry'[k].state =
              IF k \in Committed /\ registry[k].svc = svc[t]
              THEN st ELSE registry[k].state
         /\ pc' = [pc EXCEPT ![t] = "idle"]
         /\ UNCHANGED <<registryCount, svc>>
  <1> DEFINE Hit(k) == Found(svc[t], k)
             New(k) == IF Hit(k) THEN [registry[k] EXCEPT !.state = st] ELSE registry[k]
  <1>1. /\ registry' = [k \in EntryIndex |-> New(k)]
        /\ pc' = [pc EXCEPT ![t] = "idle"] /\ UNCHANGED <<registryCount, svc>>
    BY DEF WriteState, Return
  <1>2. ASSUME NEW k \in EntryIndex
        PROVE  /\ New(k) \in Entry /\ New(k).svc = registry[k].svc
               /\ New(k).state = IF Hit(k) THEN st ELSE registry[k].state
    <2>1. registry[k] \in Entry
      BY DEF RegistryInv, RegTypeInv
    <2>2. CASE Hit(k)
      BY <2>1, <2>2 DEF Entry
    <2>3. CASE ~Hit(k)
      BY <2>1, <2>3
    <2> QED
      BY <2>2, <2>3
  <1>3. ASSUME NEW k \in EntryIndex
        PROVE  Hit(k) <=> k \in Committed /\ registry[k].svc = svc[t]
    BY DEF Found, EntryIndex, Committed, RegistryInv, RegTypeInv
  <1>4. \A k \in EntryIndex : registry'[k] = New(k)
    BY <1>1
  <1> HIDE DEF New, Hit
  <1>5. registry' \in [EntryIndex -> Entry]
    BY <1>1, <1>2
  <1>6. \A k \in EntryIndex : registry'[k].svc = registry[k].svc
    BY <1>2, <1>4
  <1>7. \A k \in EntryIndex : registry'[k].state =
          IF k \in Committed /\ registry[k].svc = svc[t]
          THEN st ELSE registry[k].state
    BY <1>2, <1>3, <1>4
  <1> QED
    BY <1>1, <1>5, <1>6, <1>7

\* The steps of the registry, as the proofs split them.
LEMMA RegistrySteps ==
  ASSUME [RegistryNext]_registryVars
  PROVE  \/ UNCHANGED registryVars
         \/ \E s \in Service : RegisterRefused(s) \/ Missing(s)
         \/ \E s \in Service, st \in State : RegisterWrite(s, st)
         \/ RegisterReset
         \/ RegisterCommit
         \/ \E s \in Service : OfferRead(s) \/ AppStop(s) \/ SdObserve(s)
         \/ SdStop
         \/ OfferWrite
         \/ \E t \in Thread : StopLook(t)
         \/ \E t \in Thread : StopPark(t)
         \/ \E t \in Thread : StopDown(t)
  BY DEF RegistryNext, App, Sd, StopGoesOn, Thread

\* The committed entries are entries.
LEMMA CommittedEntries ==
  ASSUME RegTypeInv
  PROVE  /\ registryCount \in Nat /\ registryCount <= MaxServices
         /\ Committed \subseteq EntryIndex
         /\ registryCount < MaxServices => registryCount \in EntryIndex
         /\ registryCount \notin Committed
         /\ Thread = {"app", "sd"}
  BY RegistryAssumption DEF RegTypeInv, EntryIndex, Committed, Thread

\* RegisterService(), from the copy of the descriptor to the commit.
LEMMA RegisterStep ==
  ASSUME RegistryInv,
         \/ \E s \in Service, st \in State : RegisterWrite(s, st)
         \/ RegisterReset
         \/ RegisterCommit
  PROVE  RegistryInv'
  <1>0. RegTypeInv /\ UniqueInv /\ NewcomerInv /\ ParkedInv
    BY DEF RegistryInv
  <1>1. /\ registryCount \in Nat /\ registryCount <= MaxServices
        /\ Committed \subseteq EntryIndex /\ Thread = {"app", "sd"}
        /\ registryCount < MaxServices => registryCount \in EntryIndex
        /\ registryCount \notin Committed
    BY <1>0, CommittedEntries
  <1>2. ASSUME registryCount \in EntryIndex, UNCHANGED <<registryCount, svc, parked, overtaken>>,
               NEW e \in Entry, registry' = [registry EXCEPT ![registryCount] = e]
        PROVE  /\ registry' \in [EntryIndex -> Entry]
               /\ registry'[registryCount] = e /\ Committed' = Committed
               /\ \A k \in Committed : registry'[k] = registry[k]
    BY <1>0, <1>1, <1>2 DEF RegTypeInv, Committed
  <1>3. ASSUME NEW next \in {"reset", "commit", "idle"}, pc' = [pc EXCEPT !["app"] = next],
               UNCHANGED <<svc, parked, overtaken>>
        PROVE  /\ pc'["app"] = next /\ pc'["sd"] = pc["sd"]
               /\ \A t \in Thread : pc'[t] = "down" => svc'[t] \in parked' \/ t \in overtaken'
    BY <1>0, <1>1, <1>3 DEF RegTypeInv, ParkedInv
  <1>4. ASSUME NEW s \in Service, NEW st \in State, RegisterWrite(s, st)
        PROVE  RegistryInv'
    <2> DEFINE e == [svc |-> s, state |-> st]
    <2>1. /\ pc["app"] = "idle" /\ ~Registered(s) /\ registryCount < MaxServices
          /\ registry' = [registry EXCEPT ![registryCount] = e]
          /\ pc' = [pc EXCEPT !["app"] = "reset"]
          /\ UNCHANGED <<registryCount, svc, parked, overtaken>>
      BY <1>4 DEF RegisterWrite, stopHistory
    <2>2. e \in Entry /\ e.svc = s
      BY DEF Entry
    <2>3. /\ registry' \in [EntryIndex -> Entry]
          /\ registry'[registryCount] = e /\ Committed' = Committed
          /\ \A k \in Committed : registry'[k] = registry[k]
      BY <1>1, <1>2, <2>1, <2>2
    <2>4. /\ pc'["app"] = "reset" /\ pc'["sd"] = pc["sd"]
          /\ \A t \in Thread : pc'[t] = "down" => svc'[t] \in parked' \/ t \in overtaken'
      BY <1>3, <2>1
    <2>5. \A k \in Committed : registry[k].svc # s
      BY <1>1, <2>1 DEF Registered, Found, Committed
    <2>6. RegTypeInv'
      BY <1>0, <1>1, <2>1, <2>3 DEF RegTypeInv
    <2>7. UniqueInv'
      BY <1>0, <2>3 DEF UniqueInv
    <2>8. NewcomerInv'
      BY <1>0, <2>1, <2>2, <2>3, <2>4, <2>5 DEF NewcomerInv
    <2>9. ParkedInv'
      BY <1>0, <2>1, <2>3, <2>4 DEF ParkedInv
    <2> QED
      BY <2>6, <2>7, <2>8, <2>9 DEF RegistryInv
  <1>5. CASE RegisterReset
    <2> DEFINE e == [registry[registryCount] EXCEPT !.state = "kDown"]
    <2>1. /\ pc["app"] = "reset"
          /\ registry' = [registry EXCEPT ![registryCount] = e]
          /\ pc' = [pc EXCEPT !["app"] = "commit"]
          /\ UNCHANGED <<registryCount, svc, parked, overtaken>>
      BY <1>5, <1>0, <1>1 DEF RegisterReset, stopHistory
    <2>2. registryCount < MaxServices /\ registryCount \in EntryIndex
      BY <1>0, <1>1, <2>1 DEF NewcomerInv
    <2>3. e \in Entry /\ e.svc = registry[registryCount].svc /\ e.state = "kDown"
      <3>1. registry[registryCount] \in Entry
        BY <1>0, <2>2 DEF RegTypeInv
      <3> QED
        BY <3>1 DEF Entry, State
    <2>4. /\ registry' \in [EntryIndex -> Entry]
          /\ registry'[registryCount] = e /\ Committed' = Committed
          /\ \A k \in Committed : registry'[k] = registry[k]
      BY <1>2, <2>1, <2>2, <2>3
    <2>5. /\ pc'["app"] = "commit" /\ pc'["sd"] = pc["sd"]
          /\ \A t \in Thread : pc'[t] = "down" => svc'[t] \in parked' \/ t \in overtaken'
      BY <1>3, <2>1
    <2>6. RegTypeInv'
      BY <1>0, <1>1, <2>1, <2>4 DEF RegTypeInv
    <2>7. UniqueInv'
      BY <1>0, <2>4 DEF UniqueInv
    <2>a. /\ registry[registryCount].svc \in Service
          /\ \A k \in Committed : registry[k].svc # registry[registryCount].svc
      BY <1>0, <2>1 DEF NewcomerInv
    <2>b. registryCount' < MaxServices /\ registry'[registryCount'].svc \in Service
          /\ registry'[registryCount'].state = "kDown"
      BY <2>1, <2>2, <2>3, <2>4, <2>a
    <2>c. \A k \in Committed' : registry'[k].svc # registry'[registryCount'].svc
      BY <2>1, <2>3, <2>4, <2>a
    <2>8. NewcomerInv'
      BY <1>0, <2>5, <2>b, <2>c DEF NewcomerInv
    <2>9. ParkedInv'
      BY <1>0, <2>1, <2>4, <2>5 DEF ParkedInv
    <2> QED
      BY <2>6, <2>7, <2>8, <2>9 DEF RegistryInv
  <1>6. CASE RegisterCommit
    <2>1. /\ pc["app"] = "commit" /\ registryCount' = registryCount + 1
          /\ pc' = [pc EXCEPT !["app"] = "idle"]
          /\ UNCHANGED <<registry, svc, parked, overtaken>>
      BY <1>6 DEF RegisterCommit, Return, stopHistory
    <2>2. /\ registryCount < MaxServices /\ registry[registryCount].state = "kDown"
          /\ \A k \in Committed : registry[k].svc # registry[registryCount].svc
      BY <1>0, <2>1 DEF NewcomerInv
    <2>3. Committed' = Committed \cup {registryCount}
      BY <1>1, <2>1 DEF Committed
    <2>4. /\ pc'["app"] = "idle" /\ pc'["sd"] = pc["sd"]
          /\ \A t \in Thread : pc'[t] = "down" => svc'[t] \in parked' \/ t \in overtaken'
      BY <1>3, <2>1
    <2>5. RegTypeInv'
      BY <1>0, <1>1, <2>1, <2>2, RegistryAssumption DEF RegTypeInv
    <2>6. UniqueInv'
      BY <1>0, <2>1, <2>2, <2>3 DEF UniqueInv
    <2>7. NewcomerInv'
      BY <1>0, <2>4 DEF NewcomerInv
    <2>8. ParkedInv'
      BY <1>0, <2>1, <2>2, <2>3, <2>4 DEF ParkedInv
    <2> QED
      BY <2>5, <2>6, <2>7, <2>8 DEF RegistryInv
  <1> QED
    BY <1>4, <1>5, <1>6

\* A thread goes on to its next step, with a state it has read at most.
LEMMA GotoStep ==
  ASSUME RegistryInv, NEW t \in Thread, NEW s \in Service \cup {NoService},
         NEW next \in {"idle", "offer", "again", "look", "park", "down"},
         t = "sd" => next # "offer",
         Goto(t, s, next), pc[t] \notin {"reset", "commit"},
         UNCHANGED <<registry, registryCount, stopHistory>>,
         next = "down" => \E k \in Committed : registry[k].svc = s
                                               /\ registry[k].state = "kStopping"
  PROVE  RegistryInv'
  <1>0. RegTypeInv /\ UniqueInv /\ NewcomerInv /\ ParkedInv
    BY DEF RegistryInv
  <1>1. /\ Thread = {"app", "sd"}
        /\ UNCHANGED <<registry, registryCount, parked, overtaken>>
    BY <1>0, CommittedEntries DEF stopHistory
  <1>2. Committed' = Committed
    BY <1>1 DEF Committed
  <1>3. /\ svc' = [svc EXCEPT ![t] = s] /\ pc' = [pc EXCEPT ![t] = next]
        /\ pc'[t] = next /\ svc'[t] = s
        /\ \A u \in Thread : u # t => pc'[u] = pc[u] /\ svc'[u] = svc[u]
    BY <1>0 DEF Goto, RegTypeInv
  <1>4. RegTypeInv'
    BY <1>0, <1>1, <1>3 DEF RegTypeInv
  <1>5. UniqueInv'
    BY <1>0, <1>1, <1>2 DEF UniqueInv
  <1>6. NewcomerInv'
    <2>1. pc'["app"] \in {"reset", "commit"} => pc'["app"] = pc["app"]
      BY <1>1, <1>3
    <2>2. pc'["sd"] \notin {"reset", "commit", "offer"}
      BY <1>0, <1>1, <1>3 DEF NewcomerInv
    <2> QED
      BY <1>0, <1>1, <1>2, <2>1, <2>2 DEF NewcomerInv
  <1>7. ParkedInv'
    <2>1. next = "down" => s \in parked
      BY <1>0 DEF ParkedInv
    <2>2. \A u \in Thread : pc'[u] = "down" => svc'[u] \in parked \/ u \in overtaken
      BY <1>0, <1>3, <2>1 DEF ParkedInv
    <2> QED
      BY <1>0, <1>1, <1>2, <2>2 DEF ParkedInv
  <1> QED
    BY <1>4, <1>5, <1>6, <1>7 DEF RegistryInv

\* The steps that read a state.
LEMMA LookStep ==
  ASSUME RegistryInv,
         \/ \E s \in Service : OfferRead(s) \/ AppStop(s) \/ SdObserve(s)
         \/ SdStop
         \/ \E t \in Thread : StopLook(t)
  PROVE  RegistryInv'
  <1>0. RegTypeInv /\ Thread = {"app", "sd"}
    BY CommittedEntries DEF RegistryInv
  <1>1. ASSUME NEW s \in Service, OfferRead(s) PROVE RegistryInv'
    <2>1. PICK next \in {"idle", "offer"} : Goto("app", s, next)
      BY <1>1 DEF OfferRead
    <2>2. pc["app"] = "idle" /\ UNCHANGED <<registry, registryCount, stopHistory>>
      BY <1>1 DEF OfferRead
    <2> QED
      BY <1>0, <2>1, <2>2, GotoStep
  <1>2. ASSUME NEW t \in Thread, NEW s \in Service \cup {NoService}, StopRead(t, s),
               pc[t] \notin {"reset", "commit"}
        PROVE  RegistryInv'
    <2>1. PICK next \in {"park", "look"} : Goto(t, s, next)
      BY <1>2 DEF StopRead
    <2>2. UNCHANGED <<registry, registryCount, stopHistory>>
      BY <1>2 DEF StopRead
    <2> QED
      BY <1>2, <2>1, <2>2, GotoStep
  <1>3. ASSUME NEW s \in Service, AppStop(s) PROVE RegistryInv'
    BY <1>0, <1>2, <1>3 DEF AppStop
  <1>4. CASE SdStop
    <2>1. svc["sd"] \in Service \cup {NoService}
      BY <1>0 DEF RegTypeInv
    <2> QED
      BY <1>0, <1>2, <1>4, <2>1 DEF SdStop
  <1>5. ASSUME NEW s \in Service, SdObserve(s) PROVE RegistryInv'
    <2>1. /\ pc["sd"] = "idle" /\ Goto("sd", s, "again")
          /\ UNCHANGED <<registry, registryCount, stopHistory>>
      BY <1>5 DEF SdObserve
    <2> QED
      BY <1>0, <2>1, GotoStep
  <1>6. ASSUME NEW t \in Thread, StopLook(t) PROVE RegistryInv'
    <2>1. PICK k \in EntryIndex :
            /\ Found(svc[t], k)
            /\ Goto(t, svc[t], IF registry[k].state = "kStopping" THEN "down" ELSE "idle")
      BY <1>6 DEF StopLook
    <2>2. pc[t] = "look" /\ UNCHANGED <<registry, registryCount, stopHistory>>
      BY <1>6 DEF StopLook
    <2>3. k \in Committed /\ registry[k].svc = svc[t]
      BY <1>0, <2>1 DEF EntryIndex, Found, Committed, RegTypeInv
    <2>4. svc[t] \in Service \cup {NoService}
      BY <1>0 DEF RegTypeInv
    <2>5. CASE registry[k].state = "kStopping"
      BY <2>1, <2>2, <2>3, <2>4, <2>5, GotoStep
    <2>6. CASE registry[k].state # "kStopping"
      BY <2>1, <2>2, <2>4, <2>6, GotoStep
    <2> QED
      BY <2>5, <2>6
  <1> QED
    BY <1>1, <1>3, <1>4, <1>5, <1>6

\* The last store of OfferService() and StopService().
LEMMA WriteStep ==
  ASSUME RegistryInv,
         \/ OfferWrite
         \/ \E t \in Thread : StopPark(t)
         \/ \E t \in Thread : StopDown(t)
  PROVE  RegistryInv'
  <1>0. RegTypeInv /\ UniqueInv /\ NewcomerInv /\ ParkedInv
    BY DEF RegistryInv
  <1>1. /\ registryCount \in Nat /\ Committed \subseteq EntryIndex
        /\ Thread = {"app", "sd"} /\ registryCount \notin Committed
        /\ registryCount < MaxServices => registryCount \in EntryIndex
    BY <1>0, CommittedEntries
  <1>2. ASSUME NEW t \in Thread, NEW st \in State, WriteState(t, st)
        PROVE  /\ RegTypeInv' /\ UniqueInv' /\ NewcomerInv' /\ Committed' = Committed
               /\ svc' = svc /\ pc'[t] = "idle"
               /\ \A u \in Thread : u # t => pc'[u] = pc[u]
               /\ \A k \in Committed : registry'[k].svc = registry[k].svc
               /\ \A k \in Committed : registry'[k].state =
                    IF registry[k].svc = svc[t] THEN st ELSE registry[k].state
    <2>1. /\ registry' \in [EntryIndex -> Entry]
          /\ \A k \in EntryIndex : registry'[k].svc = registry[k].svc
          /\ \A k \in EntryIndex : registry'[k].state =
               IF k \in Committed /\ registry[k].svc = svc[t]
               THEN st ELSE registry[k].state
          /\ pc' = [pc EXCEPT ![t] = "idle"]
          /\ UNCHANGED <<registryCount, svc>>
      BY <1>2, StateWritten
    <2>2. Committed' = Committed
      BY <2>1 DEF Committed
    <2>3. pc'[t] = "idle" /\ \A u \in Thread : u # t => pc'[u] = pc[u]
      BY <1>0, <2>1 DEF RegTypeInv
    <2>4. RegTypeInv'
      BY <1>0, <2>1 DEF RegTypeInv
    <2>5. UniqueInv'
      BY <1>0, <1>1, <2>1, <2>2 DEF UniqueInv
    <2>6. NewcomerInv'
      <3>1. pc'["sd"] \notin {"reset", "commit", "offer"}
            /\ (pc'["app"] \in {"reset", "commit"} => pc'["app"] = pc["app"])
        BY <1>0, <1>1, <2>3 DEF NewcomerInv
      <3>2. pc["app"] \in {"reset", "commit"} =>
              /\ registry'[registryCount].svc = registry[registryCount].svc
              /\ registry'[registryCount].state = registry[registryCount].state
        BY <1>0, <1>1, <2>1 DEF NewcomerInv
      <3> QED
        BY <1>0, <1>1, <2>1, <2>2, <3>1, <3>2 DEF NewcomerInv
    <2> QED
      BY <1>1, <2>1, <2>2, <2>3, <2>4, <2>5, <2>6
  <1>3. CASE OfferWrite
    <2>1. /\ WriteState("app", "kAvailable")
          /\ parked' = parked \ {svc["app"]}
          /\ overtaken' = overtaken \cup
               {t \in Thread : pc[t] = "down" /\ svc[t] = svc["app"]}
      BY <1>3 DEF OfferWrite
    <2>2. "kAvailable" \in State /\ "app" \in Thread
      BY <1>1 DEF State
    <2>3. \A k \in Committed : registry'[k].state = "kStopping"
                                 => registry'[k].svc \in parked'
      BY <1>0, <1>2, <2>1, <2>2 DEF ParkedInv
    <2>4. \A t \in Thread : pc'[t] = "down" => svc'[t] \in parked' \/ t \in overtaken'
      <3>1. ASSUME NEW t \in Thread, pc'[t] = "down"
            PROVE  svc'[t] \in parked' \/ t \in overtaken'
        <4>1. pc[t] = "down" /\ svc'[t] = svc[t]
          BY <1>2, <2>1, <2>2, <3>1
        <4>2. svc[t] \in parked \/ t \in overtaken
          BY <1>0, <4>1 DEF ParkedInv
        <4> QED
          BY <2>1, <4>1, <4>2
      <3> QED
        BY <3>1
    <2> QED
      BY <1>2, <2>1, <2>2, <2>3, <2>4 DEF RegistryInv, ParkedInv
  <1>4. ASSUME NEW t \in Thread, StopPark(t) PROVE RegistryInv'
    <2>1. WriteState(t, "kStopping") /\ parked' = parked \cup {svc[t]}
          /\ overtaken' = overtaken
      BY <1>4 DEF StopPark
    <2>2. "kStopping" \in State
      BY DEF State
    <2>3. \A k \in Committed : registry'[k].state = "kStopping"
                                 => registry'[k].svc \in parked'
      BY <1>0, <1>2, <2>1, <2>2 DEF ParkedInv
    <2>4. \A u \in Thread : pc'[u] = "down" => svc'[u] \in parked' \/ u \in overtaken'
      BY <1>0, <1>2, <2>1, <2>2 DEF ParkedInv
    <2> QED
      BY <1>2, <2>1, <2>2, <2>3, <2>4 DEF RegistryInv, ParkedInv
  <1>5. ASSUME NEW t \in Thread, StopDown(t) PROVE RegistryInv'
    <2>1. WriteState(t, "kDown") /\ parked' = parked /\ overtaken' = overtaken \ {t}
      BY <1>5 DEF StopDown
    <2>2. "kDown" \in State
      BY DEF State
    <2>3. \A k \in Committed : registry'[k].state = "kStopping"
                                 => registry'[k].svc \in parked'
      BY <1>0, <1>2, <2>1, <2>2 DEF ParkedInv
    <2>4. \A u \in Thread : pc'[u] = "down" => svc'[u] \in parked' \/ u \in overtaken'
      BY <1>0, <1>2, <2>1, <2>2 DEF ParkedInv
    <2> QED
      BY <1>2, <2>1, <2>2, <2>3, <2>4 DEF RegistryInv, ParkedInv
  <1> QED
    BY <1>3, <1>4, <1>5

\* The invariant is inductive.
LEMMA RegistryStep ==
  ASSUME RegistryInv, [RegistryNext]_registryVars
  PROVE  RegistryInv'
  <1>1. CASE \/ UNCHANGED registryVars
             \/ \E s \in Service : RegisterRefused(s) \/ Missing(s)
    <2>1. UNCHANGED <<registry, registryCount, pc, svc, parked, overtaken>>
      BY <1>1 DEF registryVars, stopHistory, RegisterRefused, Missing
    <2> QED
      BY <2>1 DEF RegistryInv, RegTypeInv, UniqueInv, NewcomerInv, ParkedInv, Committed
  <1> QED
    BY <1>1, RegistrySteps, RegisterStep, LookStep, WriteStep

\* For a table of any size and any services, with the application and the
\* discovery task in any order: no service has two entries, an entry is complete
\* before it is counted, and a service that is stopping, or about to go down, was
\* parked since its last offer or is offered under the call that takes it down.
THEOREM RegistryCorrect == RegistrySpec => []RegistryInv
  <1>1. RegistryInit => RegistryInv
    BY RegistryInitInv
  <1>2. RegistryInv /\ [RegistryNext]_registryVars => RegistryInv'
    BY RegistryStep
  <1> QED
    BY <1>1, <1>2, PTL DEF RegistrySpec

\* A committed entry changes neither its service nor, but for the steps that
\* write a state, anything.
LEMMA EntriesKept ==
  ASSUME RegistryInv, [RegistryNext]_registryVars
  PROVE  /\ \A k \in Committed : registry'[k].svc = registry[k].svc
         /\ registryCount' # registryCount => pc["app"] = "commit"
         /\ \/ \A k \in Committed : registry'[k] = registry[k]
            \/ OfferWrite
            \/ \E t \in Thread : StopPark(t) \/ StopDown(t)
  <1>0. /\ Committed \subseteq EntryIndex /\ registryCount \notin Committed
        /\ Thread = {"app", "sd"}
        /\ registry \in [EntryIndex -> Entry]
    BY CommittedEntries DEF RegistryInv, RegTypeInv
  <1>1. CASE \/ UNCHANGED registryVars
             \/ \E s \in Service : RegisterRefused(s) \/ Missing(s)
             \/ RegisterCommit
             \/ \E s \in Service : OfferRead(s) \/ AppStop(s) \/ SdObserve(s)
             \/ SdStop
             \/ \E t \in Thread : StopLook(t)
    <2>1. registry' = registry /\ (registryCount' = registryCount \/ pc["app"] = "commit")
      BY <1>1 DEF registryVars, RegisterRefused, Missing, RegisterCommit, OfferRead,
                  AppStop, StopRead, SdObserve, SdStop, StopLook
    <2> QED
      BY <2>1
  <1>2. CASE \/ \E s \in Service, st \in State : RegisterWrite(s, st)
             \/ RegisterReset
    <2>1. PICK e : registry' = [registry EXCEPT ![registryCount] = e]
      BY <1>2 DEF RegisterWrite, RegisterReset
    <2>2. registryCount' = registryCount
      BY <1>2 DEF RegisterWrite, RegisterReset
    <2>3. \A k \in Committed : registry'[k] = registry[k]
      BY <1>0, <2>1
    <2> QED
      BY <2>2, <2>3
  <1>3. CASE \/ OfferWrite
             \/ \E t \in Thread : StopPark(t) \/ StopDown(t)
    <2>1. PICK t \in Thread, st \in State : WriteState(t, st)
      BY <1>0, <1>3 DEF OfferWrite, StopPark, StopDown, State
    <2>2. /\ \A k \in EntryIndex : registry'[k].svc = registry[k].svc
          /\ registryCount' = registryCount
      BY <2>1, StateWritten
    <2> QED
      BY <1>0, <1>3, <2>2
  <1> QED
    BY <1>1, <1>2, <1>3, RegistrySteps

\* Registry entries become visible complete and in state kDown, whatever the
\* caller's descriptor said, and never change their identity.
THEOREM EntryComplete == RegistrySpec => CommittedComplete
  <1> DEFINE Complete ==
        /\ registryCount' # registryCount =>
             registry[registryCount].svc \in Service
             /\ registry[registryCount].state = "kDown"
        /\ \A k \in 0 .. registryCount - 1 : registry'[k].svc = registry[k].svc
  <1>1. RegistryInv /\ [RegistryNext]_registryVars => Complete
    BY EntriesKept DEF RegistryInv, NewcomerInv, Committed
  <1>2. RegistryInv /\ [RegistryNext]_registryVars => [Complete]_registryVars
    BY <1>1
  <1> QED
    BY <1>2, RegistryCorrect, PTL DEF RegistrySpec, CommittedComplete

\* StopService() takes a service down only when an earlier call has parked it in
\* kStopping and returned since it was offered last, or when the service was taken
\* down and offered again under the call.
THEOREM TwoCallsToDown == RegistrySpec => DownTakesTwoCalls
  <1> DEFINE TwoCalls ==
        \A k \in 0 .. registryCount - 1 :
          registry[k].state # "kDown" /\ registry'[k].state = "kDown" =>
            \/ registry[k].svc \in parked
            \/ \E t \in overtaken : svc[t] = registry[k].svc /\ pc'[t] # pc[t]
  <1>1. RegistryInv /\ [RegistryNext]_registryVars => TwoCalls
    <2> SUFFICES ASSUME RegistryInv, [RegistryNext]_registryVars, NEW k \in Committed,
                        registry[k].state # "kDown", registry'[k].state = "kDown"
                 PROVE  \/ registry[k].svc \in parked
                        \/ \E t \in overtaken : svc[t] = registry[k].svc /\ pc'[t] # pc[t]
      BY DEF Committed
    <2>0. k \in EntryIndex /\ Thread = {"app", "sd"}
      BY CommittedEntries DEF RegistryInv
    <2>1. OfferWrite \/ \E t \in Thread : StopPark(t) \/ StopDown(t)
      BY EntriesKept
    <2>2. ASSUME NEW t \in Thread, NEW st \in State, WriteState(t, st)
          PROVE  registry[k].svc = svc[t] /\ st = "kDown" /\ pc'[t] = "idle"
      <3>1. registry'[k].state = IF registry[k].svc = svc[t] THEN st ELSE registry[k].state
        BY <2>0, <2>2, StateWritten
      <3>2. pc' = [pc EXCEPT ![t] = "idle"] /\ t \in DOMAIN pc
        BY <2>2, StateWritten DEF RegistryInv, RegTypeInv
      <3> QED
        BY <3>1, <3>2
    <2>3. ~OfferWrite /\ \A t \in Thread : ~StopPark(t)
      BY <2>0, <2>2 DEF OfferWrite, StopPark, State
    <2>4. PICK t \in Thread : StopDown(t)
      BY <2>1, <2>3
    <2>5. pc[t] = "down" /\ registry[k].svc = svc[t] /\ pc'[t] = "idle"
      BY <2>2, <2>4 DEF StopDown, State
    <2>6. svc[t] \in parked \/ t \in overtaken
      BY <2>5 DEF RegistryInv, ParkedInv
    <2> QED
      BY <2>5, <2>6
  <1>2. RegistryInv /\ [RegistryNext]_registryVars => [TwoCalls]_registryVars
    BY <1>1
  <1> QED
    BY <1>2, RegistryCorrect, PTL DEF RegistrySpec, DownTakesTwoCalls
=============================================================================
