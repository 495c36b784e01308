--------------------------- MODULE IpcBridgeProofs --------------------------
(***************************************************************************)
(* Proofs about the bridge, for every ring size, counter width and set of  *)
(* events: the type invariant, the ring invariant and with it the absence  *)
(* of E2E violations, and that the ring implements the FIFO channel.       *)
(***************************************************************************)
EXTENDS IpcBridge, SequenceTheorems, TLAPS

-----------------------------------------------------------------------------
(* Arithmetic of the indices and of the counter.                           *)

\* Masking an index: either the successor or, at the end of the ring, 0.
LEMMA NextIndexValue ==
  ASSUME NEW i \in Index
  PROVE  /\ NextIndex(i) \in Index
         /\ NextIndex(i) = IF i + 1 = RingSlots THEN 0 ELSE i + 1
  BY RingAssumption, SMTT(30) DEF NextIndex, Index

\* The counter stays a counter when it wraps.
LEMMA NextCounterType ==
  ASSUME NEW c \in Counter
  PROVE  NextCounter(c) \in Counter
  BY CounterAssumption, SMTT(30) DEF NextCounter, Counter

-----------------------------------------------------------------------------
(* Type correctness.                                                       *)

\* The slot of a zeroed ring and the slot of an unwritten one are slots.
LEMMA InitialSlots == ZeroSlot \in Slot /\ JunkSlot \in Slot
  <1>1. 0 \in Counter /\ 1 \in Counter
    BY CounterAssumption DEF Counter
  <1> QED
    BY <1>1 DEF ZeroSlot, JunkSlot, Slot, Body, ComputeE2eCrc

\* The ring, the producer and the consumer start well typed.
LEMMA TypeInit == Init => TypeOK
  <1>1. 0 \in Counter
    BY CounterAssumption DEF Counter
  <1> QED
    BY <1>1, InitialSlots DEF Init, TypeOK, Body

\* Every step of the A53 and of the M7 keeps the types.
LEMMA TypeStep == TypeOK /\ [Next]_vars => TypeOK'
  <1> SUFFICES ASSUME TypeOK, [Next]_vars PROVE TypeOK'
    OBVIOUS
  <1>1. CASE InitZero
    <2>1. 0 \in Index
      BY RingAssumption DEF Index
    <2> QED
      BY <1>1, <2>1, InitialSlots DEF InitZero, TypeOK, m7Vars
  <1>2. CASE InitMagic
    <2>1. 0 \in Counter
      BY CounterAssumption DEF Counter
    <2> QED
      BY <1>2, <2>1 DEF InitMagic, TypeOK, m7Vars
  <1>3. CASE InitAgain
    BY <1>3 DEF InitAgain, TypeOK, ringVars, m7Vars
  <1>4. CASE SendDown
    BY <1>4 DEF SendDown, TypeOK, ringVars, m7Vars
  <1>5. CASE \E e \in LargeEvent : SendLarge(e)
    BY <1>5 DEF SendLarge, TypeOK, ringVars, m7Vars
  <1>6. CASE \E e \in Event : SendFull(e)
    BY <1>6 DEF SendFull, TypeOK, ringVars, m7Vars
  <1>7. CASE \E e \in Event : SendBegin(e)
    BY <1>7 DEF SendBegin, TypeOK, ringVars, m7Vars, Body
  <1>8. CASE SendWrite
    BY <1>8 DEF SendWrite, TypeOK, m7Vars, Slot
  <1>9. CASE ApplyE2eHeader
    BY <1>9, NextCounterType DEF ApplyE2eHeader, TypeOK, m7Vars, Slot, ComputeE2eCrc
  <1>10. CASE SendPublish
    BY <1>10, NextIndexValue DEF SendPublish, TypeOK, m7Vars
  <1>11. CASE M7ReadHeader
    BY <1>11 DEF M7ReadHeader, TypeOK, ringVars, a53Vars, Slot
  <1>12. CASE M7ReadBody
    BY <1>12 DEF M7ReadBody, TypeOK, ringVars, a53Vars, Slot
  <1>13. CASE M7Verify
    BY <1>13, NextIndexValue, NextCounterType DEF M7Verify, TypeOK, a53Vars, Slot
  <1>14. CASE UNCHANGED vars
    BY <1>14 DEF vars, ringVars, a53Vars, m7Vars, TypeOK
  <1> QED
    BY <1>1, <1>2, <1>3, <1>4, <1>5, <1>6, <1>7, <1>8, <1>9, <1>10, <1>11,
       <1>12, <1>13, <1>14 DEF Next, Send, M7

\* Indices stay inside the ring, counters inside eight bits, slots are slots:
\* for every ring size and counter width.
THEOREM TypeCorrect == SafeSpec => []TypeOK
  <1> QED
    BY TypeInit, TypeStep, PTL DEF SafeSpec

-----------------------------------------------------------------------------
(* The ring invariant.                                                     *)

\* Nothing is stamped in a ring that nobody has zeroed yet.
LEMMA RingInit == Init => RingInv
  <1> SUFFICES ASSUME Init PROVE RingInv
    OBVIOUS
  <1>1. TypeOK
    BY TypeInit
  <1>2. ~Initialised
    BY DEF Init, Initialised
  <1> QED
    BY <1>1, <1>2 DEF Init, RingInv, MagicInv

\* Init() of the bridge leaves an empty, well-stamped ring.
LEMMA InitMagicRing == RingInv /\ InitMagic => RingInv'
  <1> SUFFICES ASSUME RingInv, InitMagic PROVE RingInv'
    OBVIOUS
  <1>1. TypeOK'
    BY TypeStep DEF RingInv, Next
  <1>2. head = 0 /\ tail = 0 /\ m7pc = "poll" /\ expected = 0
    BY DEF InitMagic, RingInv, MagicInv, Initialised
  <1>3. (WriteLimit = 0)' /\ Initialised'
    BY <1>2 DEF InitMagic, WriteLimit, Initialised
  <1>4. ASSUME NEW i \in Index PROVE ~Stamped(i)'
    BY <1>2, <1>3 DEF InitMagic, Stamped, Index
  <1>5. MagicInv' /\ (m7rc = "ok")' /\ (m7pc # "stopped")'
    BY <1>3 DEF InitMagic, MagicInv, RingInv, m7Vars, Initialised
  <1>6. RoomInv' /\ BodyInv' /\ CopyInv'
    BY <1>2 DEF InitMagic, RoomInv, BodyInv, CopyInv, m7Vars
  <1>7. CrcInv' /\ CounterInv'
    BY <1>2, <1>3, <1>4 DEF InitMagic, CrcInv, CounterInv, m7Vars
  <1> QED
    BY <1>1, <1>5, <1>6, <1>7 DEF RingInv

\* Filling the free slot at head disturbs no stamped slot.
LEMMA SendWriteRing == RingInv /\ SendWrite => RingInv'
  <1> SUFFICES ASSUME RingInv, SendWrite PROVE RingInv'
    OBVIOUS
  <1> USE DEF Initialised
  <1>1. TypeOK /\ TypeOK'
    BY TypeStep DEF RingInv, Next, Send
  <1>2. RoomInv /\ CrcInv /\ CounterInv /\ CopyInv /\ BodyInv /\ MagicInv
    BY DEF SendWrite, RingInv
  <1>3. WriteLimit = head /\ WriteLimit' = head /\ tail' = tail
    BY DEF SendWrite, WriteLimit
  <1>4. ~Stamped(head) /\ \A i \in Index : Stamped(i)' <=> Stamped(i)
    BY <1>1, <1>3 DEF TypeOK, Index, Stamped
  <1>5. \A i \in Index : i # head => slots'[i] = slots[i]
    BY <1>1 DEF SendWrite, TypeOK
  <1>6. slots'[head].body = ev
    BY <1>1 DEF SendWrite, TypeOK, Slot
  <1>7. CrcInv'
    BY <1>2, <1>4, <1>5 DEF CrcInv
  <1>8. CounterInv'
    <2>1. tail # head => slots'[tail] = slots[tail]
      BY <1>1, <1>5 DEF TypeOK
    <2>2. ASSUME NEW i \in Index, Stamped(i), NextIndex(i) # head
          PROVE  slots'[i] = slots[i] /\ slots'[NextIndex(i)] = slots[NextIndex(i)]
      BY <2>2, <1>4, <1>5, NextIndexValue
    <2>3. \A i \in Index : Stamped(i) => slots'[i] = slots[i]
      BY <1>4, <1>5
    <2> QED
      BY <1>2, <1>3, <1>4, <2>1, <2>2, <2>3 DEF CounterInv, SendWrite, m7Vars
  <1>9. CopyInv'
    BY <1>1, <1>2, <1>3, <1>5 DEF CopyInv, SendWrite, m7Vars, TypeOK
  <1>10. RoomInv' /\ BodyInv' /\ MagicInv'
    BY <1>2, <1>6 DEF RoomInv, RingFull, BodyInv, MagicInv, SendWrite, m7Vars
  <1> QED
    BY <1>1, <1>7, <1>8, <1>9, <1>10 DEF RingInv, SendWrite, m7Vars

\* Stamping the slot at head extends the run of stamped slots by one.
LEMMA ApplyHeaderRing == RingInv /\ ApplyE2eHeader => RingInv'
  <1> SUFFICES ASSUME RingInv, ApplyE2eHeader PROVE RingInv'
    OBVIOUS
  <1> USE DEF Initialised
  <1>1. TypeOK /\ TypeOK'
    BY TypeStep DEF RingInv, Next, Send
  <1>2. RoomInv /\ CrcInv /\ CounterInv /\ CopyInv /\ BodyInv /\ MagicInv
    BY DEF ApplyE2eHeader, RingInv
  <1>3. WriteLimit = head /\ WriteLimit' = NextIndex(head) /\ tail' = tail
        /\ head' = head /\ NextIndex(head) # tail
    BY <1>2 DEF ApplyE2eHeader, WriteLimit, RoomInv, RingFull
  <1>4. ~Stamped(head) /\ \A i \in Index : Stamped(i)' <=> Stamped(i) \/ i = head
    <2>1. head \in Index /\ tail \in Index
      BY <1>1 DEF TypeOK
    <2>2. NextIndex(head) = IF head + 1 = RingSlots THEN 0 ELSE head + 1
      BY <2>1, NextIndexValue
    <2> QED
      BY <1>3, <2>1, <2>2, RingAssumption DEF Index, Stamped
  <1>5. \A i \in Index : i # head => slots'[i] = slots[i]
    BY <1>1 DEF ApplyE2eHeader, TypeOK
  <1>6. /\ slots'[head].crc = ComputeE2eCrc(seqCounter, slots[head].body)
        /\ slots'[head].counter = seqCounter
        /\ slots'[head].body = slots[head].body
    BY <1>1 DEF ApplyE2eHeader, TypeOK
  <1>7. CrcInv'
    BY <1>2, <1>4, <1>5, <1>6 DEF CrcInv
  <1>8. CounterInv'
    <2>1. tail \in Index /\ head \in Index
      BY <1>1 DEF TypeOK
    <2>2. (tail # WriteLimit)' /\ slots'[tail].counter = expected'
      BY <1>2, <1>3, <1>5, <1>6, <2>1 DEF CounterInv, ApplyE2eHeader, m7Vars
    <2>3. ASSUME NEW i \in Index, Stamped(i)'
          PROVE  IF NextIndex(i) = WriteLimit'
                 THEN seqCounter' = NextCounter(slots'[i].counter)
                 ELSE slots'[NextIndex(i)].counter = NextCounter(slots'[i].counter)
      <3>1. CASE i = head
        BY <1>3, <1>6, <3>1 DEF ApplyE2eHeader
      <3>2. CASE i # head
        <4>1. Stamped(i) /\ slots'[i] = slots[i]
          BY <1>4, <1>5, <2>3, <3>2
        <4>2. NextIndex(i) # WriteLimit'
          BY <1>3, <2>1, <3>2, NextIndexValue DEF Index
        <4>3. CASE NextIndex(i) = head
          BY <1>2, <1>3, <1>6, <4>1, <4>2, <4>3 DEF CounterInv
        <4>4. CASE NextIndex(i) # head
          <5>1. slots'[NextIndex(i)] = slots[NextIndex(i)]
            BY <1>5, <4>4, NextIndexValue
          <5> QED
            BY <1>2, <1>3, <4>1, <4>2, <4>4, <5>1 DEF CounterInv
        <4> QED
          BY <4>3, <4>4
      <3> QED
        BY <3>1, <3>2
    <2> QED
      BY <1>3, <2>2, <2>3 DEF CounterInv
  <1>9. CopyInv'
    BY <1>1, <1>2, <1>3, <1>5 DEF CopyInv, ApplyE2eHeader, m7Vars, TypeOK
  <1>10. RoomInv' /\ BodyInv' /\ MagicInv'
    BY <1>2, <1>6 DEF RoomInv, RingFull, BodyInv, MagicInv, ApplyE2eHeader, m7Vars
  <1> QED
    BY <1>1, <1>7, <1>8, <1>9, <1>10 DEF RingInv, ApplyE2eHeader, m7Vars

\* Advancing head publishes the slot that was stamped, and nothing else.
LEMMA SendPublishRing == RingInv /\ SendPublish => RingInv'
  <1> SUFFICES ASSUME RingInv, SendPublish PROVE RingInv'
    OBVIOUS
  <1> USE DEF Initialised
  <1>1. TypeOK /\ TypeOK'
    BY TypeStep DEF RingInv, Next, Send
  <1>2. RoomInv /\ CrcInv /\ CounterInv /\ CopyInv /\ BodyInv /\ MagicInv
    BY DEF SendPublish, RingInv
  <1>3. WriteLimit' = WriteLimit /\ tail' = tail /\ slots' = slots
        /\ head' # tail
    BY <1>2 DEF SendPublish, WriteLimit, RoomInv, RingFull
  <1>4. CrcInv' /\ CounterInv'
    BY <1>2, <1>3 DEF CrcInv, CounterInv, Stamped, SendPublish, m7Vars
  <1>5. CopyInv'
    BY <1>2, <1>3 DEF CopyInv, SendPublish, m7Vars
  <1>6. RoomInv' /\ BodyInv' /\ MagicInv'
    BY <1>2 DEF RoomInv, BodyInv, MagicInv, SendPublish, m7Vars
  <1> QED
    BY <1>1, <1>4, <1>5, <1>6 DEF RingInv, SendPublish, m7Vars

\* A step that changes neither the ring nor the counters keeps the stamped run.
LEMMA SameRing ==
  ASSUME CrcInv, CounterInv, UNCHANGED <<slots, tail, seqCounter, expected>>,
         WriteLimit' = WriteLimit
  PROVE  CrcInv' /\ CounterInv'
  BY DEF CrcInv, CounterInv, Stamped

\* Calls that return an error, and the start of a Send(), keep the ring.
LEMMA CallRing ==
  ASSUME RingInv,
         \/ InitAgain
         \/ SendDown
         \/ \E e \in LargeEvent : SendLarge(e)
         \/ \E e \in Event : SendFull(e) \/ SendBegin(e)
  PROVE  RingInv'
  <1> USE DEF Initialised
  <1>1. TypeOK /\ TypeOK'
    BY TypeStep DEF RingInv, Next, Send
  <1>2. UNCHANGED <<ringVars, seqCounter, m7Vars>> /\ WriteLimit' = WriteLimit
    BY DEF InitAgain, SendDown, SendLarge, SendFull, SendBegin, WriteLimit, ringVars
  <1>3. CASE pc' = pc
    BY <1>1, <1>2, <1>3, SameRing
       DEF RingInv, MagicInv, RoomInv, RingFull, CopyInv, BodyInv, ringVars, m7Vars,
           InitAgain, SendDown, SendLarge, SendFull, SendBegin
  <1>4. CASE pc' # pc
    <2>1. pc = "idle" /\ pc' = "write" /\ ~RingFull /\ ev' \in Event
      BY <1>4 DEF InitAgain, SendDown, SendLarge, SendFull, SendBegin
    <2> QED
      BY <1>1, <1>2, <2>1, SameRing
         DEF RingInv, MagicInv, RoomInv, RingFull, CopyInv, BodyInv, ringVars, m7Vars
  <1> QED
    BY <1>3, <1>4

\* The M7 copies the slot at tail, which nobody writes while it is stamped.
LEMMA M7ReadRing ==
  ASSUME RingInv, M7ReadHeader \/ M7ReadBody
  PROVE  RingInv'
  <1> USE DEF Initialised
  <1>1. TypeOK /\ TypeOK'
    BY TypeStep DEF RingInv, Next, M7
  <1>2. Initialised
    BY DEF M7ReadHeader, M7ReadBody, RingInv, MagicInv
  <1>3. RoomInv /\ CrcInv /\ CounterInv /\ CopyInv /\ BodyInv /\ MagicInv
    BY <1>2 DEF RingInv
  <1>4. UNCHANGED <<ringVars, a53Vars, expected, m7rc>> /\ m7pc' \in {"body", "verify"}
    BY DEF M7ReadHeader, M7ReadBody
  <1>5. CrcInv' /\ CounterInv'
    BY <1>3, <1>4, SameRing DEF ringVars, a53Vars, WriteLimit
  <1>6. CopyInv'
    <2>1. CASE M7ReadHeader
      BY <1>1, <2>1 DEF M7ReadHeader, CopyInv, ringVars, TypeOK, Slot
    <2>2. CASE M7ReadBody
      BY <1>1, <1>3, <2>2 DEF M7ReadBody, CopyInv, ringVars, TypeOK, Slot
    <2> QED
      BY <2>1, <2>2
  <1>7. RoomInv' /\ BodyInv' /\ MagicInv'
    BY <1>2, <1>3, <1>4 DEF RoomInv, RingFull, BodyInv, MagicInv, ringVars, a53Vars
  <1> QED
    BY <1>1, <1>4, <1>5, <1>6, <1>7 DEF RingInv

\* What the M7 verifies is the slot at tail: it is stamped, so it carries the
\* expected counter and its own CRC, and the verdict is "ok".
LEMMA VerifyOk ==
  ASSUME RingInv, M7Verify
  PROVE  /\ Initialised
         /\ VerifyE2e(m7slot, expected) = "ok"
         /\ m7slot.body = slots[tail].body
         /\ Stamped(tail)
         /\ head # tail
  <1>1. Initialised
    BY DEF M7Verify, RingInv, MagicInv
  <1>2. TypeOK /\ RoomInv /\ CrcInv /\ CounterInv /\ CopyInv
    BY <1>1 DEF RingInv
  <1>3. /\ head # tail
        /\ m7slot.crc = slots[tail].crc
        /\ m7slot.counter = slots[tail].counter
        /\ m7slot.body = slots[tail].body
    BY <1>2 DEF M7Verify, CopyInv
  <1>4. tail # WriteLimit
    BY <1>2, <1>3 DEF WriteLimit, RoomInv, RingFull
  <1>5. head \in Index /\ tail \in Index /\ WriteLimit \in Index
    BY <1>2, NextIndexValue DEF TypeOK, WriteLimit
  <1>6. Stamped(tail)
    BY <1>4, <1>5 DEF Stamped, Index
  <1> QED
    BY <1>1, <1>2, <1>3, <1>4, <1>5, <1>6 DEF VerifyE2e, CrcInv, CounterInv

\* Freeing the slot at tail leaves the rest of the stamped run, which starts
\* with the counter the M7 expects next.
LEMMA M7VerifyRing == RingInv /\ M7Verify => RingInv'
  <1> SUFFICES ASSUME RingInv, M7Verify PROVE RingInv'
    OBVIOUS
  <1>1. TypeOK /\ TypeOK'
    BY TypeStep DEF RingInv, Next, M7
  <1>2. Initialised /\ Stamped(tail) /\ head # tail
    BY VerifyOk
  <1>3. RoomInv /\ CrcInv /\ CounterInv /\ CopyInv /\ BodyInv /\ MagicInv
    BY <1>2 DEF RingInv
  <1>4. /\ tail' = NextIndex(tail) /\ expected' = NextCounter(expected)
        /\ m7pc' = "poll" /\ m7rc' = "ok"
        /\ UNCHANGED <<slots, head, magic, a53Vars>>
    BY VerifyOk DEF M7Verify
  <1>5. WriteLimit' = WriteLimit /\ head \in Index /\ tail \in Index
        /\ WriteLimit \in Index
    BY <1>1, <1>4, NextIndexValue DEF WriteLimit, a53Vars, TypeOK
  <1>6. tail # WriteLimit
    BY <1>2, <1>5 DEF Stamped, Index
  <1>7. \A i \in Index : Stamped(i)' <=> Stamped(i) /\ i # tail
    <2>1. NextIndex(tail) = IF tail + 1 = RingSlots THEN 0 ELSE tail + 1
      BY <1>5, NextIndexValue
    <2> QED
      BY <1>4, <1>5, <1>6, <2>1, RingAssumption DEF Stamped, Index
  <1>8. CrcInv'
    BY <1>3, <1>4, <1>7 DEF CrcInv
  <1>9. CounterInv'
    <2>1. IF NextIndex(tail) = WriteLimit
          THEN seqCounter = NextCounter(expected)
          ELSE slots[NextIndex(tail)].counter = NextCounter(expected)
      BY <1>2, <1>3, <1>5, <1>6 DEF CounterInv
    <2> QED
      BY <1>3, <1>4, <1>5, <1>7, <2>1 DEF CounterInv, a53Vars
  <1>10. CopyInv' /\ BodyInv' /\ MagicInv'
    BY <1>2, <1>3, <1>4 DEF CopyInv, BodyInv, MagicInv, a53Vars, Initialised
  <1>11. RoomInv'
    <2>1. NextIndex(head) # NextIndex(tail)
      BY <1>2, <1>5, NextIndexValue DEF Index
    <2> QED
      BY <1>4, <2>1 DEF RoomInv, RingFull
  <1> QED
    BY <1>1, <1>4, <1>8, <1>9, <1>10, <1>11 DEF RingInv

\* Every step keeps the ring invariant.
LEMMA RingStep == RingInv /\ [Next]_vars => RingInv'
  <1> SUFFICES ASSUME RingInv, [Next]_vars PROVE RingInv'
    OBVIOUS
  <1>1. CASE InitZero
    <2>1. TypeOK'
      BY TypeStep DEF RingInv
    <2> QED
      BY <1>1, <2>1 DEF InitZero, RingInv, MagicInv, Initialised, m7Vars
  <1>2. CASE UNCHANGED vars
    <2>1. TypeOK'
      BY TypeStep DEF RingInv
    <2> USE <1>2 DEF vars, ringVars, a53Vars, m7Vars
    <2>2. WriteLimit' = WriteLimit /\ Initialised' = Initialised
      BY DEF WriteLimit, Initialised
    <2> QED
      BY <2>1, <2>2, SameRing
         DEF RingInv, MagicInv, RoomInv, RingFull, CopyInv, BodyInv
  <1> QED
    BY <1>1, <1>2, InitMagicRing, CallRing, SendWriteRing, ApplyHeaderRing,
       SendPublishRing, M7ReadRing, M7VerifyRing DEF Next, Send, M7

\* The ring invariant holds for every ring size and counter width.
THEOREM RingCorrect == SafeSpec => []RingInv
  <1> QED
    BY RingInit, RingStep, PTL DEF SafeSpec

\* The M7 never meets a checksum or a sequence error: no torn slot, no gap in
\* the counters, whatever Send() refused and however often ring and counter
\* wrapped.
THEOREM NoViolation == SafeSpec => []NoE2eViolation
  <1>1. RingInv => NoE2eViolation
    BY DEF RingInv, NoE2eViolation
  <1> QED
    BY <1>1, RingCorrect, PTL

-----------------------------------------------------------------------------
(* Slots that wait are left alone.                                         *)

\* The slots that wait are among the stamped ones, and head is not one of them.
LEMMA WaitingPlace ==
  ASSUME TypeOK, NEW i \in Index, Waiting(i)
  PROVE  i # head
  BY RingAssumption DEF TypeOK, Index, Waiting, At, Count

\* Send() writes slots[head] only, and head does not wait: a slot the M7 has
\* not released never changes.
THEOREM StableSlots == SafeSpec => WaitingSlotsStable
  <1> DEFINE Stable == magic = "present" =>
                         \A i \in Index : Waiting(i) => slots'[i] = slots[i]
  <1>1. RingInv /\ [Next]_vars => Stable
    <2> SUFFICES ASSUME RingInv, [Next]_vars, magic = "present",
                        NEW i \in Index, Waiting(i)
                 PROVE  slots'[i] = slots[i]
      OBVIOUS
    <2>1. TypeOK /\ Initialised
      BY DEF RingInv, MagicInv
    <2>2. i # head
      BY <2>1, WaitingPlace
    <2>3. CASE SendWrite
      BY <2>1, <2>2, <2>3 DEF SendWrite, TypeOK
    <2>4. CASE ApplyE2eHeader
      BY <2>1, <2>2, <2>4 DEF ApplyE2eHeader, TypeOK
    <2>5. CASE ~SendWrite /\ ~ApplyE2eHeader
      <3>1. slots' = slots
        BY <2>1, <2>5 DEF Next, Send, M7, vars, InitZero, InitMagic, InitAgain,
           SendDown, SendLarge, SendFull, SendBegin, SendPublish, M7ReadHeader,
           M7ReadBody, M7Verify, ringVars, Initialised
      <3> QED
        BY <3>1
    <2> QED
      BY <2>3, <2>4, <2>5
  <1>2. SafeSpec => [][Stable]_vars
    BY <1>1, RingCorrect, PTL DEF SafeSpec
  <1> QED
    BY <1>2 DEF WaitingSlotsStable

-----------------------------------------------------------------------------
(* The ring implements the channel.                                        *)

\* A function on 1..n is a sequence of length n.
LEMMA FunctionIsSeq ==
  ASSUME NEW S, NEW n \in Nat, NEW f \in [1 .. n -> S]
  PROVE  f \in Seq(S) /\ Len(f) = n
  OBVIOUS

\* The events in the ring form a sequence of Count events.
LEMMA PendingSeq ==
  ASSUME TypeOK, magic = "present"
  PROVE  /\ Count \in 0 .. RingSlots - 1
         /\ \A k \in 0 .. Count - 1 : At(k) \in Index
         /\ Pending \in Seq(Body)
         /\ Len(Pending) = Count
         /\ \A k \in 1 .. Count : Pending[k] = slots[At(k - 1)].body
  <1>1. head \in Index /\ tail \in Index /\ slots \in [Index -> Slot]
    BY DEF TypeOK
  <1>2. Count \in 0 .. RingSlots - 1
    BY <1>1, RingAssumption DEF Count, Index
  <1>3. \A k \in 0 .. Count - 1 : At(k) \in Index
    BY <1>1, <1>2, RingAssumption DEF At, Index
  <1>4. \A k \in 1 .. Count : slots[At(k - 1)].body \in Body
    <2> SUFFICES ASSUME NEW k \in 1 .. Count PROVE slots[At(k - 1)].body \in Body
      OBVIOUS
    <2>1. At(k - 1) \in Index
      BY <1>2, <1>3
    <2> QED
      BY <1>1, <2>1 DEF Slot
  <1>5. Pending = [k \in 1 .. Count |-> slots[At(k - 1)].body]
    BY DEF Pending
  <1>6. Pending \in [1 .. Count -> Body]
    BY <1>4, <1>5
  <1>7. Pending \in Seq(Body) /\ Len(Pending) = Count
    BY <1>2, <1>6
  <1> QED
    BY <1>2, <1>3, <1>5, <1>7

\* A full ring is a full channel, and a ring with room a channel with room.
LEMMA FullIsFull ==
  ASSUME TypeOK
  PROVE  RingFull <=> Count = RingSlots - 1
  <1>1. head \in Index /\ tail \in Index
    BY DEF TypeOK
  <1>2. NextIndex(head) = IF head + 1 = RingSlots THEN 0 ELSE head + 1
    BY <1>1, NextIndexValue
  <1> QED
    BY <1>1, <1>2, RingAssumption DEF RingFull, Count, Index

\* Publishing a slot appends its event to the channel.
LEMMA PublishAccepts ==
  ASSUME RingInv, RingInv', SendPublish
  PROVE  Channel!Accept(ev) /\ ev \in Event
  <1>1. TypeOK /\ TypeOK' /\ Initialised /\ magic = "present" /\ magic' = "present"
    BY DEF RingInv, SendPublish, MagicInv, Initialised
  <1>2. ~RingFull /\ slots[head].body = ev /\ ev \in Event
    BY <1>1 DEF RingInv, SendPublish, RoomInv, BodyInv
  <1>3. head \in Index /\ tail \in Index /\ tail' = tail /\ slots' = slots
        /\ head' = NextIndex(head)
    BY <1>1 DEF TypeOK, SendPublish
  <1>4. NextIndex(head) = IF head + 1 = RingSlots THEN 0 ELSE head + 1
    BY <1>3, NextIndexValue
  <1>5. Count' = Count + 1 /\ Count < RingSlots - 1 /\ Count \in Nat
    BY <1>2, <1>3, <1>4, RingAssumption DEF Count, Index, RingFull
  <1>6. At(Count) = head /\ \A k \in 0 .. Count : At(k)' = At(k)
    BY <1>3, <1>5, RingAssumption DEF At, Count, Index
  <1>7. /\ Pending \in Seq(Body) /\ Len(Pending) = Count
        /\ \A k \in 1 .. Count : Pending[k] = slots[At(k - 1)].body
    BY <1>1, PendingSeq
  <1>8. Pending' = Append(Pending, ev)
    <2>1. Pending' = [k \in 1 .. Count + 1 |-> slots[At(k - 1)].body]
      <3>1. Pending' = [k \in 1 .. Count' |-> slots'[At(k - 1)'].body]
        BY <1>1 DEF Pending
      <3>2. \A k \in 1 .. Count + 1 : At(k - 1)' = At(k - 1)
        BY <1>5, <1>6
      <3> QED
        BY <1>3, <1>5, <3>1, <3>2
    <2>2. slots[At(Count)].body = ev /\ ev \in Body
      BY <1>2, <1>6 DEF Body
    <2>3. /\ Append(Pending, ev) \in Seq(Body)
          /\ Len(Append(Pending, ev)) = Count + 1
          /\ \A k \in 1 .. Count : Append(Pending, ev)[k] = Pending[k]
          /\ Append(Pending, ev)[Count + 1] = ev
      <3>1. /\ Append(Pending, ev) \in Seq(Body)
            /\ Len(Append(Pending, ev)) = Len(Pending) + 1
            /\ \A k \in 1 .. Len(Pending) : Append(Pending, ev)[k] = Pending[k]
            /\ Append(Pending, ev)[Len(Pending) + 1] = ev
        BY <1>7, <2>2, AppendProperties
      <3> QED
        BY <1>7, <3>1
    <2>4. ASSUME NEW k \in 1 .. Count + 1
          PROVE  slots[At(k - 1)].body = Append(Pending, ev)[k]
      <3>1. CASE k = Count + 1
        <4>1. k - 1 = Count
          BY <1>5, <3>1
        <4> QED
          BY <2>2, <2>3, <3>1, <4>1
      <3>2. CASE k # Count + 1
        <4>1. k \in 1 .. Count
          BY <1>5, <3>2
        <4> QED
          BY <1>7, <2>3, <4>1
      <3> QED
        BY <3>1, <3>2
    <2>5. \A k \in 1 .. Count + 1 : Append(Pending, ev)[k] \in Body
      BY <1>5, <2>3
    <2>6. Pending' \in [1 .. Count + 1 -> Body]
      BY <2>1, <2>4, <2>5
    <2>7. Pending' \in Seq(Body) /\ Len(Pending') = Count + 1
      BY <1>5, <2>6, FunctionIsSeq
    <2>8. \A k \in 1 .. Count + 1 : Pending'[k] = Append(Pending, ev)[k]
      BY <2>1, <2>4
    <2> QED
      BY <2>3, <2>7, <2>8, SeqEqual, Zenon
  <1> QED
    BY <1>2, <1>5, <1>7, <1>8 DEF Channel!Accept, SendPublish, m7Vars

\* A verified slot delivers the oldest event of the channel.
LEMMA VerifyDelivers ==
  ASSUME RingInv, RingInv', M7Verify
  PROVE  Channel!Deliver
  <1>1. /\ head # tail /\ m7slot.body = slots[tail].body
        /\ VerifyE2e(m7slot, expected) = "ok" /\ Initialised
    BY VerifyOk
  <1>2. TypeOK /\ TypeOK' /\ magic = "present" /\ magic' = "present"
    BY <1>1 DEF RingInv, M7Verify, MagicInv
  <1>3. head \in Index /\ tail \in Index /\ tail' = NextIndex(tail)
        /\ UNCHANGED <<slots, head, rc>> /\ out' = m7slot.body
    BY <1>1, <1>2 DEF TypeOK, M7Verify, a53Vars
  <1>4. NextIndex(tail) = IF tail + 1 = RingSlots THEN 0 ELSE tail + 1
    BY <1>3, NextIndexValue
  <1>5. Count > 0 /\ Count' = Count - 1 /\ Count \in Nat
    BY <1>1, <1>3, <1>4, RingAssumption DEF Count, Index
  <1>6. At(0) = tail /\ \A k \in 0 .. Count - 2 : At(k)' = At(k + 1)
    BY <1>3, <1>4, <1>5, RingAssumption DEF At, Count, Index
  <1>7. /\ Pending \in Seq(Body) /\ Len(Pending) = Count
        /\ \A k \in 1 .. Count : Pending[k] = slots[At(k - 1)].body
    BY <1>2, PendingSeq
  <1>8. Pending' = Tail(Pending)
    <2>1. Pending' = [k \in 1 .. Count - 1 |-> slots[At(k)].body]
      <3>1. Pending' = [k \in 1 .. Count' |-> slots'[At(k - 1)'].body]
        BY <1>2 DEF Pending
      <3>2. \A k \in 1 .. Count - 1 : At(k - 1)' = At(k)
        BY <1>5, <1>6
      <3> QED
        BY <1>3, <1>5, <3>1, <3>2
    <2>2. Pending # <<>>
      BY <1>5, <1>7
    <2>a. Pending \in Seq(Body) /\ Len(Pending) = Count
      BY <1>7
    <2>b. /\ Tail(Pending) \in Seq(Body)
          /\ Len(Tail(Pending)) = Len(Pending) - 1
          /\ \A k \in 1 .. Len(Tail(Pending)) : Tail(Pending)[k] = Pending[k + 1]
      BY <2>2, <2>a, HeadTailProperties, Zenon
    <2>3. /\ Tail(Pending) \in Seq(Body)
          /\ Len(Tail(Pending)) = Count - 1
          /\ \A k \in 1 .. Count - 1 : Tail(Pending)[k] = Pending[k + 1]
      BY <2>a, <2>b, Zenon
    <2>4. \A k \in 1 .. Count - 1 : Pending[k + 1] = slots[At(k)].body
      BY <1>5, <1>7
    <2>5. ASSUME NEW k \in 1 .. Count - 1 PROVE slots[At(k)].body \in Body
      <3>1. k + 1 \in 1 .. Len(Pending)
        BY <1>5, <1>7
      <3>2. Pending[k + 1] \in Body
        BY <1>7, <3>1
      <3> QED
        BY <2>4, <3>2
    <2>6. Pending' \in [1 .. Count - 1 -> Body]
      BY <2>1, <2>5
    <2>7. Pending' \in Seq(Body) /\ Len(Pending') = Count - 1
      BY <1>5, <2>6, FunctionIsSeq
    <2>8. \A k \in 1 .. Count - 1 : Pending'[k] = Tail(Pending)[k]
      BY <2>1, <2>3, <2>4
    <2> QED
      BY <2>3, <2>7, <2>8, SeqEqual, Zenon
  <1>9. Pending # <<>> /\ Head(Pending) = m7slot.body
    BY <1>1, <1>5, <1>6, <1>7
  <1> QED
    BY <1>3, <1>8, <1>9 DEF Channel!Deliver

\* A step that keeps the ring keeps the channel's queue.
LEMMA SamePending ==
  ASSUME UNCHANGED <<slots, head, tail, magic>>
  PROVE  Pending' = Pending
  BY DEF Pending, Count, At

\* Filling and stamping the slot at head is invisible: it does not wait.
LEMMA WriteInvisible ==
  ASSUME RingInv, RingInv', SendWrite \/ ApplyE2eHeader
  PROVE  Pending' = Pending
  <1>1. TypeOK /\ magic = "present" /\ magic' = "present"
        /\ UNCHANGED <<head, tail>>
    BY DEF RingInv, SendWrite, ApplyE2eHeader, MagicInv, Initialised
  <1>2. \A i \in Index : i # head => slots'[i] = slots[i]
    BY <1>1 DEF SendWrite, ApplyE2eHeader, TypeOK
  <1>3. Count \in 0 .. RingSlots - 1 /\ \A k \in 0 .. Count - 1 : At(k) \in Index
    BY <1>1, PendingSeq
  <1>4. Count' = Count /\ \A k \in 0 .. Count - 1 : At(k)' = At(k)
    BY <1>1 DEF Count, At
  <1>5. \A k \in 1 .. Count : slots'[At(k - 1)'].body = slots[At(k - 1)].body
    <2> SUFFICES ASSUME NEW k \in 1 .. Count
                 PROVE  slots'[At(k - 1)'].body = slots[At(k - 1)].body
      OBVIOUS
    <2>1. k - 1 \in 0 .. Count - 1
      BY <1>3
    <2>2. At(k - 1) \in Index /\ At(k - 1)' = At(k - 1)
      BY <1>3, <1>4, <2>1
    <2>3. Waiting(At(k - 1))
      BY <2>1 DEF Waiting
    <2> QED
      BY <1>1, <1>2, <2>2, <2>3, WaitingPlace
  <1> QED
    BY <1>1, <1>4, <1>5 DEF Pending

\* Every step of the bridge is a step of the channel or leaves it alone.
LEMMA ChannelStep ==
  ASSUME RingInv, RingInv', [Next]_vars
  PROVE  [Channel!Next]_(Channel!vars)
  <1> USE DEF Channel!vars
  <1>1. CASE InitZero
    <2>1. Pending = <<>> /\ Pending' = <<>>
      BY <1>1 DEF InitZero, Pending, RingInv, MagicInv, Initialised
    <2> QED
      BY <1>1, <2>1 DEF InitZero, m7Vars
  <1>2. CASE InitMagic
    <2>1. head = 0 /\ tail = 0 /\ magic # "present"
      BY <1>2 DEF InitMagic, RingInv, MagicInv, Initialised
    <2>2. Count' = 0 /\ magic' = "present"
      BY <1>2, <2>1 DEF InitMagic, Count
    <2>3. Pending = <<>>
      BY <2>1 DEF Pending
    <2>4. Pending' = <<>>
      <3>1. Pending' = [k \in 1 .. 0 |-> slots'[At(k - 1)'].body]
        BY <2>2 DEF Pending
      <3>2. Pending' \in [1 .. 0 -> Body]
        BY <3>1
      <3>3. Pending' \in Seq(Body) /\ Len(Pending') = 0
        BY <3>2, FunctionIsSeq
      <3> QED
        BY <3>3, EmptySeq
    <2> QED
      BY <1>2, <2>3, <2>4 DEF InitMagic, m7Vars, Channel!Next, Channel!Open
  <1>3. CASE InitAgain \/ SendDown \/ \E e \in LargeEvent : SendLarge(e)
    <2>1. UNCHANGED <<slots, head, tail, magic, out>> /\ rc' \in Channel!Refusal
      BY <1>3 DEF InitAgain, SendDown, SendLarge, ringVars, m7Vars, Channel!Refusal
    <2> QED
      BY <2>1, SamePending DEF Channel!Next, Channel!Reject
  <1>4. CASE \E e \in Event : SendFull(e)
    <2>1. UNCHANGED <<slots, head, tail, magic, out>> /\ rc' = "kIpcBufferFull"
          /\ RingFull /\ TypeOK /\ magic = "present"
      BY <1>4 DEF SendFull, ringVars, m7Vars, RingInv, MagicInv, Initialised
    <2>2. Len(Pending) = RingSlots - 1
      BY <2>1, FullIsFull, PendingSeq
    <2> QED
      BY <2>1, <2>2, SamePending DEF Channel!Next, Channel!Full
  <1>5. CASE (\E e \in Event : SendBegin(e)) \/ M7ReadHeader \/ M7ReadBody
    <2>1. UNCHANGED <<slots, head, tail, magic, out, rc>>
      BY <1>5 DEF SendBegin, M7ReadHeader, M7ReadBody, ringVars, m7Vars, a53Vars
    <2> QED
      BY <2>1, SamePending
  <1>6. CASE SendWrite \/ ApplyE2eHeader
    <2>1. UNCHANGED <<out, rc>>
      BY <1>6 DEF SendWrite, ApplyE2eHeader, m7Vars
    <2> QED
      BY <1>6, <2>1, WriteInvisible
  <1>7. CASE SendPublish
    BY <1>7, PublishAccepts DEF Channel!Next
  <1>8. CASE M7Verify
    BY <1>8, VerifyDelivers DEF Channel!Next
  <1>9. CASE UNCHANGED vars
    BY <1>9, SamePending DEF vars, ringVars, a53Vars, m7Vars
  <1> QED
    BY <1>1, <1>2, <1>3, <1>4, <1>5, <1>6, <1>7, <1>8, <1>9 DEF Next, Send, M7

\* The ring with its headers implements the safety part of the FIFO channel
\* of RingSlots - 1 places: exactly once, in order, unaltered, refused only
\* when full.
THEOREM Refinement == SafeSpec => Channel!SafeSpec
  <1>1. Init => Channel!Init
    BY DEF Init, Channel!Init, Pending
  <1> QED
    BY <1>1, ChannelStep, RingCorrect, PTL DEF SafeSpec, Channel!SafeSpec
=============================================================================
