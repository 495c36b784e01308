----------------------------- MODULE IpcBridge ------------------------------
(***************************************************************************)
(* The A53-to-M7 bridge (IpcBridge.cpp): a single-producer single-consumer *)
(* ring of RingSlots slots in shared SRAM, each slot protected by an E2E   *)
(* Profile 5 header.                                                       *)
(*                                                                         *)
(* The producer is the safety loop, which calls Init() once and then       *)
(* Send().  The fences of Send() order its stores, so its visible steps    *)
(* are: load the indices and test for room, fill the slot, stamp the       *)
(* header, advance head.  The consumer, the M7 supervisor, is not in this  *)
(* repository; it is modelled from VerifyE2e(), which it runs on each slot *)
(* it reads, and from the ring layout it shares.  It reads header and body *)
(* in two steps, so a slot that changes under it would be seen torn.       *)
(*                                                                         *)
(* The CRC is the pair of the data it covers: a CRC error is any           *)
(* disagreement between the header and the slot.                           *)
(***************************************************************************)
EXTENDS Integers, Sequences

CONSTANTS Event,       \* events whose payload fits in a slot
          LargeEvent,  \* events with payloadLen > kIpcPayloadBytes
          NoEvent,     \* the body of a zeroed slot
          RingSlots,   \* kIpcRingSlots
          CounterMod   \* 2^8: the counter is a uint8_t

ASSUME RingAssumption == RingSlots \in Nat /\ RingSlots > 1
ASSUME CounterAssumption == CounterMod \in Nat /\ CounterMod > 1

VARIABLES
  slots, head, tail, magic,   \* IpcRingBuffer, in shared SRAM
  seqCounter,                 \* IpcBridge::seqCounter_
  pc,                         \* where the producer is
  ev,                         \* Send()'s argument
  rc,                         \* what the producer's last call returned
  m7pc, m7slot, expected,     \* the consumer: control, its copy, its counter
  m7rc, out                   \* its last verdict, the last event it accepted

ringVars == <<slots, head, tail, magic>>
a53Vars  == <<seqCounter, pc, ev, rc>>
m7Vars   == <<m7pc, m7slot, expected, m7rc, out>>
vars     == <<ringVars, a53Vars, m7Vars>>

Index   == 0 .. RingSlots - 1
Counter == 0 .. CounterMod - 1
Body    == Event \cup {NoEvent}
Slot    == [crc : Counter \X Body, counter : Counter, body : Body]

\* Slip: the index is not masked.
NextIndexUnmasked(i) == i + 1
\* (x + 1) & kIpcRingSlotMask
NextIndex(i) == (i + 1) % RingSlots
\* static_cast<uint8_t>(c + 1)
NextCounter(c) == (c + 1) % CounterMod

ComputeE2eCrc(counter, body) == <<counter, body>>

\* memset(ring_, 0, ...): the CRC of an all-zero slot is zero.
ZeroSlot == [crc |-> ComputeE2eCrc(0, NoEvent), counter |-> 0, body |-> NoEvent]
\* What SRAM holds before anybody wrote to it: a header that does not match.
JunkSlot == [ZeroSlot EXCEPT !.crc = ComputeE2eCrc(1, NoEvent)]

VerifyE2e(slot, expectedCounter) ==
  IF slot.crc # ComputeE2eCrc(slot.counter, slot.body) THEN "kChecksumMismatch"
  ELSE IF slot.counter # expectedCounter THEN "kSequenceError"
  ELSE "ok"

\* The initialised_ flag.
Initialised == pc \notin {"down", "init"}

\* Power-up: the indices in SRAM are arbitrary, the marker is not there.
Init == /\ slots = [i \in Index |-> JunkSlot]
        /\ head \in Index
        /\ tail \in Index
        /\ magic = "absent"
        /\ seqCounter = 0
        /\ pc = "down"
        /\ ev = NoEvent
        /\ rc = "none"
        /\ m7pc = "poll"
        /\ m7slot = ZeroSlot
        /\ expected = 0
        /\ m7rc = "ok"
        /\ out = NoEvent

-----------------------------------------------------------------------------
(* The producer.                                                           *)

\* Init(): zero the ring ...
InitZero == /\ pc = "down"
            /\ slots' = [i \in Index |-> ZeroSlot]
            /\ head' = 0
            /\ tail' = 0
            /\ magic' = "absent"
            /\ pc' = "init"
            /\ UNCHANGED <<seqCounter, ev, rc, m7Vars>>

\* ... then, after the fence, advertise it.
InitMagic == /\ pc = "init"
             /\ magic' = "present"
             /\ seqCounter' = 0
             /\ pc' = "idle"
             /\ rc' = "ok"
             /\ UNCHANGED <<slots, head, tail, ev, m7Vars>>

\* Slip: a second Init() is not refused and zeroes a ring that is in use.
InitAgainZeroes == /\ pc = "idle"
                   /\ slots' = [i \in Index |-> ZeroSlot]
                   /\ head' = 0
                   /\ tail' = 0
                   /\ seqCounter' = 0
                   /\ rc' = "ok"
                   /\ UNCHANGED <<magic, pc, ev, m7Vars>>
\* Init() when already initialised: refused, the ring is left alone.
InitAgain == /\ pc = "idle"
             /\ rc' = "kAlreadyRegistered"
             /\ UNCHANGED <<ringVars, seqCounter, pc, ev, m7Vars>>

\* Send() before Init().
SendDown == /\ pc = "down"
            /\ rc' = "kNotInitialized"
            /\ UNCHANGED <<ringVars, seqCounter, pc, ev, m7Vars>>

\* Send() of an event whose payload does not fit.
SendLarge(e) == /\ pc = "idle"
                /\ e \in LargeEvent
                /\ rc' = "kInvalidArgument"
                /\ UNCHANGED <<ringVars, seqCounter, pc, ev, m7Vars>>

\* Slip: one slot too many is kept free.
RingFullEarly == NextIndex(NextIndex(head)) = tail
\* nextHead == tail
RingFull == NextIndex(head) = tail

\* Slip: the header is stamped before the test for room.
SendFullStamped(e) == /\ pc = "idle"
                      /\ RingFull
                      /\ rc' = "kIpcBufferFull"
                      /\ seqCounter' = NextCounter(seqCounter)
                      /\ UNCHANGED <<ringVars, pc, ev, m7Vars>>
\* Send() to a full ring: refused before the sequence counter moves.
SendFull(e) == /\ pc = "idle"
               /\ RingFull
               /\ rc' = "kIpcBufferFull"
               /\ UNCHANGED <<ringVars, seqCounter, pc, ev, m7Vars>>

\* Send(), room for one more.
SendBegin(e) == /\ pc = "idle"
                /\ ~RingFull
                /\ ev' = e
                /\ pc' = "write"
                /\ UNCHANGED <<ringVars, seqCounter, rc, m7Vars>>

\* The body of slots[head] is written; its old header still stands.
SendWrite == /\ pc = "write"
             /\ slots' = [slots EXCEPT ![head].body = ev]
             /\ pc' = "stamp"
             /\ UNCHANGED <<head, tail, magic, seqCounter, ev, rc, m7Vars>>

ApplyE2eHeader == /\ pc = "stamp"
                  /\ slots' = [slots EXCEPT ![head] =
                       [crc     |-> ComputeE2eCrc(seqCounter, slots[head].body),
                        counter |-> seqCounter,
                        body    |-> slots[head].body]]
                  /\ seqCounter' = NextCounter(seqCounter)
                  /\ pc' = "publish"
                  /\ UNCHANGED <<head, tail, magic, ev, rc, m7Vars>>

\* After the fence: the slot becomes visible to the M7.
SendPublish == /\ pc = "publish"
               /\ head' = NextIndex(head)
               /\ pc' = "idle"
               /\ rc' = "ok"
               /\ UNCHANGED <<slots, tail, magic, seqCounter, ev, m7Vars>>

Send == \/ SendDown
        \/ \E e \in LargeEvent : SendLarge(e)
        \/ \E e \in Event : SendFull(e) \/ SendBegin(e)
        \/ SendWrite \/ ApplyE2eHeader \/ SendPublish

-----------------------------------------------------------------------------
(* The consumer.                                                           *)

M7ReadHeader == /\ m7pc = "poll"
                /\ magic = "present"
                /\ head # tail
                /\ m7slot' = [m7slot EXCEPT !.crc = slots[tail].crc,
                                            !.counter = slots[tail].counter]
                /\ m7pc' = "body"
                /\ UNCHANGED <<ringVars, a53Vars, expected, m7rc, out>>

M7ReadBody == /\ m7pc = "body"
              /\ m7slot' = [m7slot EXCEPT !.body = slots[tail].body]
              /\ m7pc' = "verify"
              /\ UNCHANGED <<ringVars, a53Vars, expected, m7rc, out>>

\* VerifyE2e() decides.  The slot verifies: take the event and free the slot.
\* It does not: an E2E violation, after which the supervisor stops the vehicle.
M7Verify ==
  LET verdict == VerifyE2e(m7slot, expected) IN
  /\ m7pc = "verify"
  /\ m7rc' = verdict
  /\ IF verdict = "ok"
     THEN /\ out' = m7slot.body
          /\ expected' = NextCounter(expected)
          /\ tail' = NextIndex(tail)
          /\ m7pc' = "poll"
     ELSE m7pc' = "stopped" /\ UNCHANGED <<out, expected, tail>>
  /\ UNCHANGED <<slots, head, magic, a53Vars, m7slot>>

M7 == M7ReadHeader \/ M7ReadBody \/ M7Verify

Next == InitZero \/ InitMagic \/ InitAgain \/ Send \/ M7

(* The M7 polls for ever; the safety loop, once inside Send(), runs to its  *)
(* end.  Nobody promises that the loop sends anything.                      *)
Fairness == WF_vars(M7) /\ WF_vars(SendWrite \/ ApplyE2eHeader \/ SendPublish)

SafeSpec == Init /\ [][Next]_vars

Spec == SafeSpec /\ Fairness

-----------------------------------------------------------------------------
(* Properties.                                                             *)

\* The indices stay inside the ring and the counters inside their byte, whatever
\* Send() and the M7 do.
TypeOK == /\ slots \in [Index -> Slot]
          /\ head \in Index
          /\ tail \in Index
          /\ magic \in {"absent", "present"}
          /\ seqCounter \in Counter
          /\ pc \in {"down", "init", "idle", "write", "stamp", "publish"}
          /\ ev \in Body
          /\ m7pc \in {"poll", "body", "verify", "stopped"}
          /\ m7slot \in Slot
          /\ expected \in Counter
          /\ out \in Body

\* No slot the producer published ever fails VerifyE2e() at the M7: neither a
\* torn slot nor a gap in the counters, even when Send() refused events in
\* between and when the ring and the counter have wrapped.
NoE2eViolation == m7rc = "ok"

\* How many slots wait for the M7.
Count == IF head >= tail THEN head - tail ELSE head - tail + RingSlots

\* The k-th slot from tail on, k in 0..RingSlots-1.
At(k) == IF tail + k < RingSlots THEN tail + k ELSE tail + k - RingSlots

\* Slot i holds an event the M7 has not released.
Waiting(i) == \E k \in 0 .. Count - 1 : i = At(k)

\* Send() never touches a slot between tail and head: once advertised, a
\* slot that waits keeps its content until the M7 has moved tail past it.
WaitingSlotsStable ==
  [][magic = "present" =>
       \A i \in Index : Waiting(i) => slots'[i] = slots[i]]_vars

\* The events in the ring, oldest first.
Pending == IF magic = "present" THEN [k \in 1 .. Count |-> slots[At(k - 1)].body]
                                ELSE <<>>

(* Why no slot ever fails to verify.  Between tail and WriteLimit lie the   *)
(* slots whose header is stamped: those published and, between the stamp    *)
(* and the advance of head, one more.                                       *)

WriteLimit == IF pc = "publish" THEN NextIndex(head) ELSE head

Stamped(i) == IF tail <= WriteLimit THEN tail <= i /\ i < WriteLimit
                                    ELSE tail <= i \/ i < WriteLimit

\* The producer only writes when there is room.
RoomInv == pc \in {"write", "stamp", "publish"} => ~RingFull

\* A stamped slot carries the CRC of its content.
CrcInv == \A i \in Index : Stamped(i) =>
            slots[i].crc = ComputeE2eCrc(slots[i].counter, slots[i].body)

\* The counters of the stamped slots follow one another without a gap, from
\* the one the M7 expects to the one the producer will use next.
CounterInv ==
  /\ tail = WriteLimit => seqCounter = expected
  /\ tail # WriteLimit => slots[tail].counter = expected
  /\ \A i \in Index : Stamped(i) =>
       IF NextIndex(i) = WriteLimit
       THEN seqCounter = NextCounter(slots[i].counter)
       ELSE slots[NextIndex(i)].counter = NextCounter(slots[i].counter)

\* The consumer's copy is the slot at tail.
CopyInv == /\ m7pc \in {"body", "verify"} =>
                /\ head # tail
                /\ m7slot.crc = slots[tail].crc
                /\ m7slot.counter = slots[tail].counter
           /\ m7pc = "verify" => m7slot.body = slots[tail].body

\* A body the producer wrote is an event, and Send()'s argument is in the slot.
BodyInv == /\ pc \in {"write", "stamp", "publish"} => ev \in Event
           /\ pc \in {"stamp", "publish"} => slots[head].body = ev

\* The marker is there exactly when the producer has left Init(); until then
\* the M7 has taken nothing.
MagicInv == /\ magic = "present" <=> Initialised
            /\ ~Initialised => m7pc = "poll" /\ expected = 0
            /\ pc = "init" => head = 0 /\ tail = 0

\* The inductive invariant of the bridge: the ring between tail and head is
\* well stamped, without a gap in the counters, and the consumer reads it
\* before it can change.
RingInv == /\ TypeOK
           /\ MagicInv
           /\ m7rc = "ok"
           /\ m7pc # "stopped"
           /\ Initialised => RoomInv /\ CrcInv /\ CounterInv /\ CopyInv /\ BodyInv

-----------------------------------------------------------------------------
(* The abstract view.                                                      *)

Channel == INSTANCE FifoChannel WITH queue <- Pending, Capacity <- RingSlots - 1,
                                     FullCode <- "kIpcBufferFull"

\* The ring with its headers implements the bounded FIFO: exactly once, in
\* order, unaltered, kIpcBufferFull only when RingSlots - 1 events wait, and
\* every accepted event is in the end delivered.
ImplementsChannel == Channel!Spec
=============================================================================
