# SOA gateway: TLA+ models, checks and proofs

The gateway connects an AI domain controller (Ethernet, SOME/IP) with the safety
supervisor of the vehicle (a Cortex-M7). It runs on a Cortex-A53 and is written without
locks and without dynamic memory: what its parts share are rings, tables and atomics. Its
correctness therefore rests on the order of loads and stores between threads, on what
happens when a ring or a table is full, and on time. This directory models those parts
in TLA+, checks the models with TLC, and proves with TLAPS, for every value of the
constants, every safety property that TLC checks on an instance.

## 1. The system

```
network receive thread: RateLimiter.Admit -> HseAdapter.VerifyMac
                        -> IamSecurityController.Authorise
                        -> DdsQosEnforcer.ValidateSample (DDS topics)
                                              | PublishEvent
                                              v
                              SoaServiceManager event ring
                                              | ProcessEvents   (safety loop, 10 ms)
                                              v
                       SafetyArbitrator: IngestFault / RecordHeartbeat
                         monitor -> fault mask -> degradation matrix -> transition
                                              | Send            (safety loop)
                                              v
                              IpcBridge ring in shared SRAM
                                              | VerifyE2e       (M7, other core)
                                              v
                                   M7 safety supervisor
```

Threads (`docs/architecture.md` section 5): network receive (event driven), main safety
loop (10 ms), diagnostic drain (1 s), rate limiter refill (1 ms), maintenance, and the M7.
The code that calls the gates of the network thread in turn is not in the repository.

### Inventory

| Component | State | Operations | Hard behaviours | What makes it correct |
|---|---|---|---|---|
| `IpcBridge` | ring (head, tail, marker, slots), sequence counter | `Init`, `Send`, `VerifyE2e` (run by the M7) | two cores, no lock; full ring; wrap of index and counter; order of marker and slots | the M7 sees each accepted event once, in order, untorn, with the counter it expects |
| `SafetyArbitrator`: fault monitor | per domain: health, last heartbeat, fault count; two bitmasks | `IngestFault`, `IngestSoaEvent`, `InjectFault`, `RecordHeartbeat`, `ScanTimeouts`, `UpdateBitmasks` | several atomics per record; clock read once per scan; reports "from any thread" | health and count agree; silence is detected in bounded time; who is alive throughout a cycle is not in its mask |
| `SafetyArbitrator`: degradation matrix | none | `ComputeRequiredState`, caps, trigger domain | combinations of faults; threshold of mandatory domains | the documented table |
| `SafetyArbitrator`: state machine | state, last command, two counters, log, listeners | `Arbitrate`, `ExecuteTransition`, `SendCommandToM7`, `LogTransition`, `RegisterListener`, `DrainTransitionLog` | send fails; log wraps; drain overlaps a transition | all records speak of the same transition; the M7 has the last command unless the bridge refused it |
| `SafetyArbitrator`: envelope validators | none | four comparisons | none | not modelled |
| `SoaServiceManager`: dispatch | event ring, subscriber table | `Init`, `PublishEvent`, `Subscribe`, `ProcessEvents` | references into the ring; table grows during a pass; full ring | FIFO; stable event; complete fan-out |
| `SoaServiceManager`: registry | table, commit index, lifecycle state | `RegisterService`, `OfferService`, `StopService`, `FindService` | visibility of an entry; two-call stop that any thread may call; the state is read twice | unique complete entries; no single call takes an offered service down; stopping completes |
| `RateLimiter` | token buckets | `Init`, `Admit`, `RefillAll`, `EvictIdle` | charge, refill and eviction on three threads; a claimed slot is named later; a refill pass credits old time | one bucket per source; bounded admission for as long as a source keeps its bucket; a source within its rate finds a token |
| `DeadSubscriberMonitor` | liveness table | `Init`, `Register`, `RecordHeartbeat`, `ScanAndEvict`, `Deregister`, `GetStats` | heartbeats race the scan; entries change hands; callbacks use the table | only the dead are evicted, once, with their callback, and in bounded time |
| `IamSecurityController` | roles, policies, audit ring | `RegisterRole`, `AddPolicy`, `Authorise`, `DrainAuditLog` | overlapping policies; a drain beside the writer; ring without a test for room | first match decides and stays decided; the trail is exact until it overruns |
| `DdsQosEnforcer` | profiles, deadlines | `RegisterProfile`, `ValidateSample`, `CheckDeadlines` | samples and registrations race the check; clock read once; first miss hides the others | the verdict is true of the moment the clock was read, but for rows a sample reaches first; a lasting miss is reported in time |
| `HseAdapter` | mailbox registers | `Init`, `GenerateMac`, `VerifyMac`, `VerifyCertificate`, `GenerateRandom` | bounded polls; late answer after a timeout; an HSE that never answers | Ok means that the HSE answered kOk to this request; every call returns |
| `NetworkAdapter` | none (pure interface) | `Receive`, `Transmit`, ... | no implementation in the repository | not modelled |

`PROJECT.json` lists the hazards of this code line by line, with the properties that would
catch each one, and, for every definition that models code, the lines it models.

## 2. Modules

| Module | Models | Correspondence |
|---|---|---|
| `FifoChannel` | the promise of a ring to its two users | abstract: `queue`, the producer's last result, the last event delivered |
| `CommandedState` | what the arbitrator does with its state, seen from outside | abstract: the state, the one it is on its way to, the states waiting in the ring, the one the M7 enforces; implemented by `SafeStateMachine` and by `SafetyArbitrator` |
| `IpcBridge` | `IpcBridge.cpp` and the M7 as its consumer | variables named after `IpcRingBuffer` and `seqCounter_`; `InitZero`, `InitMagic`, `SendBegin`, `SendWrite`, `ApplyE2eHeader`, `SendPublish` are the stretches of code between two fences |
| `DegradationMatrix` | the pure part of the arbitrator | operators with the names of the functions; a bitmask is the set of its bits |
| `SensorFaultMonitor` | `domains_[]` and all that writes it | one action per atomic access another thread can interleave with |
| `SafeStateMachine` | `Arbitrate()` from the mask on, log, listeners, drain | one action per store of `ExecuteTransition()` and `LogTransition()`, and per load of `DrainTransitionLog()`, that the other side can observe |
| `SafetyArbitrator` | the whole arbitrator | extends `SensorFaultMonitor`, adds decision (the fault counts of the mandatory domains one by one), send and commit |
| `EventDispatch` | publish/subscribe | one action per load or store of an index or count another thread uses |
| `ServiceRegistry` | registry and discovery lifecycle | every read and every write of an entry's state is a step: `StopRead` and `StopLook` are the two reads of `StopService()`, `StopPark` and `StopDown` its two stores |
| `DeadSubscriberMonitor` | the liveness table | heartbeat threads step by step against a scan that is split where they can interleave; the callback may call `Register()` and `Deregister()` |
| `RateLimiter` | the token buckets | one action per load, store or compare-and-swap another thread can interleave with |
| `DdsQosEnforcer` | deadline supervision | filling and counting a row are two steps; the check goes row by row with one reading of the clock |
| `HseAdapter` | the HSE mailbox | one action per reading of a register; the HSE answers in order, late, with an error, or never |
| `IamSecurityController` | policies, decisions, audit ring | filling a slot and moving the head are two steps, and so are copying and moving the tail |
| `Ingress` | the network thread through both gates | extends `HseAdapter` and `IamSecurityController` |
| `MC...` | | the instances TLC checks |
| `IpcBridgeProofs` | | theorems about `IpcBridge` |
| `SafeStateMachineProofs` | | theorems about `SafeStateMachine` and the `DegradationMatrix` it extends |
| `SafetyArbitratorProofs` | | theorems about `SafetyArbitrator` and the `SensorFaultMonitor` it extends |
| `SoaServiceManagerProofs` | | theorems about `EventDispatch` and `ServiceRegistry`, the two halves of one class; their names differ so that it can extend both |
| `IngressProofs` | | theorems about `Ingress` and its parts `HseAdapter` and `IamSecurityController` |
| `DdsQosEnforcerProofs`, `DeadSubscriberMonitorProofs`, `RateLimiterProofs` | | theorems about the module of that name |

How they compose. `SafetyArbitrator` extends `SensorFaultMonitor`, which extends
`DegradationMatrix`. `SafeStateMachine` and `SafetyArbitrator` talk to the M7 through a
bounded queue that refuses when full; that this is what the shared-memory ring provides is
what `IpcBridge` shows by implementing `FifoChannel`. `EventDispatch` implements the same
`FifoChannel`: what a report meets before it reaches `IngestFault()`. `Ingress` composes the
two gates an inbound frame passes before it is published; `RateLimiter` and `DdsQosEnforcer`
share no state with them and stand alone.

Actions whose comment begins with "Slip:" are plausible mistakes in the definition that
follows them. They are not part of any specification; substituting one for the real
definition must break the property it is paired with in `PROJECT.json`.

### Modelling decisions

* Atomics and fences are taken as sequentially consistent: a step is a load or store, or a
  stretch between fences. Weak-memory effects beyond that are not modelled.
* `IpcBridge`: the CRC is the data it covers, so a CRC error is any disagreement of header
  and slot; that CRC-16 misses some corruptions, and the bits of the table, are left out.
  The body of a slot is one event; oversized payloads are the set `LargeEvent`. The M7 is
  external: it polls, copies header and body in two steps, runs `VerifyE2e()`, releases the
  slot. It stops for good when verification fails.
* `SensorFaultMonitor`: time is relative (`age`, `lag`), so the clock never stops and the
  state space is finite without a horizon. Ages above `MaxAge` are not told apart. The
  fault count stands still at `kFaultThreshold`, the largest value it is compared with. A
  health byte outside the enumeration, which `IngestSoaEvent()` lets through, acts like
  `kDegraded`. DTC codes and the reported timestamp are never read and are left out.
* `SameThread = TRUE` is the deployment of `docs/architecture.md`: the network thread only
  publishes, and reports are made by handlers on the safety loop, between two calls of
  `Arbitrate()`. `SameThread = FALSE` is the claim in `SafetyArbitrator.cpp` that ingestion
  is safe from any thread.
* `Tick` keeps the schedule the documents promise: a cycle begins every `Period`, and lasts
  at most `MaxLag` (10 ms and 2 ms). The bounds in `SilenceDetected` and
  `SilenceLimitsSpeed` are functions of these.
* The mandatory-domain rule follows the code: a mandatory domain must be in the mask and a
  mandatory domain, possibly another one, must have reached the threshold.
* `SensorFaultMonitor`: `lost` is history. It is the set of domains that were silent or failed at
  some moment of the cycle in progress, by the true clock and not by the one the scan read.
* `SafeStateMachine`: `transitionMs` is filled in after the send, so it is 0 on the wire; it
  and the timestamp are left out. Whether a transition missed its deadline is a free choice of the
  clock. `LogTransition()` stores the fields of a record one by one, so a drain can see a record
  half written; the drain copies one record in one step. `BufferSizes` are the buffers a drain
  brings. `transitionCount_` is loaded twice when the first load finds the log not yet full; a
  transition in between can make the count larger than the log, and a buffer with room for it then
  gets the slot before the head a second time at its end.
* `SafetyArbitrator`: `ComputeRequiredState()` reads the fault counts of the mandatory domains one
  after the other (`DecideCount`), and only when the mask does not already decide.
* The models of the arbitrator and the registry start after `Init()`; returns that change no
  state (null pointers, calls before `Init()`) appear only where a result is observed.
* `ServiceRegistry`: the discovery task is external, modelled from the comment in
  `StopService()`: it stops what `FindService()` showed it as `kStopping`. The application offers and
  stops what it likes as often as it likes, also a service that is `kStopping`. `parked` and
  `overtaken` are history.
* `DeadSubscriberMonitor`: one task scans, registers and deregisters; heartbeats come from
  any thread. What a heartbeat cannot observe is one step. The history variable `since`
  counts from the last heartbeat that reached the subscriber's own entry: a heartbeat whose
  caller was overtaken by an eviction or a deregistration lands in an entry that is free or
  somebody else's, where it refreshes that entry and not its own. A serviceId and an eventId
  are one key, so no event id is 0 (the value of a cleared entry) together with a service in
  use. `evictedTotal_` and `evictedThisCycle` are left out.
* `RateLimiter`: one thread calls `Admit()`, as the comment at `FindOrAllocate()` has it, and
  a call does not span a tick. The history variables `promise` and `meter` are an ideal
  bucket that runs beside the real one, chosen at the start to watch either the limit
  or the service; one run checks both. The limit is one of the time a source keeps its bucket: it
  starts anew when the source gets a new one, so every eviction allows two bursts and a refill
  delay more.
  That a source is a `sourceId` other than `kInvalidSourceId` is an assumption: `Admit()` does
  not refuse it, and `FindOrAllocate()` would take a bucket in the middle of its eviction for one
  of that source.
* `DdsQosEnforcer`: one thread registers, one takes samples, one checks. A profile is its topic
  and its deadline. A row is filled and counted within a tick.
* `HseAdapter`: the HSE is external. RR reads `kBusy` from a request on, the assumption
  without which the poll would take the previous answer every time; requests are answered one
  by one in their order. Which of the statuses it has for a service it answers (`Answers`) is its own
  affair, for a MAC too: `SubmitAndPoll()` writes service, key slot, input address and input
  length (`HseAdapter.cpp:96-101`) and never `outputAddr`, where `VerifyMac()` has put the address
  of the MAC to compare, so the model has no MAC for the HSE to find genuine. `verdict` notes what
  it answered to the request of the call in progress. A caller may
  ask again after a time-out, while the HSE still holds the old request: `behind` remembers it.
* `IamSecurityController`: a set of action bits is a set. `undrained` and `overrun` are history.
* `Ingress`: the glue between the gates is external; a frame that fails a gate is dropped.

### Where comments and documents differ from the code

The models follow the code. Besides the findings below, these were met on the way:

* `SafetyArbitrator.cpp:9` says ingestion is "safe to call from any thread context".
  `IngestFault()` writes health and fault count one after the other (line 171 on), so two
  threads that report on one domain, or a report and the scan, can leave `kFailed` with a count of
  0, which the next heartbeat turns into `kNominal`. `HealthMatchesCount` is violated when
  `MCSafetyArbitrator_loop.cfg` is given `Reporter = {r1, r2}` and `SameThread = FALSE`. The
  documented deployment is not exposed: that is run `arbitrator_loop`.
* `SafetyArbitrator.cpp:327` says the highest numeric state wins; LiDAR or Radar lost
  together with the camera gives 1 or 2, not 3 (and 100 kph, not 30).
* `SafetyArbitrator.cpp:616` says severity never decreases before all sensors recover;
  `Arbitrate()` goes to whatever state is required.
* `SafetyArbitrator.hpp:270` says a heartbeat resets the fault counter; it only reads it.
* `CHANGELOG.md:60` has `kRequested` in the lifecycle; no code sets it.
* `OfferService()` of a `kStopping` service returns Ok and does nothing.
* `ProcessEvents()` reads the number of subscribers once and loops until the ring is empty:
  a handler registered during the call misses events published after it, and a publisher
  that keeps up keeps the call from returning.
* `SafetyArbitrator.hpp:144` and `README.md:113` answer an E2E error with an emergency stop; a
  failed send is returned as `kE2eViolation` and no path of the code commands a stop
  (theorem `StopNeverCommanded`). `SafetyArbitrator.cpp:16` and `docs/compliance/nist-csf.md:37`
  say the same as the header.
* `DeadSubscriberMonitor.hpp` has the callback before the entry is freed, and so does a comment
  in `ScanAndEvict()`; the code frees it first, which is what lets a callback register again.
* `StopService()` has the second call made after the StopOffer was sent; a second call takes a
  service down whether or not it was, and the application may make it at once
  (`tests/test_soa_gateway.cpp:132` does). What the code does provide is that the first call returns
  with the service in `kStopping`: `DownTakesTwoCalls`. A call that has read `kStopping` writes
  `kDown` even when another one took the service down meanwhile and the application has
  offered it again: that offer is lost (`overtaken`).
* `RateLimiter.cpp:216` claims there is no window in which a bucket is active without a source; there
  is, between lines 211 and 217, and a packet of that source is then charged to a bucket that is
  being given up, or gets a new one.
* `RateLimiter.hpp` gives a burst of `kBurstCapacity`. A refill pass that loaded the time stamp of
  a bucket credits the elapsed time to whoever owns the bucket by then, so a new source may
  get a second burst at once. `RateLimited` therefore allows two bursts and one refill delay; with
  one packet less it is violated. An eviction overtaken in its window can likewise free the
  bucket of a newcomer, who then starts again with a full one.
* The header has `Admit()` called from an interrupt or a driver thread, the comment at
  `FindOrAllocate()` from a single path. Two threads could give one source two buckets.
* `DdsQosPolicy.hpp:148` promises a check of the history depth; `ValidateSample()` has none.
  `violationCount` is called cumulative misses (line 108) and counts the checks that found a miss. A topic that
  stays late hides those registered after it, which is the exception in `MissReported`.
* `HseAdapter.hpp:163` has `VerifyMac()` return Ok "if authentic". The adapter tells the HSE neither
  the expected MAC nor where it is, and gives `GenerateMac()` and `GenerateRandom()` no output
  address either: `rxMacBuf_` is filled (line 176) and its address stays in the descriptor (183).
  What Ok says about the MAC therefore cannot be stated of this code; `OkMeansAnswered` states
  what the adapter adds to the answer of the HSE.
* The same line has `VerifyMac()` return `kE2eViolation` for a bad MAC and `kTimeout` when
  nothing answers; the code returns `kChecksumMismatch` and `kE2eViolation`.
* RR does not say which request it answers. A call made after a time-out can take the
  answer to the request that was given up for its own: the exception in `OkMeansAnswered`, which
  says of all other calls that they cannot be misled.
* `Arbitrate()` returns the send's error unless the transition was late: then it returns `kTimeout`,
  and its caller does not learn that the command was refused (`SafetyArbitrator.cpp:579-585`).
* `IamSecurityController` stores roles and role ids and no decision looks at them. `HasAction()`
  grants a demand for several actions when one of them is allowed.
* `docs/architecture.md:282` has `Authorise()` on any thread; its audit ring bears one producer. The
  ring has no test for room: when as many decisions wait as it has slots it looks
  empty, and from then on entries are lost (`overrun` in `AuditExact`).
* The response path of `docs/architecture.md` calls `PublishEvent()` too, a second producer for
  a ring made for one; it has no code in the repository.

## 3. Runs

| Run | Instance | What it shows |
|---|---|---|
| `ipc_bridge` | 4 slots, counter mod 8, 2 events, 1 oversized | `TypeOK`, `NoE2eViolation`, the inductive `RingInv`, `WaitingSlotsStable`, `ImplementsChannel` (safety and delivery) |
| `state_machine` | log of 2, ring of 2, 1 listener, 4 transitions, drains into buffers of 1 and 3 | `BookkeepingAgrees`, `M7InStep`, `QuietDrainExact` |
| `state_machine_drain` | same | violation: `DrainReturnsTransitions` |
| `arbitrator_loop` | LiDAR, Radar, both mandatory, and `kInvalid`; timeout 1, period 1, lag 1; one thread | `MonTypeOK`, `HealthMatchesCount`, `SilenceDetected`, `MaskIsCurrent`, `SilenceLimitsSpeed` |
| `arbitrator_threads` | LiDAR, Radar, both mandatory; timeout, period and lag 1; a racing reporter, a ring that refuses everything | `MaskJustified`, `SilenceEventuallyFails`, `ForwardLossSettles`, `RecoverySettles` |
| `arbitrator_lost` | ring of 1 | violation: `M7Follows` |
| `event_dispatch` | 3 slots, 2 subscribers, 2 topics, 2 payloads | `DispatchTypeOK`, `HandlerEventStable`, `FanOutComplete`, `ImplementsFifo` (safety and delivery) |
| `dead_subscribers` | 3 subscribers, 2 entries, 1 heartbeat thread; interval 1, timeout 2, period 1, lag 1 | `EntryTypeOK`, `EvictedOnlyWhenDead`, `MonitoredExactly`, `SilentEvicted` |
| `service_registry` | 3 services, 2 entries | `CommittedComplete`, `DownTakesTwoCalls`, `StopCompletes` |
| `rate_limiter` | 2 sources, 2 buckets, burst 3, rate 1, period 1, lag 1, eviction after 1 | `LimiterTypeOK`, `OneBucketPerSource`, `RateLimited`, `ConformingAdmitted` |
| `dds_qos` | 4 topics, 3 rows, deadlines 0, 1 and none; period 1, lag 1 | `QosTypeOK`, `MissReported`, `VerdictExact` |
| `ingress` | 1 demand, 3 policies in a table of 2, audit ring of 3, 2 polls, 2 requests in the HSE | `IngressTypeOK`, `OkMeansAnswered`, `PassedLegitimately`, `AuditExact`, `CallReturns` |

Bounds. Rings of 3 or 4 slots are the smallest in which empty, partly full, full and
wrapped are different; a counter of 8 values wraps out of step with a ring of 4 as 256 does
with 32. A log of 2 with 4 transitions wraps twice; a buffer of 1 is smaller than it and one of 3 larger. Two sensors are what the combination
rule needs, and `kInvalid` is the entry that can never report. With a timeout of 1 tick a
heartbeat can be fresh, at the limit, and late by one period or one cycle, and with a lag of 1 it
can be newer than the clock the scan has read; `kUnknown`, which no
sensor reports by itself, is treated as `kDegraded` and left out of `arbitrator_loop`. With two
buckets and two sources a slot is claimed, evicted and claimed by the other; a burst of 3 leaves
room for one packet above a refill delay of 2 ticks, which is what tells the two promises from
their neighbours. Two policies in either order, one of which forbids what the other allows, are what
first match is about; an audit ring of 3 wraps and overruns. Two requests in the HSE are one
that was given up and one behind it. Topics are interchangeable, so `dds_qos` uses symmetry.
More subscribers
than entries fill the liveness table and make its entries change hands; subscribers are
interchangeable, so that run uses symmetry. `MaxTransitions`
is the only horizon (sequence numbers grow without bound); all other runs explore all of
the reachable states of a system that never stops.

### The violations

* `state_machine_drain`. `transitionCount_` is incremented before the log entry is written.
  A drain in between returns a default record, which names `kEmergencyStop`, or the oldest
  record as the newest.
* `arbitrator_lost`. The state is committed even when the ring refused the command. The next
  cycle finds nothing to do: the M7 keeps enforcing the old state. `M7InStep` is what does
  hold: the two agree unless the bridge refused that very command.

### Fairness

* The safety loop runs on its own core with bounded cycles: its steps are weakly fair. So is
  the clock, and a call of `IngestFault()`, `RecordHeartbeat()`, `PublishEvent()` or `Send()`
  that has begun, since none of them blocks.
* The M7 polls its ring for ever: weakly fair.
* A call of `OfferService()` or `StopService()` that has begun ends.
* The discovery task keeps running (weakly fair) and looks at every service in turn (strong
  fairness of `SdObserve`, since a service may be found stopping while another is
  being handled).
* In `ingress` the network thread is weakly fair, since its polls are bounded. Nothing is assumed
  of the HSE: it may never become ready and never answer.
* Nobody is assumed to report, publish, subscribe, offer or stop anything.

`dead_subscribers`, `rate_limiter`, `dds_qos` and `state_machine` check safety only and use no fairness.

Deadlock is checked in every run. At the horizon `MaxTransitions` the loop still takes
`KeepState`.

## 4. Proofs

### Bridge

`IpcBridgeProofs` proves, for every `RingSlots > 1`, every `CounterMod > 1` and every set of
events (the assumptions `RingAssumption` and `CounterAssumption` of `IpcBridge`):

| Theorem | Statement |
|---|---|
| `TypeCorrect` | `SafeSpec => []TypeOK` |
| `RingCorrect` | `SafeSpec => []RingInv` |
| `NoViolation` | `SafeSpec => []NoE2eViolation` |
| `StableSlots` | `SafeSpec => WaitingSlotsStable` |
| `Refinement` | `SafeSpec => Channel!SafeSpec`: the ring implements the FIFO of `RingSlots - 1` places |

The argument. `NoE2eViolation` says that the M7's last verdict was "ok". It is not inductive:
whether the next slot verifies depends on what is in the ring. `RingInv` describes the slots
between `tail` and `WriteLimit`, which is `head` or, between the stamp and the advance of
`head`, one further: each carries the CRC of its content (`CrcInv`), their counters follow
one another from the one the M7 expects to the one the producer will use next
(`CounterInv`), the producer is only inside `Send()` when there is room (`RoomInv`), and what
the M7 has copied is still what is in the slot at `tail` (`CopyInv`). A write goes to
`head`, which is outside that stretch because there is room, so it disturbs none of it;
advancing `tail` takes the first slot and its counter off. `MagicInv` covers the time before
`Init()` is over, when the indices in SRAM are arbitrary and the M7 takes nothing. For the
refinement the queue is the sequence of bodies from `tail` to `head`; `Send()` appends to it
in its last store and the M7 removes from it when it advances `tail`; all other steps
leave it alone. TLC checks `RingInv` as an invariant of `ipc_bridge`.

### Degradation matrix and state machine

`SafeStateMachineProofs` proves about `ComputeRequiredState()` and the speed caps, for every
fault mask, every mandatory mask and all fault counts:

| Theorem | Statement |
|---|---|
| `TableRespected` | the required state and its cap are a row of the documented matrix whose condition holds (never the emergency stop) |
| `MinimalRiskPersists` | while nothing recovers, a minimal risk condition stays required |
| `WorseningNeverLifts` | while nothing recovers, only the loss of LiDAR or Radar lifts the speed cap |

The third is a case distinction on LiDAR and Radar: if one of them is lost the cap is
100 before and after, or 20 by the rule for mandatory domains, which further faults and higher
counts leave in force (`MandatoryLossStays`); if neither is, it falls from 130 to 30 at most
once. That the loss of LiDAR or Radar does lift it, from 30 back to 100 after a camera
failure, is what the order of the tests in the code does.

About `SafeStateMachine`, for every `LogSlots > 0`, every size of the ring and the listener
table, every set of fault masks and any `MaxTransitions` (`PatternAssumption`,
`SizeAssumption`), so the horizon of the run plays no part:

| Theorem | Statement |
|---|---|
| `MachineCorrect` | `Spec => []MachineInv`, the inductive invariant |
| `LogAgrees` | `Spec => []BookkeepingAgrees` |
| `CommandArrives` | `Spec => []M7InStep` |
| `QuietDrain` | `Spec => []QuietDrainExact` |
| `MachineUsesChannel` | `Spec => Channel!SafeSpec`: the ring to the M7 is used as the FIFO of `FifoChannel` |
| `MachineImplementsControl` | `Spec => Control!Spec`: the machine implements `CommandedState` |

The three properties speak of the moments between transitions; the invariant has to speak of every
store inside one. `StageInv` says which of the numbers and states are already those of the new
transition. `LogInv` describes the part of the log that is intact: while `LogTransition()` is
filling the slot at the head, field by field, and has not yet advanced it, one transition is counted and not yet
logged (`Logged`), and the oldest slot is lost (`Places`). Seen from the head, `Back(h, i)` is
the slot `i` places behind it; advancing the head moves every entry one place back (`Around`).
`SentInv` follows the last accepted command through the ring, `DrainInv` the entries a drain has
copied so far.

The two refinements join this module to the others. `MachineUsesChannel` justifies the short model of
the bridge in `SafeStateMachine`: every send and every receive is a step of the same
`FifoChannel` that the bridge implements (`Refinement` above, with room for `RingSlots - 1`
commands), so the machine relies on nothing the bridge does not give. `MachineImplementsControl`
forgets everything but the states: from the first store of `ExecuteTransition()` to the
store to `currentState_` the machine is on its way to the state of its command; `Commanded` is
the ring with each command reduced to its state. Both refinements use `StageInv` and
`TypeInv`; they are safety properties and need no fairness.

### Fault monitor and arbitrator

`SafetyArbitratorProofs`, for every set of domains, mandatory set, timeout, period and lag.
`TypeCorrect` (`Spec => []MonTypeOK`) and `MaskAlwaysJustified` hold for any number of reporting
threads. Those of this table assume
`SameThread`, the documented deployment; without it `RecordsAgree`, and so the invariant, is
false (section 2):

| Theorem | Statement |
|---|---|
| `ArbitratorCorrect` | `Spec => []ArbitratorInv`, the inductive invariant |
| `RecordsAgree` | `Spec => []HealthMatchesCount` |
| `MaskCurrent` | `Spec => []MaskIsCurrent` |
| `SilenceNoticed` | `Spec => []SilenceDetected` |
| `SpeedLimited` | `Spec => []SilenceLimitsSpeed`, if LiDAR and Radar are among the domains |

And again for any number of reporting threads:

| Theorem | Statement |
|---|---|
| `MaskAlwaysJustified` | `Spec => []MaskJustified` |
| `MandatoryAddsNothing` | the rule for mandatory domains yields only states that a mask yields without it |
| `ArbitratorImplementsControl` | `Spec => Control!Spec`: the arbitrator implements `CommandedState` |
| `StopNeverCommanded` | `Spec => []` (neither `currentState` nor the state the M7 enforces is `kEmergencyStop`) |

`RecordInv` says which of health and fault count a report or a promotion has already written.
`ScanInv` says what the two loops of a cycle have established for the domains they have visited:
the silent ones are failed, and the mask is the failed ones so far. A bound on time is turned
into a state: `SilentFor(g)` is the set of domains whose heartbeat timed out at least `g` ticks
ago, and `MaskInv` and `SpeedInv` say that the published mask and the committed state account
for `SilentFor(wait)` between cycles and for `SilentFor(Period + lag)` during one. At
the end of a cycle its own scan replaces the last one; that `Tick` keeps `wait` within `Period` and
`lag` within `MaxLag` gives the bound of the properties. `currentState` is covered because what
limits speed for a set of lost domains, `Limits`, holds of whatever `ComputeRequiredState()` returns (`Requirable`) for any mask that
contains it.

`MaskAlwaysJustified` needs no `SameThread`: it is about heartbeats and reports that race the scan.
`LostInv` follows a domain from the load of its heartbeat to the mask: who is being promoted, who has been
collected and who is published was in `lost` by then, and `lost` only grows during a cycle. The guard
against a heartbeat newer than `nowMs` is what the first step rests on.

`ArbitratorImplementsControl` and `MachineImplementsControl` say that the two models of the
transition, one behind the fault monitor, the other with the log and the listeners, agree on
what the M7 and the vehicle see. `MandatoryAddsNothing` is what lets the first take its states from the
matrix without mandatory domains, as `SafeStateMachine` does. It needs no invariant: races between reports
change which state is required, not what is done with it. `StopNeverCommanded` then is an
invariant of `CommandedState` (`OnlyCalled`: what is committed, on its way or enforced is the
initial state or one the matrix calls for), carried over by the refinement. It shows the latch of
`Arbitrate()` to be dead code, against the comments that answer an E2E error with a stop (section 2).

### Event dispatch and service registry

`SoaServiceManagerProofs`, for every size of ring and tables and all topics, payloads and
services:

| Theorem | Statement |
|---|---|
| `DispatchCorrect` | `SafeSpec => []DispatchInv`, the inductive invariant |
| `TypeCorrect` | `SafeSpec => []DispatchTypeOK` |
| `StableEvent` | `SafeSpec => HandlerEventStable` |
| `CompleteFanOut` | `SafeSpec => FanOutComplete` |
| `Refinement` | `SafeSpec => Channel!SafeSpec`: the ring implements the FIFO of `RingSlots - 1` places |
| `RegistryCorrect` | `RegistrySpec => []RegistryInv`, the inductive invariant |
| `EntryComplete` | `RegistrySpec => CommittedComplete` |
| `TwoCallsToDown` | `RegistrySpec => DownTakesTwoCalls` |

Dispatch: inside `PublishEvent()` there is room (`PublishInv`), so the slot that is written is never
the one the handlers look at, and the handlers called so far are the subscribers of the topic
among the first `i` entries (`FanOutInv`). The refinement follows the bridge's.

Registry: a thread writes a state that it chose from one it read earlier, whatever the entry has
become since. `ParkedInv` says what is left of that choice when it writes: a service in `kStopping` was
parked by a completed call since it was last offered, and so was one that a call is about to take
down, unless an offer has overtaken that call. `NewcomerInv` does the same for the entry that is being
filled, and `UniqueInv` (no service has two entries) makes "the state of the service" meaningful.

### Gates

`IngressProofs`, for every poll limit, every depth of the HSE, every table and ring size and
all policies and demands:

| Theorem | Statement |
|---|---|
| `AnsweredOk` | `Spec => []OkMeansAnswered` |
| `IngressCorrect` | `Spec => []IngressInv`, the inductive invariant |
| `TypeCorrect` | `Spec => []IngressTypeOK` |
| `LegitimatePassage` | `Spec => []PassedLegitimately` |
| `ExactTrail` | `Spec => []AuditExact` |

`HseInv`: unless a call is behind a request that was given up, RR holds the answer to that very
call or none (`AnswerInv`). `IamInv`: until the ring overruns, the slots from `auditTail` on are the
undrained decisions, less the one in the hand of the writer; the drain's copy is the first of them.
`GateInv`: the adapter's last call is about the frame in hand, the entry being written is the
decision on it, and a decision to grant is never taken back, since the first matching policy decides and
policies are only appended (`GrantStays`).

### Deadlines, liveness table, token buckets

| Module | Theorem | Statement |
|---|---|---|
| `DdsQosEnforcerProofs` | `QosCorrect` | `Spec => []QosInv`, the inductive invariant |
| | `TypeCorrect` | `Spec => []QosTypeOK` |
| | `LateReported` | `Spec => []MissReported` |
| | `ExactVerdicts` | `Spec => VerdictExact` |
| `DeadSubscriberMonitorProofs` | `LivenessCorrect` | `Spec => []LivenessInv`, the inductive invariant |
| | `TypeCorrect` | `Spec => []EntryTypeOK` |
| | `OnlyTheDead` | `Spec => []EvictedOnlyWhenDead` |
| | `TableExact` | `Spec => []MonitoredExactly` |
| | `SilentGone` | `Spec => []SilentEvicted` |
| `RateLimiterProofs` | `LimiterCorrect` | `Spec => []BucketInv`, the inductive invariant |
| | `TypeCorrect` | `Spec => []LimiterTypeOK` |
| | `OneBucket` | `Spec => []OneBucketPerSource` |
| | `LimitHolds` | `Spec => []RateLimited` |
| | `ServiceHolds` | `Spec => []ConformingAdmitted` |

Each holds for every value of the constants that the assumptions of its module admit.
`QosAssumption` takes the set of deadlines to be finite: they are 32-bit numbers, and the ages
are not told apart above the largest.

* `QosInv`: the rows a check has passed were in time when it read the clock, which is `lag` ticks
  ago (`WalkInv`); ages grow with the clock or fall to 0 with a sample, so that a row in time then
  cannot seem late by more than `lag` now. A row that is filled and not yet counted has age 0
  (`FreshInv`). `VerdictInv` keeps, between checks, what the last check saw.
* `LivenessInv`: the time stamp of an entry is never older than the last heartbeat that reached it
  (`SinceInv`), so what the scan finds old is dead; and an entry was in time when the last scan,
  or for an entry not yet looked at the one before, read the clock (`AgeInv`), so nothing silent
  stays longer than a period and the lag of a scan. `PairInv` and `SubInv` carry the identity of
  entries through evictions, heartbeats that come too late and the callbacks.
* `BucketInv`: `NameInv` says that a source owns one bucket at most, where a slot that was claimed and not
  yet named is nobody's. `PassInv` says that no bucket waits longer for its refill than a period
  and a pass. Both promises are statements about sums that the refill task has yet to
  finish, so `Due(b, cap)` names what it will still add to a bucket for time that has already
  passed. `LimitInv` (the ideal bucket is at least tokens, dues and one packet) and `ServiceInv` (tokens and
  dues are at least the ideal bucket and the worth of a refill delay) are then kept by every step of the three
  threads. `BucketInv` was checked by TLC on a small instance before it was proved.

### What stays model-checked

Liveness: delivery in `ImplementsChannel` and `ImplementsFifo` (their safety part is proved),
`SilenceEventuallyFails`, `ForwardLossSettles`, `RecoverySettles`, `StopCompletes`,
`CallReturns`. They need fairness and ENABLED, which the provers do not handle. Every other
property of a passing run is a theorem, and the refinements of `CommandedState` are theorems only. The two properties that are violated,
`DrainReturnsTransitions` and `M7Follows`, are shown false by TLC.

The prover cannot do induction over data with an operator as a parameter. Where the code takes the
first of something (the first matching policy, the first late row, the next free bucket) the proofs use
that a well-founded relation has least elements, instead of an induction.

## 5. Plan

Done in this order: `FifoChannel` and `IpcBridge` with proofs; `DegradationMatrix`,
`SensorFaultMonitor`, `SafeStateMachine`; the composition `SafetyArbitrator`;
`EventDispatch` and `ServiceRegistry`; `DeadSubscriberMonitor`; `RateLimiter`,
`DdsQosEnforcer`, `HseAdapter`, `IamSecurityController` and their composition `Ingress`; the
proofs about all of them, each with the inductive invariant of its module; `CommandedState`, which both
models of the arbitrator implement. Next:

1. A registering thread of its own in `DeadSubscriberMonitor`, where `Register()` makes an entry
   active before it sets the time stamp.
2. A restart of the A53 in `IpcBridge`, and the CRC bit by bit as a module for TLC alone.

### Not modelled

The envelope validators (four comparisons of floats) and `NetworkAdapter` (an interface without an
implementation). Weak memory below the fences, the byte layout of messages and timing below the
tick. `uint32_t` fault counts that wrap after 2^32 reports. Getters, which only read. Calls that
overlap `Init()`: several `Init()` set `initialised_` before they reset their tables, so a thread
that is let in meanwhile is overwritten; nothing in the repository documents such a start.
