----------------------- MODULE SafeStateMachineProofs -----------------------
(***************************************************************************)
(* Proofs about the state machine of the arbitrator and the degradation    *)
(* matrix it decides with: what ComputeRequiredState() and the switch of   *)
(* ExecuteTransition() mean for every fault mask, every mandatory mask and *)
(* every fault count; and, for every size of the log and of the ring and   *)
(* any number of transitions, that the records of a transition agree, that *)
(* the M7 obeys the last command that was sent and that a quiet drain of   *)
(* the log is exact.                                                       *)
(***************************************************************************)
EXTENDS SafeStateMachine, SequenceTheorems, TLAPS

-----------------------------------------------------------------------------
(* The degradation matrix.                                                 *)

\* The rows of the degradation matrix of docs/architecture.md: condition,
\* required state, speed cap.
DocumentedRow(faults, mandatory, faultCount, state, cap) ==
  \/ /\ faults \cap {kLidar, kRadar, kCamera, kGnss, kImu} = {}
     /\ state = kFullOperation /\ cap = 130
  \/ /\ kLidar \in faults /\ kRadar \notin faults
     /\ state = kRadarCameraFallback /\ cap = 100
  \/ /\ kRadar \in faults /\ kLidar \notin faults
     /\ state = kLidarCameraFallback /\ cap = 100
  \/ kCamera \in faults /\ state = kLidarRadarFallback /\ cap = 30
  \/ /\ kGnss \in faults /\ kImu \notin faults
     /\ state = kDeadReckoningMode /\ cap = 30
  \/ kImu \in faults /\ state = kReducedDynamics /\ cap = 30
  \/ /\ \/ {kLidar, kRadar} \subseteq faults
        \/ \E d \in mandatory : faultCount[d] >= kFaultThreshold
     /\ state = kMinimalRiskCondition /\ cap = 20

\* What is worse: more domains failed, and no mandatory fault count smaller.
Worse(faults, count, faults2, count2, mandatory) ==
  /\ faults \subseteq faults2
  /\ \A d \in mandatory : count[d] \in Nat /\ count2[d] \in Nat /\ count[d] <= count2[d]

Cap(faults, mandatory, count) ==
  MaxSpeedKph(ComputeRequiredState(faults, mandatory, count))

\* The speed cap of each state, with the enumerators as the numbers they are.
LEMMA Caps ==
  /\ MaxSpeedKph(0) = 130
  /\ MaxSpeedKph(1) = 100 /\ MaxSpeedKph(2) = 100
  /\ MaxSpeedKph(3) = 30 /\ MaxSpeedKph(4) = 30 /\ MaxSpeedKph(5) = 30
  /\ MaxSpeedKph(6) = 20
  /\ MaxSpeedKph(7) = 0
BY DEF MaxSpeedKph, kFullOperation, kRadarCameraFallback, kLidarCameraFallback,
       kLidarRadarFallback, kDeadReckoningMode, kReducedDynamics, kMinimalRiskCondition

\* What ComputeRequiredState() and the switch of ExecuteTransition() choose is a
\* row of the documented matrix whose condition holds, with its speed cap; so
\* they never choose the emergency stop.
THEOREM TableRespected ==
  ASSUME NEW faults, NEW mandatory, NEW count
  PROVE  DocumentedRow(faults, mandatory, count,
                       ComputeRequiredState(faults, mandatory, count),
                       Cap(faults, mandatory, count))
<1>1. CASE \/ {kLidar, kRadar} \subseteq faults
           \/ MandatoryLoss(faults, mandatory, count)
  BY <1>1, Caps
  DEF DocumentedRow, Cap, ComputeRequiredState, MandatoryLoss, kMinimalRiskCondition
<1>2. CASE /\ ~({kLidar, kRadar} \subseteq faults)
           /\ ~MandatoryLoss(faults, mandatory, count)
  BY <1>2, Caps
  DEF DocumentedRow, Cap, ComputeRequiredState, kFullOperation, kRadarCameraFallback,
      kLidarCameraFallback, kLidarRadarFallback, kDeadReckoningMode, kReducedDynamics
<1>3. QED BY <1>1, <1>2

\* The rule for mandatory domains survives more faults and higher counts.
LEMMA MandatoryLossStays ==
  ASSUME NEW faults, NEW count, NEW faults2, NEW count2, NEW mandatory,
         Worse(faults, count, faults2, count2, mandatory),
         MandatoryLoss(faults, mandatory, count)
  PROVE  MandatoryLoss(faults2, mandatory, count2)
<1>1. PICK d \in mandatory : count[d] >= kFaultThreshold
  BY DEF MandatoryLoss
<1>2. count2[d] >= kFaultThreshold
  BY <1>1 DEF Worse, kFaultThreshold
<1>3. QED BY <1>2 DEF Worse, MandatoryLoss

\* While nothing recovers, a minimal risk condition is never left.
THEOREM MinimalRiskPersists ==
  ASSUME NEW faults, NEW count, NEW faults2, NEW count2, NEW mandatory,
         Worse(faults, count, faults2, count2, mandatory),
         ComputeRequiredState(faults, mandatory, count) = kMinimalRiskCondition
  PROVE  ComputeRequiredState(faults2, mandatory, count2) = kMinimalRiskCondition
<1>1. \/ {kLidar, kRadar} \subseteq faults
      \/ MandatoryLoss(faults, mandatory, count)
  BY DEF ComputeRequiredState, kMinimalRiskCondition, kFullOperation,
         kRadarCameraFallback, kLidarCameraFallback, kLidarRadarFallback,
         kDeadReckoningMode, kReducedDynamics
<1>2. \/ {kLidar, kRadar} \subseteq faults2
      \/ MandatoryLoss(faults2, mandatory, count2)
  BY <1>1, MandatoryLossStays DEF Worse
<1>3. QED BY <1>2 DEF ComputeRequiredState

\* While nothing recovers, the speed cap is lifted only by the loss of LiDAR or
\* Radar: their rows come before those of the other sensors, so that the loss of
\* LiDAR after that of the camera raises the cap from 30 to 100 kph.
THEOREM WorseningNeverLifts ==
  ASSUME NEW faults, NEW count, NEW faults2, NEW count2, NEW mandatory,
         Worse(faults, count, faults2, count2, mandatory),
         (faults2 \ faults) \cap {kLidar, kRadar} = {}
  PROVE  Cap(faults2, mandatory, count2) <= Cap(faults, mandatory, count)
<1>1. ComputeRequiredState(faults2, mandatory, count2) = kMinimalRiskCondition
      \/ ~MandatoryLoss(faults, mandatory, count)
  BY MandatoryLossStays DEF ComputeRequiredState
<1>2. /\ kLidar \in faults2 <=> kLidar \in faults
      /\ kRadar \in faults2 <=> kRadar \in faults
  BY DEF Worse
<1>3. CASE ComputeRequiredState(faults2, mandatory, count2) = kMinimalRiskCondition
  <2>1. Cap(faults2, mandatory, count2) = 20
    BY <1>3, Caps DEF Cap, kMinimalRiskCondition
  <2>2. Cap(faults, mandatory, count) \in {130, 100, 30, 20}
    BY TableRespected DEF DocumentedRow
  <2>3. QED BY <2>1, <2>2
<1>4. CASE ComputeRequiredState(faults2, mandatory, count2) # kMinimalRiskCondition
  <2>1. /\ ~({kLidar, kRadar} \subseteq faults)
        /\ ~MandatoryLoss(faults, mandatory, count)
        /\ ~({kLidar, kRadar} \subseteq faults2)
        /\ ~MandatoryLoss(faults2, mandatory, count2)
    BY <1>1, <1>2, <1>4 DEF ComputeRequiredState
  <2>2. CASE kLidar \in faults \/ kRadar \in faults
    BY <1>2, <2>1, <2>2, Caps
    DEF Cap, ComputeRequiredState, kRadarCameraFallback, kLidarCameraFallback
  <2>3. CASE kLidar \notin faults /\ kRadar \notin faults
    <3>1. kLidar \notin faults2 /\ kRadar \notin faults2
      BY <1>2, <2>3
    <3>2. CASE faults2 \cap {kCamera, kGnss, kImu} = {}
      <4>1. faults \cap {kCamera, kGnss, kImu} = {}
        BY <3>2 DEF Worse
      <4>2. QED BY <2>1, <2>3, <3>1, <3>2, <4>1, Caps
                DEF Cap, ComputeRequiredState, kFullOperation
    <3>3. CASE faults2 \cap {kCamera, kGnss, kImu} # {}
      <4>1. Cap(faults2, mandatory, count2) = 30
        BY <2>1, <3>1, <3>3, Caps
        DEF Cap, ComputeRequiredState, kLidarRadarFallback, kDeadReckoningMode,
            kReducedDynamics
      <4>2. Cap(faults, mandatory, count) \in {130, 30}
        BY <2>1, <2>3, Caps
        DEF Cap, ComputeRequiredState, kFullOperation, kLidarRadarFallback,
            kDeadReckoningMode, kReducedDynamics
      <4>3. QED BY <4>1, <4>2
    <3>4. QED BY <3>2, <3>3
  <2>4. QED BY <2>2, <2>3
<1>5. QED BY <1>3, <1>4

-----------------------------------------------------------------------------
(* The state machine: types.                                               *)

Commands == {Command(f, s, n) : f \in SUBSET AllDomains, s \in SafeState, n \in Nat}
Triggers == {Trigger(f) : f \in SUBSET AllDomains}
Records == [fromState : SafeState, toState : SafeState, triggerDomain : Triggers,
            sequenceNum : Nat]

\* Where the safety loop is while it fills an entry of the log, and while the
\* log counts a transition that is not in it yet.
Filling == {"log to", "log trigger", "log number", "advance"}
Logging == {"log"} \cup Filling

TypeInv ==
  /\ currentState \in SafeState /\ from \in SafeState
  /\ sequenceNum \in Nat /\ transitionCount \in Nat
  /\ cmd \in Commands /\ lastCommand \in Commands /\ m7Cmd \in Commands
  /\ log \in [Slot -> Records] /\ logHead \in Slot
  /\ heard \in Seq(Nat) /\ queue \in Seq(Commands) /\ dbuf \in Seq(Records)
  /\ pc \in {"idle", "send", "commit", "remember", "count", "notify"} \cup Logging
  /\ dpc \in {"idle", "count", "recount", "copy", "returned"}
  /\ dsize \in Nat /\ dhead \in Slot /\ dcount \in Nat /\ dclean \in BOOLEAN

\* The enumerators are states.
LEMMA States ==
  /\ kFullOperation \in SafeState /\ kEmergencyStop \in SafeState
  /\ \A f : Required(f) \in SafeState
  BY DEF Required, ComputeRequiredState, SafeState, kFullOperation, kRadarCameraFallback,
         kLidarCameraFallback, kLidarRadarFallback, kDeadReckoningMode, kReducedDynamics,
         kMinimalRiskCondition, kEmergencyStop

\* What a command and a record say.
LEMMA CommandSays ==
  ASSUME NEW f \in SUBSET AllDomains, NEW s \in SafeState, NEW n \in Nat
  PROVE  /\ Command(f, s, n) \in Commands
         /\ Command(f, s, n).state = s /\ Command(f, s, n).sequenceNum = n
  <1>1. Command(f, s, n) \in Commands
    BY DEF Commands
  <1>2. Command(f, s, n).state = s /\ Command(f, s, n).sequenceNum = n
    BY DEF Command
  <1> QED
    BY <1>1, <1>2

LEMMA CommandFields ==
  ASSUME NEW c \in Commands
  PROVE  c.state \in SafeState /\ c.sequenceNum \in Nat /\ c.faultBitmask \in SUBSET AllDomains
  BY DEF Command, Commands

LEMMA DefaultIsRecord == DefaultRecord \in Records
  <1>1. kInvalid = Trigger({}) /\ {} \in SUBSET AllDomains
    BY DEF Trigger
  <1> QED
    BY <1>1, States DEF DefaultRecord, Record, Records, Triggers

\* Filling an entry changes the slot at the head, one field at a time.
LEMMA FillSays ==
  ASSUME TypeInv, LogTransition
  PROVE  LET e == log[logHead]
             f == log'[logHead]
         IN /\ e \in Records /\ f \in Records
            /\ log' \in [Slot -> Records]
            /\ \A k \in Slot : k # logHead => log'[k] = log[k]
            /\ \/ pc = "log" /\ pc' = "log to" /\ f.fromState = from
               \/ /\ pc = "log to" /\ pc' = "log trigger"
                  /\ f.fromState = e.fromState /\ f.toState = cmd.state
               \/ /\ pc = "log trigger" /\ pc' = "log number"
                  /\ f.fromState = e.fromState /\ f.toState = e.toState
               \/ /\ pc = "log number" /\ pc' = "advance"
                  /\ f.fromState = e.fromState /\ f.toState = e.toState
                  /\ f.sequenceNum = transitionCount
            /\ UNCHANGED <<currentState, sequenceNum, transitionCount, lastCommand, logHead,
                           heard, from, cmd, sent, rc, m7Vars, drainVars, dclean>>
  <1> DEFINE e == log[logHead]
  <1>1. /\ e \in Records /\ logHead \in Slot /\ log \in [Slot -> Records]
        /\ from \in SafeState /\ transitionCount \in Nat
    BY DEF TypeInv
  <1>2. cmd.state \in SafeState /\ Trigger(cmd.faultBitmask) \in Triggers
    BY CommandFields DEF TypeInv, Triggers
  <1>3. /\ [e EXCEPT !.fromState = from] \in Records
        /\ [e EXCEPT !.toState = cmd.state] \in Records
        /\ [e EXCEPT !.triggerDomain = Trigger(cmd.faultBitmask)] \in Records
        /\ [e EXCEPT !.sequenceNum = transitionCount] \in Records
    BY <1>1, <1>2 DEF Records
  <1>4. ASSUME NEW r \in Records, NEW here, NEW next, Fill(here, r, next)
        PROVE  /\ log' \in [Slot -> Records] /\ log'[logHead] = r
               /\ \A k \in Slot : k # logHead => log'[k] = log[k]
               /\ pc = here /\ pc' = next
               /\ UNCHANGED <<currentState, sequenceNum, transitionCount, lastCommand, logHead,
                              heard, from, cmd, sent, rc, m7Vars, drainVars, dclean>>
    BY <1>1, <1>4 DEF Fill
  <1>5. CASE Fill("log", [e EXCEPT !.fromState = from], "log to")
    BY <1>1, <1>3, <1>4, <1>5 DEF Records
  <1>6. CASE Fill("log to", [e EXCEPT !.toState = cmd.state], "log trigger")
    BY <1>1, <1>3, <1>4, <1>6 DEF Records
  <1>7. CASE Fill("log trigger", [e EXCEPT !.triggerDomain = Trigger(cmd.faultBitmask)],
                  "log number")
    BY <1>1, <1>3, <1>4, <1>7 DEF Records
  <1>8. CASE Fill("log number", [e EXCEPT !.sequenceNum = transitionCount], "advance")
    BY <1>1, <1>3, <1>4, <1>8 DEF Records
  <1> QED
    BY <1>5, <1>6, <1>7, <1>8 DEF LogTransition

\* The slot that is i places behind the head.
Back(h, i) == IF h >= i THEN h - i ELSE h + LogSlots - i
Ahead(h) == IF h + 1 < LogSlots THEN h + 1 ELSE 0

\* An index at most one round ahead.
Wrap(x) == IF x < LogSlots THEN x ELSE x - LogSlots

LEMMA RoundOnce == \A x \in Nat : x < 2 * LogSlots => x % LogSlots = Wrap(x)
  BY SizeAssumption, SMTT(30) DEF Wrap

\* A remainder is an index of the log.
LEMMA InRound == \A x \in Int : x % LogSlots \in Slot
  BY SizeAssumption, SMTT(30) DEF Slot

\* The indices of the log, written with a remainder, go round it.
LEMMA Around ==
  /\ LogSlots \in Nat /\ LogSlots >= 1 /\ Slot = 0 .. LogSlots - 1
  /\ \A h \in Slot : (h + 1) % LogSlots = Ahead(h) /\ Ahead(h) \in Slot
  /\ \A h \in Slot, i \in 1 .. LogSlots :
       (h + LogSlots - i) % LogSlots = Back(h, i) /\ Back(h, i) \in Slot
  /\ \A h \in Slot, i \in 1 .. LogSlots - 1 : Back(h, i) # h
  /\ \A h \in Slot : Back(Ahead(h), 1) = h
  /\ \A h \in Slot, i \in 2 .. LogSlots : Back(Ahead(h), i) = Back(h, i - 1)
  <1>1. LogSlots \in Nat /\ LogSlots >= 1
    BY SizeAssumption
  <1>3. ASSUME NEW h \in Slot
        PROVE  (h + 1) % LogSlots = Ahead(h) /\ Ahead(h) \in Slot
    <2>1. h \in Nat /\ h < LogSlots /\ h + 1 \in Nat /\ h + 1 < 2 * LogSlots
      BY <1>1 DEF Slot
    <2>2. (h + 1) % LogSlots = Wrap(h + 1)
      BY <2>1, RoundOnce
    <2>3. Wrap(h + 1) = Ahead(h)
      BY <1>1, <2>1 DEF Wrap, Ahead
    <2>4. Ahead(h) \in Slot
      BY <1>1, <2>1 DEF Ahead, Slot
    <2> QED
      BY <2>2, <2>3, <2>4
  <1>4. ASSUME NEW h \in Slot, NEW i \in 1 .. LogSlots
        PROVE  (h + LogSlots - i) % LogSlots = Back(h, i) /\ Back(h, i) \in Slot
    <2>1. /\ h \in Nat /\ h < LogSlots /\ i \in Nat /\ 1 <= i /\ i <= LogSlots
          /\ h + LogSlots - i \in Nat /\ h + LogSlots - i < 2 * LogSlots
      BY <1>1 DEF Slot
    <2>2. (h + LogSlots - i) % LogSlots = Wrap(h + LogSlots - i)
      BY <2>1, RoundOnce
    <2>3. Wrap(h + LogSlots - i) = Back(h, i)
      BY <1>1, <2>1 DEF Wrap, Back
    <2>4. Back(h, i) \in Slot
      BY <1>1, <2>1 DEF Back, Slot
    <2> QED
      BY <2>2, <2>3, <2>4
  <1>5. \A h \in Slot, i \in 1 .. LogSlots - 1 : Back(h, i) # h
    BY <1>1 DEF Back, Slot
  <1>6. \A h \in Slot : Back(Ahead(h), 1) = h
    BY <1>1 DEF Back, Ahead, Slot
  <1>7. \A h \in Slot, i \in 2 .. LogSlots : Back(Ahead(h), i) = Back(h, i - 1)
    BY <1>1 DEF Back, Ahead, Slot
  <1>8. Slot = 0 .. LogSlots - 1
    BY DEF Slot
  <1> QED
    BY <1>1, <1>3, <1>4, <1>5, <1>6, <1>7, <1>8

LEMMA TypeStep ==
  ASSUME TypeInv, [Next]_vars
  PROVE  TypeInv'
  <1> USE DEF TypeInv, machineVars, loopVars, m7Vars, drainVars
  <1>1. CASE UNCHANGED vars
    BY <1>1 DEF vars
  <1>2. CASE RegisterListener
    BY <1>2, AppendProperties DEF RegisterListener
  <1>3. ASSUME NEW f \in FaultPattern, KeepState(f) PROVE TypeInv'
    BY <1>3 DEF KeepState
  <1>4. ASSUME NEW f \in FaultPattern, BeginTransition(f) PROVE TypeInv'
    <2>1. Command(f, Required(f), sequenceNum + 1) \in Commands
      BY PatternAssumption, States, CommandSays
    <2>2. /\ from' = currentState /\ sequenceNum' = sequenceNum + 1 /\ cmd' \in Commands
          /\ pc' = "send" /\ dclean' = FALSE
      BY <1>4, <2>1 DEF BeginTransition
    <2>3. UNCHANGED <<currentState, transitionCount, lastCommand, log, logHead, heard, queue,
                      m7Cmd, dpc, dsize, dhead, dcount, dbuf>>
      BY <1>4 DEF BeginTransition
    <2>4. from' \in SafeState /\ sequenceNum' \in Nat /\ cmd' \in Commands
      BY <2>2
    <2>5. pc' = "send" /\ dclean' \in BOOLEAN
      BY <2>2
    <2>6. /\ currentState' \in SafeState /\ transitionCount' \in Nat
          /\ lastCommand' \in Commands /\ m7Cmd' \in Commands
      BY <2>3
    <2>7. log' \in [Slot -> Records] /\ logHead' \in Slot
      BY <2>3
    <2>8. heard' \in Seq(Nat) /\ queue' \in Seq(Commands) /\ dbuf' \in Seq(Records)
      BY <2>3
    <2>9. /\ dpc' \in {"idle", "count", "recount", "copy", "returned"}
          /\ dsize' \in Nat /\ dhead' \in Slot /\ dcount' \in Nat
      BY <2>3
    <2> QED
      BY <2>4, <2>5, <2>6, <2>7, <2>8, <2>9
  <1>5. CASE SendCommandToM7
    <2>1. Append(queue, cmd) \in Seq(Commands)
      BY AppendProperties
    <2> QED
      BY <1>5, <2>1 DEF SendCommandToM7
  <1>6. CASE Commit \/ Remember \/ CountTransition
    BY <1>6, CommandFields DEF Commit, Remember, CountTransition, Logging
  <1>7. CASE LogTransition
    <2>1. log' \in [Slot -> Records] /\ pc' \in Filling
      BY <1>7, FillSays DEF Filling
    <2>2. UNCHANGED <<currentState, from, sequenceNum, transitionCount, cmd, lastCommand,
                      m7Cmd, logHead, heard, queue, dbuf, dpc, dsize, dhead, dcount, dclean>>
      BY <1>7, FillSays
    <2>3. log' \in [Slot -> Records] /\ logHead' \in Slot
      BY <2>1, <2>2
    <2>4. /\ currentState' \in SafeState /\ from' \in SafeState
          /\ sequenceNum' \in Nat /\ transitionCount' \in Nat
          /\ cmd' \in Commands /\ lastCommand' \in Commands /\ m7Cmd' \in Commands
      BY <2>2
    <2>5. heard' \in Seq(Nat) /\ queue' \in Seq(Commands) /\ dbuf' \in Seq(Records)
      BY <2>2
    <2>6. /\ pc' \in Logging /\ dpc' \in {"idle", "count", "recount", "copy", "returned"}
          /\ dsize' \in Nat /\ dhead' \in Slot /\ dcount' \in Nat /\ dclean' \in BOOLEAN
      BY <2>1, <2>2 DEF Logging
    <2> QED
      BY <2>3, <2>4, <2>5, <2>6
  <1>8. CASE LogAdvance
    <2>a. (logHead + 1) % LogSlots = Ahead(logHead) /\ Ahead(logHead) \in Slot
      BY Around
    <2>b. logHead' = (logHead + 1) % LogSlots
      BY <1>8 DEF LogAdvance
    <2>1. logHead' \in Slot
      BY <2>a, <2>b
    <2>2. /\ pc' = "notify"
          /\ UNCHANGED <<currentState, from, sequenceNum, transitionCount, cmd, lastCommand,
                         m7Cmd, log, heard, queue, dbuf, dpc, dsize, dhead, dcount, dclean>>
      BY <1>8 DEF LogAdvance
    <2> QED
      BY <2>1, <2>2
  <1>9. ASSUME NEW late \in BOOLEAN, NotifyListeners(late) PROVE TypeInv'
    <2>1. [i \in DOMAIN heard |-> cmd.sequenceNum] \in Seq(Nat)
      <3>1. Len(heard) \in Nat /\ DOMAIN heard = 1 .. Len(heard)
        BY LenProperties
      <3>2. cmd.sequenceNum \in Nat
        BY CommandFields
      <3> QED
        BY <3>1, <3>2
    <2> QED
      BY <1>9, <2>1 DEF NotifyListeners
  <1>10. CASE M7Receive
    BY <1>10, HeadTailProperties DEF M7Receive
  <1>11. ASSUME NEW size \in BufferSizes, DrainBegin(size) PROVE TypeInv'
    BY <1>11, EmptySeq, SizeAssumption DEF DrainBegin
  <1>12. CASE DrainCount \/ DrainRecount \/ DrainReturn
    <2>1. ToCopy(LogSlots) \in Nat /\ ToCopy(transitionCount) \in Nat
      BY Around DEF ToCopy
    <2> QED
      BY <1>12, <2>1 DEF DrainCount, DrainRecount, DrainReturn
  <1>13. CASE DrainCopy
    <2>1. Len(dbuf) \in Nat /\ LogSlots \in Nat /\ dhead \in Nat
      BY LenProperties, Around
    <2>2. dhead + LogSlots - 1 - Len(dbuf) \in Int
      BY <2>1
    <2>3. (dhead + LogSlots - 1 - Len(dbuf)) % LogSlots \in Slot
      BY <2>2, InRound
    <2>5. log[(dhead + LogSlots - 1 - Len(dbuf)) % LogSlots] \in Records
      BY <2>3
    <2>6. dbuf' \in Seq(Records)
      BY <1>13, <2>5, AppendProperties DEF DrainCopy
    <2> QED
      BY <1>13, <2>6 DEF DrainCopy
  <1>14. CASE DrainSleep
    <2>1. 0 \in Slot
      BY Around
    <2> QED
      BY <1>14, <2>1, EmptySeq DEF DrainSleep
  <1> QED
    BY <1>1, <1>2, <1>3, <1>4, <1>5, <1>6, <1>7, <1>8, <1>9, <1>10, <1>11, <1>12, <1>13,
       <1>14 DEF Next, Arbitrate, Drain

-----------------------------------------------------------------------------
(* The state machine: what holds inside a transition.                      *)

\* The number and the command are ahead of the count of transitions until it
\* is raised; the state follows the command when it is committed, lastCommand_
\* one step later.
StageInv ==
  /\ pc \in Logging => transitionCount >= 1
  /\ sequenceNum = IF pc \in {"send", "commit", "remember", "count"}
                   THEN transitionCount + 1 ELSE transitionCount
  /\ cmd.sequenceNum = sequenceNum
  /\ currentState = IF pc \in {"send", "commit"} THEN from ELSE cmd.state
  /\ pc \notin {"send", "commit", "remember"} => lastCommand = cmd
  /\ pc = "idle" => \A i \in DOMAIN heard : heard[i] = sequenceNum

\* A command that was sent is the last one in the ring or the one the M7 obeys.
SentInv ==
  pc # "send" /\ sent = "ok" =>
    IF queue = <<>> THEN m7Cmd = cmd ELSE queue[Len(queue)] = cmd

\* What the log holds: between the count and the advance of the head the
\* transition under way is not in it yet, and from the first field on its oldest
\* slot is being overwritten.
Logged == IF pc \in Logging THEN transitionCount - 1 ELSE transitionCount
Places == IF pc \in Filling THEN LogSlots - 1 ELSE LogSlots
Intact == IF Logged > Places THEN Places ELSE Logged
Entry(i) == log[Back(logHead, i)]
Prior == IF pc \in {"idle", "notify"} THEN currentState ELSE from

LogInv ==
  /\ \A i \in 1 .. Intact : Entry(i).sequenceNum = Logged - i + 1
  /\ \A i \in 1 .. Intact - 1 : Entry(i).fromState = Entry(i + 1).toState
  /\ Intact > 0 => Entry(1).toState = Prior
  /\ pc \in Filling => log[logHead].fromState = from
  /\ pc \in Filling \ {"log to"} => log[logHead].toState = cmd.state
  /\ pc = "advance" => log[logHead].sequenceNum = transitionCount

\* A drain that nothing overlaps has copied the newest entries in their order.
DrainInv ==
  dpc # "idle" /\ dclean =>
    /\ pc = "idle" /\ dhead = logHead
    /\ dpc \in {"count", "recount"} => dbuf = <<>>
    /\ dpc = "recount" => transitionCount = Kept
    /\ dpc \in {"copy", "returned"} =>
         /\ dcount = ToCopy(Kept) /\ Len(dbuf) <= dcount
         /\ \A i \in 1 .. Len(dbuf) : dbuf[i] = Entry(i)
    /\ dpc = "returned" => Len(dbuf) = dcount

MachineInv == TypeInv /\ StageInv /\ SentInv /\ LogInv /\ DrainInv

\* The numbers and the state keep their order.
LEMMA StageStep ==
  ASSUME TypeInv, StageInv, [Next]_vars
  PROVE  StageInv'
  <1> USE DEF StageInv, Logging, Filling, machineVars, loopVars, m7Vars, drainVars
  <1>0. sequenceNum \in Nat /\ transitionCount \in Nat /\ heard \in Seq(Nat)
    BY DEF TypeInv
  <1>1. CASE UNCHANGED vars \/ M7Receive \/ Drain
    BY <1>1 DEF vars, M7Receive, Drain, DrainBegin, DrainCount, DrainRecount, DrainCopy,
                DrainReturn, DrainSleep
  <1>2. CASE RegisterListener
    <2>1. heard' = Append(heard, sequenceNum) /\ pc' = "idle" /\ pc = "idle"
      BY <1>2 DEF RegisterListener
    <2>2. \A i \in DOMAIN heard' : heard'[i] = sequenceNum
      <3>1. /\ Len(heard) \in Nat /\ DOMAIN heard = 1 .. Len(heard)
            /\ DOMAIN heard' = 1 .. Len(heard) + 1
            /\ \A i \in 1 .. Len(heard) : heard'[i] = heard[i]
            /\ heard'[Len(heard) + 1] = sequenceNum
        BY <1>0, <2>1, AppendProperties, LenProperties
      <3> QED
        BY <2>1, <3>1
    <2> QED
      BY <1>2, <2>1, <2>2 DEF RegisterListener
  <1>3. ASSUME NEW f \in FaultPattern, KeepState(f) PROVE StageInv'
    BY <1>3 DEF KeepState
  <1>4. ASSUME NEW f \in FaultPattern, BeginTransition(f) PROVE StageInv'
    <2>1. cmd' = Command(f, Required(f), sequenceNum + 1)
          /\ sequenceNum' = sequenceNum + 1 /\ pc' = "send" /\ pc = "idle"
          /\ from' = currentState
          /\ UNCHANGED <<currentState, transitionCount, lastCommand, heard>>
      BY <1>4 DEF BeginTransition
    <2>2. cmd'.sequenceNum = sequenceNum + 1
      BY <1>0, <2>1, PatternAssumption, States, CommandSays
    <2> QED
      BY <1>0, <2>1, <2>2
  <1>5. CASE SendCommandToM7
    BY <1>5 DEF SendCommandToM7
  <1>6. CASE Commit
    BY <1>6 DEF Commit
  <1>7. CASE Remember
    BY <1>7 DEF Remember
  <1>8. CASE CountTransition
    BY <1>0, <1>8 DEF CountTransition
  <1>9. CASE LogTransition
    <2>1. /\ pc \in Logging /\ pc' \in Logging
          /\ UNCHANGED <<currentState, sequenceNum, transitionCount, lastCommand, heard, from,
                         cmd>>
      BY <1>9, FillSays
    <2> QED
      BY <2>1
  <1>10. CASE LogAdvance
    BY <1>10 DEF LogAdvance
  <1>11. ASSUME NEW late \in BOOLEAN, NotifyListeners(late) PROVE StageInv'
    BY <1>11 DEF NotifyListeners
  <1> QED
    BY <1>1, <1>2, <1>3, <1>4, <1>5, <1>6, <1>7, <1>8, <1>9, <1>10, <1>11 DEF Next, Arbitrate

\* So do the commands on their way.
LEMMA SentStep ==
  ASSUME TypeInv, SentInv, [Next]_vars
  PROVE  SentInv'
  <1> USE DEF SentInv, machineVars, loopVars, m7Vars, drainVars
  <1>0. queue \in Seq(Commands) /\ cmd \in Commands
    BY DEF TypeInv
  <1>1. CASE UNCHANGED vars \/ RegisterListener \/ Drain
    BY <1>1 DEF vars, RegisterListener, Drain, DrainBegin, DrainCount, DrainRecount,
                DrainCopy, DrainReturn, DrainSleep
  <1>2. ASSUME NEW f \in FaultPattern, KeepState(f) \/ BeginTransition(f) PROVE SentInv'
    BY <1>2 DEF KeepState, BeginTransition
  <1>3. CASE SendCommandToM7
    <2>1. CASE Len(queue) < Capacity
      <3>1. queue' = Append(queue, cmd) /\ cmd' = cmd
        BY <1>3, <2>1 DEF SendCommandToM7
      <3>2. queue' # <<>> /\ Len(queue') = Len(queue) + 1 /\ queue'[Len(queue) + 1] = cmd
        BY <1>0, <3>1, AppendProperties
      <3> QED
        BY <3>1, <3>2
    <2>2. CASE ~(Len(queue) < Capacity)
      BY <1>3, <2>2 DEF SendCommandToM7
    <2> QED
      BY <2>1, <2>2
  <1>4. CASE Commit \/ Remember \/ CountTransition \/ LogTransition \/ LogAdvance
    BY <1>4 DEF Commit, Remember, CountTransition, LogTransition, Fill, LogAdvance
  <1>5. ASSUME NEW late \in BOOLEAN, NotifyListeners(late) PROVE SentInv'
    BY <1>5 DEF NotifyListeners
  <1>6. CASE M7Receive
    <2>1. /\ queue # <<>> /\ m7Cmd' = Head(queue) /\ queue' = Tail(queue)
          /\ UNCHANGED <<pc, cmd, sent>>
      BY <1>6 DEF M7Receive
    <2>2. /\ Len(queue) \in Nat /\ Len(queue') \in Nat /\ Len(queue') = Len(queue) - 1
          /\ \A i \in 1 .. Len(queue') : queue'[i] = queue[i + 1]
          /\ Len(queue) >= 1 /\ queue' \in Seq(Commands)
      BY <1>0, <2>1, HeadTailProperties, LenProperties, EmptySeq
    <2>3. CASE queue' = <<>>
      <3>1. Len(queue) = 1
        BY <2>2, <2>3, EmptySeq
      <3>2. m7Cmd' = queue[Len(queue)]
        BY <2>1, <3>1
      <3> QED
        BY <2>1, <2>3, <3>2
    <2>4. CASE queue' # <<>>
      <3>1. Len(queue') \in 1 .. Len(queue')
        BY <2>2, <2>4, EmptySeq
      <3>2. queue'[Len(queue')] = queue[Len(queue)]
        BY <2>2, <3>1
      <3> QED
        BY <2>1, <2>4, <3>2
    <2> QED
      BY <2>3, <2>4
  <1> QED
    BY <1>1, <1>2, <1>3, <1>4, <1>5, <1>6 DEF Next, Arbitrate

\* A step that touches neither the log nor what it is compared with keeps it.
LEMMA LogUntouched ==
  ASSUME LogInv, UNCHANGED <<transitionCount, log, logHead>>,
         Logged' = Logged, Places' = Places, Prior' = Prior, pc' \notin Filling
  PROVE  LogInv'
  <1>1. Intact' = Intact
    BY DEF Intact
  <1>2. \A i : Entry(i)' = Entry(i)
    BY DEF Entry, Back
  <1> QED
    BY <1>1, <1>2 DEF LogInv, Filling

\* The log keeps the last transitions in their order.
LEMMA LogStep ==
  ASSUME TypeInv, StageInv, LogInv, [Next]_vars
  PROVE  LogInv'
  <1> USE DEF Logging, Filling, machineVars, loopVars, m7Vars, drainVars
  <1>0. /\ transitionCount \in Nat /\ log \in [Slot -> Records] /\ logHead \in Slot
        /\ LogSlots \in Nat /\ LogSlots >= 1
    BY Around DEF TypeInv
  <1>1. CASE UNCHANGED <<transitionCount, log, logHead, pc, from, cmd, currentState>>
    <2>1. Logged' = Logged /\ Places' = Places /\ Prior' = Prior
      BY <1>1 DEF Logged, Places, Prior
    <2>2. Intact' = Intact
      BY <2>1 DEF Intact
    <2>3. \A i : Entry(i)' = Entry(i)
      BY <1>1 DEF Entry, Back
    <2> QED
      BY <1>1, <2>1, <2>2, <2>3 DEF LogInv
  <1>2. CASE UNCHANGED vars \/ RegisterListener \/ M7Receive \/ Drain
    BY <1>1, <1>2 DEF vars, RegisterListener, M7Receive, Drain, DrainBegin, DrainCount,
                      DrainRecount, DrainCopy, DrainReturn, DrainSleep
  <1>3. ASSUME NEW f \in FaultPattern, KeepState(f) PROVE LogInv'
    BY <1>1, <1>3 DEF KeepState
  <1>4. ASSUME NEW f \in FaultPattern, BeginTransition(f) PROVE LogInv'
    <2>1. /\ pc = "idle" /\ pc' = "send" /\ from' = currentState
          /\ UNCHANGED <<transitionCount, log, logHead>>
      BY <1>4 DEF BeginTransition
    <2>2. Logged' = Logged /\ Places' = Places /\ Prior' = Prior
      BY <2>1 DEF Logged, Places, Prior
    <2> QED
      BY <2>1, <2>2, LogUntouched
  <1>5. CASE SendCommandToM7 \/ Commit \/ Remember
    <2>1. /\ pc \in {"send", "commit", "remember"} /\ pc' \in {"commit", "remember", "count"}
          /\ UNCHANGED <<transitionCount, log, logHead, from>>
      BY <1>5 DEF SendCommandToM7, Commit, Remember
    <2>2. Logged' = Logged /\ Places' = Places /\ Prior' = Prior
      BY <2>1 DEF Logged, Places, Prior
    <2> QED
      BY <2>1, <2>2, LogUntouched
  <1>6. CASE CountTransition
    <2>1. /\ pc = "count" /\ pc' = "log" /\ transitionCount' = transitionCount + 1
          /\ UNCHANGED <<log, logHead, from>>
      BY <1>6 DEF CountTransition
    <2>2. Logged' = Logged /\ Places' = Places /\ Prior' = Prior
      BY <1>0, <2>1 DEF Logged, Places, Prior
    <2>3. Intact' = Intact /\ \A i : Entry(i)' = Entry(i)
      BY <2>1, <2>2 DEF Intact, Entry, Back
    <2> QED
      BY <2>1, <2>2, <2>3 DEF LogInv
  <1>7. CASE LogTransition
    <2>1. /\ pc \in Logging \ {"advance"} /\ pc' \in Filling
          /\ \A k \in Slot : k # logHead => log'[k] = log[k]
          /\ UNCHANGED <<transitionCount, logHead, from, cmd>>
      BY <1>7, FillSays
    <2>2. /\ Logged' = Logged /\ Places' = LogSlots - 1 /\ Places' <= Places
          /\ Prior' = Prior /\ Logged \in Nat /\ Places \in Nat
      <3>1. Logged' = Logged /\ Logged = transitionCount - 1
        BY <2>1 DEF Logged
      <3>2. Places' = LogSlots - 1 /\ Places \in {LogSlots - 1, LogSlots}
        BY <2>1 DEF Places
      <3>3. Prior' = Prior
        BY <2>1 DEF Prior
      <3>4. transitionCount >= 1
        BY <2>1 DEF StageInv
      <3> QED
        BY <1>0, <3>1, <3>2, <3>3, <3>4
    <2>3. Intact \in Nat /\ Intact' \in Nat /\ Intact' <= Intact /\ Intact' <= LogSlots - 1
      BY <1>0, <2>2 DEF Intact
    <2>4. \A i \in 1 .. LogSlots - 1 : Entry(i)' = Entry(i)
      <3>1. SUFFICES ASSUME NEW i \in 1 .. LogSlots - 1 PROVE Entry(i)' = Entry(i)
        OBVIOUS
      <3>2. Back(logHead, i) # logHead /\ Back(logHead, i) \in Slot
        <4>1. i \in 1 .. LogSlots
          BY <1>0
        <4> QED
          BY <1>0, <4>1, Around
      <3>3. Entry(i)' = log'[Back(logHead, i)]
        BY <2>1 DEF Entry, Back
      <3> QED
        BY <2>1, <3>2, <3>3 DEF Entry
    <2>5. /\ log'[logHead].fromState = from
          /\ pc' # "log to" => log'[logHead].toState = cmd.state
          /\ pc' = "advance" => log'[logHead].sequenceNum = transitionCount
      BY <1>7, FillSays DEF LogInv
    <2>6. /\ \A i \in 1 .. Intact : Entry(i).sequenceNum = Logged - i + 1
          /\ \A i \in 1 .. Intact - 1 : Entry(i).fromState = Entry(i + 1).toState
          /\ Intact > 0 => Entry(1).toState = Prior
      BY DEF LogInv
    <2>7. \A i \in 1 .. Intact' : i \in 1 .. Intact /\ Entry(i)' = Entry(i)
      BY <1>0, <2>3, <2>4
    <2>8. \A i \in 1 .. Intact' : Entry(i)'.sequenceNum = Logged' - i + 1
      BY <2>2, <2>6, <2>7
    <2>9. ASSUME NEW i \in 1 .. Intact' - 1 PROVE Entry(i)'.fromState = Entry(i + 1)'.toState
      <3>1. i \in 1 .. Intact' /\ i + 1 \in 1 .. Intact' /\ i \in 1 .. Intact - 1
        <4>1. \A m, n \in Nat : m <= n =>
                \A k \in 1 .. m - 1 : k \in 1 .. m /\ k + 1 \in 1 .. m /\ k \in 1 .. n - 1
          OBVIOUS
        <4> QED
          BY <2>3, <4>1
      <3>2. Entry(i)' = Entry(i) /\ Entry(i + 1)' = Entry(i + 1)
        BY <2>7, <3>1
      <3>3. Entry(i).fromState = Entry(i + 1).toState
        BY <2>6, <3>1
      <3> QED
        BY <3>2, <3>3
    <2>10. Intact' > 0 => Entry(1)'.toState = Prior'
      <3>1. Intact' > 0 => Intact > 0 /\ 1 \in 1 .. Intact'
        BY <2>3
      <3> QED
        BY <2>2, <2>6, <2>7, <3>1
    <2> QED
      BY <2>1, <2>5, <2>8, <2>9, <2>10 DEF LogInv
  <1>8. CASE LogAdvance
    <2>1. /\ pc = "advance" /\ pc' = "notify" /\ logHead' = Ahead(logHead)
          /\ UNCHANGED <<transitionCount, log, from, cmd, currentState>>
      BY <1>0, <1>8, Around DEF LogAdvance
    <2>2. /\ Logged' = Logged + 1 /\ Places = LogSlots - 1 /\ Places' = LogSlots
          /\ Prior = from /\ Prior' = cmd.state /\ Logged' = transitionCount /\ Logged \in Nat
      BY <1>0, <2>1 DEF Logged, Places, Prior, StageInv
    <2>3. Intact \in Nat /\ Intact' = Intact + 1 /\ Intact' <= LogSlots
      BY <1>0, <2>2 DEF Intact
    <2>4. Entry(1)' = log[logHead]
      <3>1. Entry(1)' = log[Back(Ahead(logHead), 1)]
        BY <2>1 DEF Entry, Back
      <3> QED
        BY <1>0, <3>1, Around
    <2>5. \A i \in 2 .. Intact' : Entry(i)' = Entry(i - 1)
      <3>1. SUFFICES ASSUME NEW i \in 2 .. Intact' PROVE Entry(i)' = Entry(i - 1)
        OBVIOUS
      <3>2. Entry(i)' = log[Back(Ahead(logHead), i)]
        BY <2>1 DEF Entry, Back
      <3>3. i \in 2 .. LogSlots
        BY <1>0, <2>3
      <3> QED
        BY <1>0, <3>2, <3>3, Around DEF Entry
    <2>6. /\ log[logHead].sequenceNum = transitionCount /\ log[logHead].fromState = from
          /\ log[logHead].toState = cmd.state
      BY <2>1 DEF LogInv
    <2>7. ASSUME NEW i \in 1 .. Intact' PROVE Entry(i)'.sequenceNum = Logged' - i + 1
      <3>1. CASE i = 1
        BY <1>0, <2>2, <2>4, <2>6, <3>1
      <3>2. CASE i # 1
        <4>1. i \in 2 .. Intact' /\ i - 1 \in 1 .. Intact
          BY <2>3, <3>2
        <4>2. Entry(i - 1).sequenceNum = Logged - (i - 1) + 1
          BY <4>1 DEF LogInv
        <4> QED
          BY <2>2, <2>5, <4>1, <4>2
      <3> QED
        BY <3>1, <3>2
    <2>8. ASSUME NEW i \in 1 .. Intact' - 1 PROVE Entry(i)'.fromState = Entry(i + 1)'.toState
      <3>1. i + 1 \in 2 .. Intact' /\ Entry(i + 1)' = Entry(i)
        BY <2>3, <2>5
      <3>2. CASE i = 1
        BY <2>2, <2>3, <2>4, <2>6, <3>1, <3>2 DEF LogInv
      <3>3. CASE i # 1
        <4>1. i \in 2 .. Intact' /\ i - 1 \in 1 .. Intact - 1 /\ (i - 1) + 1 = i
          BY <2>3, <3>3
        <4>2. Entry(i - 1).fromState = Entry(i).toState
          BY <4>1 DEF LogInv
        <4> QED
          BY <2>5, <3>1, <4>1, <4>2
      <3> QED
        BY <3>2, <3>3
    <2>9. Entry(1)'.toState = Prior'
      BY <2>2, <2>4, <2>6
    <2> QED
      BY <2>1, <2>7, <2>8, <2>9 DEF LogInv
  <1>9. ASSUME NEW late \in BOOLEAN, NotifyListeners(late) PROVE LogInv'
    <2>1. /\ pc = "notify" /\ pc' = "idle"
          /\ UNCHANGED <<transitionCount, log, logHead, currentState>>
      BY <1>9 DEF NotifyListeners
    <2>2. Logged' = Logged /\ Places' = Places /\ Prior' = Prior
      BY <2>1 DEF Logged, Places, Prior
    <2> QED
      BY <2>1, <2>2, LogUntouched
  <1> QED
    BY <1>2, <1>3, <1>4, <1>5, <1>6, <1>7, <1>8, <1>9 DEF Next, Arbitrate

\* A drain that no transition overlaps copies entry after entry.
LEMMA DrainStep ==
  ASSUME TypeInv, DrainInv, [Next]_vars
  PROVE  DrainInv'
  <1> USE DEF machineVars, loopVars, m7Vars, drainVars
  <1>0. /\ transitionCount \in Nat /\ logHead \in Slot /\ LogSlots \in Nat /\ LogSlots >= 1
        /\ dbuf \in Seq(Records) /\ log \in [Slot -> Records] /\ dsize \in Nat
    BY Around DEF TypeInv
  <1>a. /\ Kept \in 0 .. LogSlots
        /\ ToCopy(Kept) \in Nat /\ ToCopy(Kept) <= Kept
    BY <1>0 DEF Kept, ToCopy
  <1>1. CASE UNCHANGED <<transitionCount, log, logHead, pc, drainVars, dclean>>
    <2>1. Kept' = Kept /\ ToCopy(Kept)' = ToCopy(Kept) /\ \A i : Entry(i)' = Entry(i)
      BY <1>1 DEF Kept, ToCopy, Entry, Back
    <2> QED
      BY <1>1, <2>1 DEF DrainInv
  <1>2. CASE UNCHANGED vars \/ RegisterListener \/ M7Receive
    BY <1>1, <1>2 DEF vars, RegisterListener, M7Receive
  <1>3. ASSUME NEW f \in FaultPattern, KeepState(f) PROVE DrainInv'
    BY <1>1, <1>3 DEF KeepState
  <1>4. ASSUME NEW f \in FaultPattern, BeginTransition(f) PROVE DrainInv'
    BY <1>4 DEF BeginTransition, DrainInv
  <1>5. ASSUME pc # "idle", UNCHANGED <<dpc, dclean>> PROVE DrainInv'
    BY <1>5 DEF DrainInv
  <1>6. CASE \/ SendCommandToM7 \/ Commit \/ Remember \/ CountTransition
             \/ LogTransition \/ LogAdvance
    BY <1>5, <1>6 DEF SendCommandToM7, Commit, Remember, CountTransition, LogTransition, Fill,
                      LogAdvance
  <1>7. ASSUME NEW late \in BOOLEAN, NotifyListeners(late) PROVE DrainInv'
    BY <1>5, <1>7 DEF NotifyListeners
  <1>8. ASSUME NEW size \in BufferSizes, DrainBegin(size) PROVE DrainInv'
    BY <1>8 DEF DrainBegin, DrainInv
  <1>9. CASE DrainCount \/ DrainRecount
    <2>1. /\ dpc \in {"count", "recount"} /\ dpc' \in {"recount", "copy"}
          /\ UNCHANGED <<transitionCount, logHead, pc, dsize, dhead, dbuf, dclean>>
      BY <1>9 DEF DrainCount, DrainRecount
    <2>2. Kept' = Kept /\ ToCopy(Kept)' = ToCopy(Kept)
      BY <2>1 DEF Kept, ToCopy
    <2>3. dclean => dbuf' = <<>> /\ Len(dbuf') = 0
      BY <2>1 DEF DrainInv
    <2>4. dclean /\ dpc' = "copy" => dcount' = ToCopy(Kept)
      BY <1>9, <2>1 DEF DrainCount, DrainRecount, DrainInv, Kept
    <2>5. dpc' = "recount" => transitionCount = Kept
      BY <1>0, <1>9, <2>1 DEF DrainCount, DrainRecount, Kept
    <2> QED
      BY <1>a, <2>1, <2>2, <2>3, <2>4, <2>5 DEF DrainInv
  <1>10. CASE DrainCopy
    <2> DEFINE n == Len(dbuf)
    <2>1. /\ dpc = "copy" /\ n < dcount
          /\ dbuf' = Append(dbuf, log[(dhead + LogSlots - 1 - n) % LogSlots])
          /\ UNCHANGED <<transitionCount, log, logHead, pc, dpc, dsize, dhead, dcount, dclean>>
      BY <1>10 DEF DrainCopy
    <2>2. Kept' = Kept /\ ToCopy(Kept)' = ToCopy(Kept) /\ \A i : Entry(i)' = Entry(i)
      BY <2>1 DEF Kept, ToCopy, Entry, Back
    <2>3. CASE ~dclean
      BY <2>1, <2>3 DEF DrainInv
    <2>4. CASE dclean
      <3>1. /\ pc = "idle" /\ dhead = logHead /\ dcount = ToCopy(Kept)
            /\ \A i \in 1 .. n : dbuf[i] = Entry(i)
        BY <2>1, <2>4 DEF DrainInv
      <3>2. n \in Nat /\ n + 1 \in 1 .. LogSlots /\ n + 1 <= dcount
        BY <1>0, <1>a, <2>1, <3>1, LenProperties
      <3>3. dhead + LogSlots - 1 - n = logHead + LogSlots - (n + 1)
        BY <1>0, <3>1, <3>2 DEF Slot
      <3>4. log[(dhead + LogSlots - 1 - n) % LogSlots] = Entry(n + 1)
        <4>1. (logHead + LogSlots - (n + 1)) % LogSlots = Back(logHead, n + 1)
          BY <1>0, <3>2, Around
        <4> QED
          BY <3>3, <4>1 DEF Entry
      <3>5. Entry(n + 1) \in Records
        BY <1>0, <3>2, Around DEF Entry
      <3>6. /\ Len(dbuf') = n + 1 /\ dbuf'[n + 1] = Entry(n + 1)
            /\ \A i \in 1 .. n : dbuf'[i] = dbuf[i]
        BY <1>0, <2>1, <3>4, <3>5, AppendProperties
      <3>7. \A i \in 1 .. n + 1 : dbuf'[i] = Entry(i)'
        BY <2>2, <3>1, <3>2, <3>6
      <3> QED
        BY <2>1, <2>2, <3>1, <3>2, <3>6, <3>7 DEF DrainInv
    <2> QED
      BY <2>3, <2>4
  <1>11. CASE DrainReturn
    <2>1. /\ dpc = "copy" /\ dpc' = "returned" /\ Len(dbuf) = dcount
          /\ UNCHANGED <<transitionCount, log, logHead, pc, dsize, dhead, dcount, dbuf, dclean>>
      BY <1>11 DEF DrainReturn
    <2>2. Kept' = Kept /\ ToCopy(Kept)' = ToCopy(Kept) /\ \A i : Entry(i)' = Entry(i)
      BY <2>1 DEF Kept, ToCopy, Entry, Back
    <2> QED
      BY <2>1, <2>2 DEF DrainInv
  <1>12. CASE DrainSleep
    BY <1>12 DEF DrainSleep, DrainInv
  <1> QED
    BY <1>2, <1>3, <1>4, <1>6, <1>7, <1>8, <1>9, <1>10, <1>11, <1>12 DEF Next, Arbitrate, Drain

\* The machine starts in order.
LEMMA MachineInit == Init => MachineInv
  <1> SUFFICES ASSUME Init PROVE MachineInv
    OBVIOUS
  <1>1. InitialCommand \in Commands
        /\ InitialCommand.state = kFullOperation /\ InitialCommand.sequenceNum = 0
    BY States, CommandSays DEF InitialCommand
  <1>2. 0 \in Slot /\ LogSlots \in Nat /\ LogSlots >= 1
    BY Around
  <1>3. TypeInv
    BY <1>1, <1>2, States, DefaultIsRecord, EmptySeq DEF Init, TypeInv
  <1>4. StageInv
    BY <1>1 DEF Init, StageInv, Logging, Filling
  <1>5. SentInv
    BY DEF Init, SentInv
  <1>6. LogInv
    <2>1. pc = "idle" /\ transitionCount = 0
      BY DEF Init
    <2>2. Intact = 0
      BY <1>2, <2>1 DEF Intact, Logged, Places, Logging, Filling
    <2> QED
      BY <2>1, <2>2 DEF LogInv, Filling
  <1>7. DrainInv
    BY DEF Init, DrainInv
  <1> QED
    BY <1>3, <1>4, <1>5, <1>6, <1>7 DEF MachineInv

\* Between two steps of the loop, of the M7 and of the diagnostic task, for any
\* fault masks, any size of the log and of the ring and any number of
\* listeners: the numbers, the states, the log and the commands on their way
\* belong to the same transitions.
THEOREM MachineCorrect == Spec => []MachineInv
  <1>1. MachineInv /\ [Next]_vars => MachineInv'
    BY TypeStep, StageStep, SentStep, LogStep, DrainStep DEF MachineInv
  <1> QED
    BY MachineInit, <1>1, PTL DEF Spec

\* What the properties call the newest records are the log's last entries.
LEMMA NewestIsEntry ==
  ASSUME logHead \in Slot
  PROVE  \A i \in 1 .. LogSlots : Newest(i) = Entry(i)
  <1>1. \A i \in 1 .. LogSlots : (logHead + LogSlots - i) % LogSlots = Back(logHead, i)
    BY Around
  <1> QED
    BY <1>1 DEF Newest, Entry

\* Between two transitions lastCommand_, the state, the counters, the listeners
\* and the log agree, and the log holds the last transitions without a gap.
THEOREM LogAgrees == Spec => []BookkeepingAgrees
  <1>1. MachineInv => BookkeepingAgrees
    <2> SUFFICES ASSUME MachineInv, pc = "idle" PROVE BookkeepingAgrees
      BY DEF BookkeepingAgrees
    <2>1. /\ transitionCount \in Nat /\ logHead \in Slot /\ LogSlots \in Nat /\ LogSlots >= 1
      BY Around DEF MachineInv, TypeInv
    <2>2. Intact = Kept /\ Kept \in Nat /\ Kept <= LogSlots /\ Logged = transitionCount
          /\ Prior = currentState
      BY <2>1 DEF Intact, Logged, Places, Logging, Filling, Kept, Prior
    <2>3. \A i \in 1 .. Kept : Newest(i) = Entry(i)
      <3>1. \A i \in 1 .. Kept : i \in 1 .. LogSlots
        BY <2>1, <2>2
      <3> QED
        BY <2>1, <3>1, NewestIsEntry
    <2>4. /\ lastCommand.state = currentState
          /\ sequenceNum = transitionCount /\ lastCommand.sequenceNum = sequenceNum
          /\ \A i \in DOMAIN heard : heard[i] = sequenceNum
      BY DEF MachineInv, StageInv
    <2>5. Kept > 0 => Newest(1).toState = currentState
      <3>1. Kept > 0 => 1 \in 1 .. Kept
        BY <2>2
      <3> QED
        BY <2>2, <2>3, <3>1 DEF MachineInv, LogInv
    <2>6. \A i \in 1 .. Kept : Newest(i).sequenceNum = transitionCount - i + 1
      BY <2>2, <2>3 DEF MachineInv, LogInv
    <2>7. ASSUME NEW i \in 1 .. Kept - 1 PROVE Newest(i).fromState = Newest(i + 1).toState
      <3>1. i \in 1 .. Kept /\ i + 1 \in 1 .. Kept
        BY <2>2
      <3> QED
        BY <2>2, <2>3, <3>1 DEF MachineInv, LogInv
    <2> QED
      BY <2>4, <2>5, <2>6, <2>7 DEF BookkeepingAgrees
  <1> QED
    BY MachineCorrect, <1>1, PTL

\* Once the M7 has emptied the ring it obeys the command that ExecuteTransition()
\* recorded, unless the bridge refused that very command, whatever Arbitrate()
\* returned.
THEOREM CommandArrives == Spec => []M7InStep
  <1>1. MachineInv => M7InStep
    BY DEF MachineInv, StageInv, SentInv, M7InStep
  <1> QED
    BY MachineCorrect, <1>1, PTL

\* DrainTransitionLog() returns the kept records, newest first and as many as the
\* buffer takes, when no transition overlaps it.
THEOREM QuietDrain == Spec => []QuietDrainExact
  <1>1. MachineInv => QuietDrainExact
    <2> SUFFICES ASSUME MachineInv, dpc = "returned", dclean
                 PROVE  Len(dbuf) = ToCopy(Kept) /\ \A i \in DOMAIN dbuf : dbuf[i] = Newest(i)
      BY DEF QuietDrainExact
    <2>1. /\ transitionCount \in Nat /\ logHead \in Slot /\ LogSlots \in Nat /\ LogSlots >= 1
          /\ dsize \in Nat /\ dbuf \in Seq(Records)
      BY Around DEF MachineInv, TypeInv
    <2>2. Len(dbuf) = ToCopy(Kept) /\ \A i \in 1 .. Len(dbuf) : dbuf[i] = Entry(i)
      BY DEF MachineInv, DrainInv
    <2>3. \A i \in 1 .. ToCopy(Kept) : i \in 1 .. LogSlots
      BY <2>1 DEF Kept, ToCopy
    <2>4. \A i \in 1 .. Len(dbuf) : dbuf[i] = Newest(i)
      BY <2>1, <2>2, <2>3, NewestIsEntry
    <2>5. DOMAIN dbuf = 1 .. Len(dbuf)
      BY <2>1, LenProperties
    <2> QED
      BY <2>2, <2>4, <2>5
  <1> QED
    BY MachineCorrect, <1>1, PTL

-----------------------------------------------------------------------------
(* What the machine implements.                                            *)

\* The states called for by the fault masks that can occur, and what the
\* specification of commanded states speaks of.
CalledState == {Required(f) : f \in FaultPattern}
InTransition == pc \in {"send", "commit"}
Phase == IF InTransition THEN pc ELSE "idle"
Destination == IF InTransition THEN cmd.state ELSE currentState
Commanded == [i \in 1 .. Len(queue) |-> queue[i].state]

Control == INSTANCE CommandedState WITH
             Called <- CalledState, Initial <- kFullOperation, Latched <- kEmergencyStop,
             phase <- Phase, current <- currentState, target <- Destination,
             queue <- Commanded, enforced <- m7Cmd.state

\* Taking the state of each command keeps the ring's length and order.
LEMMA CommandedSays ==
  ASSUME queue \in Seq(Commands)
  PROVE  /\ Commanded \in Seq(SafeState) /\ Len(Commanded) = Len(queue)
         /\ \A i \in 1 .. Len(queue) : Commanded[i] = queue[i].state
  <1> DEFINE n == Len(queue)
  <1>1. n \in Nat /\ DOMAIN queue = 1 .. n
    BY LenProperties
  <1>2. \A i \in 1 .. n : queue[i] \in Commands
    BY <1>1, ElementOfSeq
  <1>3. \A i \in 1 .. n : queue[i].state \in SafeState
    BY <1>2, CommandFields
  <1>4. DOMAIN Commanded = 1 .. n /\ Commanded \in Seq(SafeState)
    BY <1>1, <1>3, IsASeq DEF Commanded
  <1>5. Len(Commanded) = n
    BY <1>1, <1>4, LenProperties
  <1> QED
    BY <1>4, <1>5 DEF Commanded

\* A command appended to the ring is a state appended to those commanded.
LEMMA CommandedAppend ==
  ASSUME queue \in Seq(Commands), NEW c \in Commands, queue' = Append(queue, c)
  PROVE  Commanded' = Append(Commanded, c.state)
  <1> DEFINE n == Len(queue)
  <1>1. /\ n \in Nat /\ Len(queue') = n + 1 /\ queue'[n + 1] = c
        /\ \A i \in 1 .. n : queue'[i] = queue[i]
    BY LenProperties, AppendProperties
  <1>2. Commanded' = [i \in 1 .. n + 1 |-> queue'[i].state]
    BY <1>1 DEF Commanded
  <1>3. c.state \in SafeState
    BY CommandFields
  <1>4. Append(Commanded, c.state) =
          [i \in 1 .. n + 1 |-> IF i = n + 1 THEN c.state ELSE Commanded[i]]
    BY <1>3, CommandedSays
  <1>5. \A i \in 1 .. n + 1 : queue'[i].state = IF i = n + 1 THEN c.state ELSE Commanded[i]
    BY <1>1, CommandedSays
  <1> QED
    BY <1>2, <1>4, <1>5

\* A command taken from the ring takes the oldest state.
LEMMA CommandedTail ==
  ASSUME queue \in Seq(Commands), queue # <<>>, queue' = Tail(queue)
  PROVE  /\ Commanded # <<>> /\ Head(Commanded) = Head(queue).state
         /\ Commanded' = Tail(Commanded)
  <1> DEFINE n == Len(queue)
  <1>1. n \in Nat /\ n >= 1 /\ 1 \in 1 .. n
    BY LenProperties, EmptySeq
  <1>2. /\ Len(queue') = n - 1 /\ Head(queue) = queue[1]
        /\ \A i \in 1 .. n - 1 : queue'[i] = queue[i + 1]
    BY HeadTailProperties
  <1>3. Commanded # <<>> /\ Head(Commanded) = Commanded[1]
    BY <1>1, CommandedSays, EmptySeq
  <1>4. Commanded' = [i \in 1 .. n - 1 |-> queue'[i].state]
    BY <1>2 DEF Commanded
  <1>5. Tail(Commanded) = [i \in 1 .. n - 1 |-> Commanded[i + 1]]
    <2>1. /\ Tail(Commanded) \in Seq(SafeState) /\ Len(Tail(Commanded)) = n - 1
          /\ \A i \in 1 .. n - 1 : Tail(Commanded)[i] = Commanded[i + 1]
      BY <1>3, CommandedSays, HeadTailProperties
    <2>2. Tail(Commanded) \in [1 .. n - 1 -> SafeState]
      BY <2>1, LenProperties
    <2> QED
      BY <2>1, <2>2
  <1>6. \A i \in 1 .. n - 1 : queue'[i].state = Commanded[i + 1]
    <2>1. \A i \in 1 .. n - 1 : i + 1 \in 1 .. n
      BY <1>1
    <2> QED
      BY <1>2, <2>1, CommandedSays
  <1> QED
    BY <1>1, <1>2, <1>3, <1>4, <1>5, <1>6, CommandedSays

\* Steps that leave the state, the command under way, the ring and the M7
\* alone are no steps of the commanded state unless they begin or end a
\* transition.
LEMMA ControlStutters ==
  ASSUME UNCHANGED <<currentState, cmd, queue, m7Cmd>>, Phase' = Phase
  PROVE  UNCHANGED Control!vars
  <1>1. InTransition' <=> InTransition
    BY DEF Phase, InTransition
  <1>2. Destination' = Destination
    BY <1>1 DEF Destination
  <1>3. Commanded' = Commanded
    BY DEF Commanded
  <1> QED
    BY <1>2, <1>3 DEF Control!vars

\* The machine starts in full operation with nothing commanded.
LEMMA ControlInit == Init => Control!Init
  <1> SUFFICES ASSUME Init PROVE Control!Init
    OBVIOUS
  <1>1. Commanded = <<>>
    <2>1. queue \in Seq(Commands) /\ Len(queue) = 0
      BY EmptySeq DEF Init
    <2>2. Commanded \in Seq(SafeState) /\ Len(Commanded) = 0
      BY <2>1, CommandedSays
    <2> QED
      BY <2>2, EmptySeq
  <1>2. m7Cmd.state = kFullOperation
    BY States, CommandSays DEF Init, InitialCommand
  <1>3. Phase = "idle" /\ Destination = kFullOperation /\ currentState = kFullOperation
    BY DEF Init, Phase, Destination, InTransition
  <1> QED
    BY <1>1, <1>2, <1>3 DEF Control!Init

\* The first store of ExecuteTransition() requires a state, the send offers it,
\* the store to currentState_ commits it; nothing else touches it.
LEMMA ControlStep ==
  ASSUME TypeInv, StageInv, [Next]_vars
  PROVE  [Control!Next]_Control!vars
  <1> SUFFICES Control!Next \/ UNCHANGED Control!vars
    OBVIOUS
  <1>0. queue \in Seq(Commands) /\ cmd \in Commands
    BY DEF TypeInv
  <1>1. CASE UNCHANGED <<currentState, cmd, queue, m7Cmd, pc>>
    BY <1>1, ControlStutters DEF Phase, InTransition
  <1>2. CASE UNCHANGED vars \/ RegisterListener \/ Drain
    BY <1>1, <1>2 DEF vars, RegisterListener, Drain, DrainBegin, DrainCount, DrainRecount,
       DrainCopy, DrainReturn, DrainSleep, machineVars, loopVars, m7Vars
  <1>3. ASSUME NEW f \in FaultPattern, KeepState(f)
        PROVE  Control!Next \/ UNCHANGED Control!vars
    BY <1>1, <1>3 DEF KeepState, machineVars, m7Vars
  <1>4. ASSUME NEW f \in FaultPattern, BeginTransition(f)
        PROVE  Control!Next \/ UNCHANGED Control!vars
    <2>1. /\ Phase = "idle" /\ Destination = currentState
          /\ Required(f) # currentState /\ currentState # kEmergencyStop
      BY <1>4 DEF BeginTransition, Phase, Destination, InTransition
    <2>2. /\ pc' = "send" /\ cmd' = Command(f, Required(f), sequenceNum + 1)
          /\ UNCHANGED <<currentState, queue, m7Cmd>>
      BY <1>4 DEF BeginTransition, m7Vars
    <2>3. cmd'.state = Required(f)
      BY <2>2, PatternAssumption, States, CommandSays DEF TypeInv
    <2>4. Phase' = "send" /\ Destination' = Required(f) /\ Commanded' = Commanded
      BY <2>2, <2>3 DEF Phase, Destination, InTransition, Commanded
    <2>5. Control!Require(Required(f))
      BY <2>1, <2>2, <2>4 DEF Control!Require
    <2>6. Required(f) \in CalledState
      BY DEF CalledState
    <2> QED
      BY <2>5, <2>6 DEF Control!Next
  <1>5. CASE SendCommandToM7
    <2>1. /\ pc = "send" /\ pc' = "commit"
          /\ queue' = IF Len(queue) < Capacity THEN Append(queue, cmd) ELSE queue
          /\ UNCHANGED <<currentState, cmd, m7Cmd>>
      BY <1>5 DEF SendCommandToM7, machineVars
    <2>2. /\ Phase = "send" /\ Phase' = "commit"
          /\ Destination = cmd.state /\ Destination' = Destination
      BY <2>1 DEF Phase, Destination, InTransition
    <2>3. Len(Commanded) = Len(queue)
      BY <1>0, CommandedSays
    <2>4. CASE Len(queue) < Capacity
      <3>1. Commanded' = Append(Commanded, Destination)
        BY <1>0, <2>1, <2>2, <2>4, CommandedAppend
      <3> QED
        BY <2>1, <2>2, <2>3, <2>4, <3>1 DEF Control!Offer, Control!Next
    <2>5. CASE ~(Len(queue) < Capacity)
      <3>1. Commanded' = Commanded
        BY <2>1, <2>5 DEF Commanded
      <3> QED
        BY <2>1, <2>2, <2>3, <2>5, <3>1 DEF Control!Offer, Control!Next
    <2> QED
      BY <2>4, <2>5
  <1>6. CASE Commit
    <2>1. /\ pc = "commit" /\ pc' = "remember" /\ currentState' = cmd.state
          /\ UNCHANGED <<cmd, queue, m7Cmd>>
      BY <1>6 DEF Commit, m7Vars
    <2>2. /\ Phase = "commit" /\ Phase' = "idle" /\ currentState' = Destination
          /\ Destination' = Destination
      BY <2>1 DEF Phase, Destination, InTransition
    <2>3. Commanded' = Commanded
      BY <2>1 DEF Commanded
    <2> QED
      BY <2>1, <2>2, <2>3 DEF Control!Commit, Control!Next
  <1>7. CASE Remember \/ CountTransition \/ LogTransition \/ LogAdvance
    <2>1. /\ UNCHANGED <<currentState, cmd, queue, m7Cmd>>
          /\ pc \notin {"send", "commit"} /\ pc' \notin {"send", "commit"}
      BY <1>7 DEF Remember, CountTransition, LogTransition, Fill, LogAdvance, m7Vars
    <2> QED
      BY <2>1, ControlStutters DEF Phase, InTransition
  <1>8. ASSUME NEW late \in BOOLEAN, NotifyListeners(late)
        PROVE  Control!Next \/ UNCHANGED Control!vars
    <2>1. /\ UNCHANGED <<currentState, cmd, queue, m7Cmd>>
          /\ pc \notin {"send", "commit"} /\ pc' \notin {"send", "commit"}
      BY <1>8 DEF NotifyListeners, m7Vars
    <2> QED
      BY <2>1, ControlStutters DEF Phase, InTransition
  <1>9. CASE M7Receive
    <2>1. /\ queue # <<>> /\ m7Cmd' = Head(queue) /\ queue' = Tail(queue)
          /\ UNCHANGED <<currentState, cmd, pc>>
      BY <1>9 DEF M7Receive, machineVars, loopVars
    <2>2. Phase' = Phase /\ Destination' = Destination
      BY <2>1 DEF Phase, Destination, InTransition
    <2>3. /\ Commanded # <<>> /\ m7Cmd'.state = Head(Commanded)
          /\ Commanded' = Tail(Commanded)
      BY <1>0, <2>1, CommandedTail
    <2> QED
      BY <2>1, <2>2, <2>3 DEF Control!Enforce, Control!Next
  <1> QED
    BY <1>2, <1>3, <1>4, <1>5, <1>6, <1>7, <1>8, <1>9 DEF Next, Arbitrate

\* ExecuteTransition(), store by store, does with the committed state what
\* CommandedState says; the numbers, the log and the listeners are its detail.
THEOREM MachineImplementsControl == Spec => Control!Spec
  <1>1. MachineInv /\ [Next]_vars => [Control!Next]_Control!vars
    BY ControlStep DEF MachineInv
  <1> QED
    BY ControlInit, MachineCorrect, <1>1, PTL DEF Spec, Control!Spec

-----------------------------------------------------------------------------
(* The ring to the M7 as a channel.                                        *)

\* What the bridge returned to the last send; none until the first one.
SendResult == IF sequenceNum = (IF pc = "send" THEN 1 ELSE 0) THEN "none" ELSE sent

Channel == INSTANCE FifoChannel WITH
             Event <- Commands, NoEvent <- InitialCommand, FullCode <- "kIpcBufferFull",
             rc <- SendResult, out <- m7Cmd

RoomInv == Len(queue) <= Capacity

\* The ring never holds more commands than it has room for.
LEMMA RoomStep ==
  ASSUME TypeInv, RoomInv, [Next]_vars
  PROVE  RoomInv'
  <1> USE DEF RoomInv
  <1>0. queue \in Seq(Commands) /\ cmd \in Commands /\ Capacity \in Nat /\ Len(queue) \in Nat
    BY SizeAssumption, LenProperties DEF TypeInv
  <1>1. CASE UNCHANGED queue
    BY <1>1
  <1>2. CASE SendCommandToM7 /\ Len(queue) < Capacity
    <2>1. queue' = Append(queue, cmd)
      BY <1>2 DEF SendCommandToM7
    <2>2. Len(queue') = Len(queue) + 1
      BY <1>0, <2>1, AppendProperties
    <2> QED
      BY <1>0, <1>2, <2>2
  <1>3. CASE M7Receive
    <2>1. Len(queue') = Len(queue) - 1
      BY <1>0, <1>3, HeadTailProperties DEF M7Receive
    <2> QED
      BY <1>0, <2>1
  <1>4. CASE SendCommandToM7 /\ ~(Len(queue) < Capacity)
    BY <1>1, <1>4 DEF SendCommandToM7
  <1>5. CASE UNCHANGED vars \/ RegisterListener \/ Drain
    BY <1>1, <1>5 DEF vars, m7Vars, RegisterListener, Drain, DrainBegin, DrainCount,
       DrainRecount, DrainCopy, DrainReturn, DrainSleep
  <1>6. ASSUME NEW f \in FaultPattern, KeepState(f) \/ BeginTransition(f) PROVE RoomInv'
    BY <1>1, <1>6 DEF KeepState, BeginTransition, m7Vars
  <1>7. CASE Commit \/ Remember \/ CountTransition \/ LogTransition \/ LogAdvance
    BY <1>1, <1>7 DEF Commit, Remember, CountTransition, LogTransition, Fill, LogAdvance,
                      m7Vars
  <1>8. ASSUME NEW late \in BOOLEAN, NotifyListeners(late) PROVE RoomInv'
    BY <1>1, <1>8 DEF NotifyListeners, m7Vars
  <1> QED
    BY <1>2, <1>3, <1>4, <1>5, <1>6, <1>7, <1>8 DEF Next, Arbitrate

\* The machine starts with an empty channel that has room.
LEMMA ChannelInit == Init => Channel!Init /\ RoomInv
  <1> SUFFICES ASSUME Init PROVE Channel!Init /\ RoomInv
    OBVIOUS
  <1>1. SendResult = "none" /\ queue = <<>> /\ m7Cmd = InitialCommand
    BY DEF Init, SendResult
  <1>2. Len(queue) = 0 /\ Capacity \in Nat
    BY <1>1, EmptySeq, SizeAssumption
  <1> QED
    BY <1>1, <1>2 DEF Channel!Init, RoomInv

\* A send is an accept or a refusal, the M7 takes in order, and the rest of the
\* loop does not touch the channel.
LEMMA ChannelStep ==
  ASSUME TypeInv, StageInv, RoomInv, [Next]_vars
  PROVE  [Channel!Next]_Channel!vars
  <1> SUFFICES Channel!Next \/ UNCHANGED Channel!vars
    OBVIOUS
  <1>0. sequenceNum \in Nat /\ transitionCount \in Nat
    BY DEF TypeInv
  <1>1. CASE UNCHANGED <<queue, m7Cmd, sequenceNum, sent>> /\ pc # "send" /\ pc' # "send"
    BY <1>1 DEF Channel!vars, SendResult
  <1>2. CASE UNCHANGED <<queue, m7Cmd, sequenceNum, sent, pc>>
    BY <1>2 DEF Channel!vars, SendResult
  <1>3. CASE UNCHANGED vars \/ RegisterListener \/ Drain
    BY <1>2, <1>3 DEF vars, machineVars, loopVars, m7Vars, RegisterListener, Drain,
       DrainBegin, DrainCount, DrainRecount, DrainCopy, DrainReturn, DrainSleep
  <1>4. ASSUME NEW f \in FaultPattern, KeepState(f)
        PROVE  Channel!Next \/ UNCHANGED Channel!vars
    BY <1>2, <1>4 DEF KeepState, machineVars, m7Vars
  <1>5. ASSUME NEW f \in FaultPattern, BeginTransition(f)
        PROVE  Channel!Next \/ UNCHANGED Channel!vars
    <2>1. /\ pc = "idle" /\ pc' = "send" /\ sequenceNum' = sequenceNum + 1
          /\ UNCHANGED <<queue, m7Cmd, sent>>
      BY <1>5 DEF BeginTransition, m7Vars
    <2>2. SendResult' = SendResult
      BY <1>0, <2>1 DEF SendResult
    <2> QED
      BY <2>1, <2>2 DEF Channel!vars
  <1>6. CASE SendCommandToM7
    <2>1. /\ pc = "send" /\ pc' = "commit" /\ sequenceNum' = sequenceNum
          /\ m7Cmd' = m7Cmd /\ sequenceNum # 0
      BY <1>0, <1>6 DEF SendCommandToM7, StageInv, machineVars
    <2>2. SendResult' = sent'
      BY <2>1 DEF SendResult
    <2>3. CASE Len(queue) < Capacity
      <3>1. queue' = Append(queue, cmd) /\ sent' = "ok" /\ cmd \in Commands
        BY <1>6, <2>3 DEF SendCommandToM7, TypeInv
      <3>2. Channel!Accept(cmd)
        BY <2>1, <2>2, <2>3, <3>1 DEF Channel!Accept
      <3> QED
        BY <3>1, <3>2 DEF Channel!Next
    <2>4. CASE ~(Len(queue) < Capacity)
      <3>1. queue' = queue /\ sent' = "kIpcBufferFull"
        BY <1>6, <2>4 DEF SendCommandToM7
      <3>2. Len(queue) = Capacity
        BY <2>4, SizeAssumption, LenProperties DEF RoomInv, TypeInv
      <3>3. Channel!Full
        BY <2>1, <2>2, <3>1, <3>2 DEF Channel!Full
      <3> QED
        BY <3>3 DEF Channel!Next
    <2> QED
      BY <2>3, <2>4
  <1>7. CASE Commit \/ Remember \/ CountTransition \/ LogTransition \/ LogAdvance
    BY <1>1, <1>7 DEF Commit, Remember, CountTransition, LogTransition, Fill, LogAdvance,
                      m7Vars
  <1>8. ASSUME NEW late \in BOOLEAN, NotifyListeners(late)
        PROVE  Channel!Next \/ UNCHANGED Channel!vars
    BY <1>1, <1>8 DEF NotifyListeners, m7Vars
  <1>9. CASE M7Receive
    <2>1. /\ queue # <<>> /\ m7Cmd' = Head(queue) /\ queue' = Tail(queue)
          /\ UNCHANGED <<sequenceNum, pc, sent>>
      BY <1>9 DEF M7Receive, machineVars, loopVars
    <2>2. SendResult' = SendResult
      BY <2>1 DEF SendResult
    <2>3. Channel!Deliver
      BY <2>1, <2>2 DEF Channel!Deliver
    <2> QED
      BY <2>3 DEF Channel!Next
  <1> QED
    BY <1>3, <1>4, <1>5, <1>6, <1>7, <1>8, <1>9 DEF Next, Arbitrate

\* The machine uses the ring to the M7 as the bounded FIFO that the bridge is
\* shown to be, and never as anything more: a command is appended while there
\* is room, refused with kIpcBufferFull otherwise, and taken in order.
THEOREM MachineUsesChannel == Spec => Channel!SafeSpec
  <1>1. MachineInv /\ RoomInv /\ [Next]_vars => RoomInv'
    BY RoomStep DEF MachineInv
  <1>2. MachineInv /\ RoomInv /\ [Next]_vars => [Channel!Next]_Channel!vars
    BY ChannelStep DEF MachineInv
  <1> QED
    BY ChannelInit, MachineCorrect, <1>1, <1>2, PTL DEF Spec, Channel!SafeSpec
=============================================================================
