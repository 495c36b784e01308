-------------------------- MODULE SafetyArbitrator --------------------------
(***************************************************************************)
(* The safety arbitrator as a whole: the fault monitor, the degradation    *)
(* matrix, the committed safe state and the command that takes it to the   *)
(* M7.  It composes SensorFaultMonitor (which it extends: the reports, the *)
(* clock, and Arbitrate() up to the fault mask) with the decision and the  *)
(* effects of Arbitrate() that are seen outside: send, then commit.  What  *)
(* ExecuteTransition() writes down besides, numbers, log and listeners, is *)
(* in SafeStateMachine, and the ring behind the queue in IpcBridge.        *)
(***************************************************************************)
EXTENDS SensorFaultMonitor, Sequences

CONSTANTS Mandatory,   \* mandatoryMask_
          Capacity     \* commands that fit in the ring to the M7

ASSUME MandatoryAssumption == Mandatory \subseteq Domain
ASSUME CapacityAssumption == Capacity \in Nat

VARIABLES currentState,  \* currentState_
          target,        \* the argument of ExecuteTransition()
          queue,         \* the states commanded and not yet taken by the M7
          m7State        \* the state the M7 enforces

vars == <<monVars, currentState, target, queue, m7State>>

Init == /\ MonInit
        /\ currentState = kFullOperation
        /\ target = kFullOperation
        /\ queue = <<>>
        /\ m7State = kFullOperation

\* The cycle is over; its locals are gone.
EndCycle == lpc' = "idle" /\ faults' = {} /\ actives' = {} /\ lag' = 0 /\ lost' = {}

\* Slip: a state, once left full operation, is kept until all is well again
\* and never made stricter.
ConcludeOnce(required) ==
  /\ IF required = currentState \/ currentState # kFullOperation
     THEN EndCycle /\ UNCHANGED target
     ELSE lpc' = "send" /\ target' = required /\ UNCHANGED <<faults, actives, lag, lost>>
  /\ UNCHANGED <<domVars, maskVars, cur, wait, repVars, currentState, queue, m7State>>
\* Steps 4 and 5 of Arbitrate(), with what ComputeRequiredState() returned.
Conclude(required) ==
  /\ IF required = currentState \/ currentState = kEmergencyStop
     THEN EndCycle /\ UNCHANGED target
     ELSE lpc' = "send" /\ target' = required /\ UNCHANGED <<faults, actives, lag, lost>>
  /\ UNCHANGED <<domVars, maskVars, cur, wait, repVars, currentState, queue, m7State>>

\* What the rows of the matrix yield that need no fault count.
RequiredByMask == ComputeRequiredState(faultBitmask, {}, faultCount)

\* ComputeRequiredState(): the fault mask was published before; the fault counts
\* are needed only when a mandatory domain is lost, but not LiDAR and Radar both.
Decide ==
  /\ lpc = "compute"
  /\ IF RequiredByMask # kMinimalRiskCondition /\ faultBitmask \cap Mandatory # {}
     THEN /\ lpc' = "counts" /\ todo' = Mandatory
          /\ UNCHANGED <<domVars, maskVars, cur, lag, faults, actives, wait, lost,
                         repVars, currentState, target, queue, m7State>>
     ELSE Conclude(RequiredByMask) /\ UNCHANGED todo

\* faultCount.load() of one mandatory domain; the first at the threshold decides.
DecideCount(d) ==
  /\ lpc = "counts"
  /\ First(d)
  /\ IF faultCount[d] >= kFaultThreshold
     THEN Conclude(kMinimalRiskCondition) /\ todo' = {}
     ELSE /\ todo' = todo \ {d}
          /\ UNCHANGED <<domVars, maskVars, lpc, cur, lag, faults, actives, wait, lost,
                         repVars, currentState, target, queue, m7State>>

\* No mandatory domain is at the threshold.
DecideByMask == /\ lpc = "counts"
                /\ todo = {}
                /\ Conclude(RequiredByMask)
                /\ UNCHANGED todo

\* SendCommandToM7(): a full ring takes nothing.
SendCommand ==
  /\ lpc = "send"
  /\ queue' = IF Len(queue) < Capacity THEN Append(queue, target) ELSE queue
  /\ lpc' = "commit"
  /\ UNCHANGED <<domVars, maskVars, todo, cur, lag, faults, actives, wait, lost, repVars,
                 currentState, target, m7State>>

\* Slip: the commit is forgotten.
CommitForgotten ==
  /\ lpc = "commit"
  /\ EndCycle
  /\ target' = kFullOperation
  /\ UNCHANGED <<domVars, maskVars, todo, cur, wait, repVars, currentState, queue, m7State>>
\* currentState_.store(target), whether or not the command was sent.
Commit ==
  /\ lpc = "commit"
  /\ currentState' = target
  /\ EndCycle
  /\ target' = kFullOperation
  /\ UNCHANGED <<domVars, maskVars, todo, cur, wait, repVars, queue, m7State>>

Arbitrate == \/ Decide \/ (\E d \in Domain : DecideCount(d)) \/ DecideByMask
             \/ SendCommand \/ Commit

\* The M7 takes the oldest command and enforces it.
M7Receive == /\ queue # <<>>
             /\ m7State' = Head(queue)
             /\ queue' = Tail(queue)
             /\ UNCHANGED <<monVars, currentState, target>>

Monitor == Tick \/ (\E r \in Reporter : Report(r)) \/ LoopStep

Next == \/ Monitor /\ UNCHANGED <<currentState, target, queue, m7State>>
        \/ Arbitrate
        \/ M7Receive

\* The safety loop runs on its own core and its cycles have no unbounded wait;
\* the clock runs; a report, once begun, ends; the M7 polls its ring.
Fairness == /\ WF_vars(LoopStep /\ UNCHANGED <<currentState, target, queue, m7State>>)
            /\ WF_vars(Arbitrate)
            /\ WF_vars(Tick /\ UNCHANGED <<currentState, target, queue, m7State>>)
            /\ \A r \in Reporter :
                 WF_vars(ReportStep(r) /\ UNCHANGED <<currentState, target, queue, m7State>>)
            /\ WF_vars(M7Receive)

Spec == Init /\ [][Next]_vars /\ Fairness

-----------------------------------------------------------------------------
(* Properties.                                                             *)

\* Nothing was heard of d for longer than the timeout, a period and a cycle.
LongSilent(d) == age[d] > Timeout + Period + MaxLag

\* From silence to restriction in bounded time: when LiDAR is silent the
\* committed state caps the speed at 100 kph or less, and when Radar is silent
\* too at 20 kph or less, at the latest one period and one cycle after the
\* heartbeat timeout, whatever was reported in between.
SilenceLimitsSpeed ==
  /\ LongSilent(kLidar) => MaxSpeedKph(currentState) <= 100
  /\ LongSilent(kLidar) /\ LongSilent(kRadar) => MaxSpeedKph(currentState) <= 20

ForwardSensorsLost == \A d \in {kLidar, kRadar} : age[d] > Timeout /\ Settled(d)

\* When LiDAR and Radar fall silent for good, the arbitrator settles in the
\* minimal risk condition, however reports of other threads interleave.
ForwardLossSettles ==
  <>[]ForwardSensorsLost => <>[](currentState = kMinimalRiskCondition)

\* When all sensors are nominal for good, full operation is restored.
RecoverySettles ==
  <>[](\A d \in Sensor : health[d] = "kNominal") => <>[](currentState = kFullOperation)

\* The header of SafetyArbitrator: it "issues authoritative SafeState commands
\* to the Cortex-M7": a loss of LiDAR and Radar for good is one the M7 in the
\* end acts on.
M7Follows ==
  <>[]ForwardSensorsLost => <>[](m7State = kMinimalRiskCondition)
=============================================================================
