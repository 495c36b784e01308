----------------------- MODULE SafetyArbitratorProofs -----------------------
(***************************************************************************)
(* Proofs about the fault monitor and the arbitrator, for every set of     *)
(* domains, every mandatory set, every timeout, period and duration of a   *)
(* cycle.  However many threads report: the type invariant, who can be in   *)
(* the fault mask, and the states that are commanded.  Where the reports   *)
(* are made by the safety loop's own thread: the records, the fault mask   *)
(* and the bounded time from silence to a restricted speed.                *)
(***************************************************************************)
EXTENDS SafetyArbitrator, TLAPS

-----------------------------------------------------------------------------
(* Type correctness: any number of threads may report.                     *)

\* A state that Arbitrate() requires or commits is a safe state.
StateTypeOK == currentState \in SafeState /\ target \in SafeState

\* A count that stands still at the threshold stays in its range.
LEMMA CountUpType ==
  ASSUME NEW n \in 0 .. kFaultThreshold
  PROVE  CountUp(n) \in 0 .. kFaultThreshold /\ CountUp(n) > 0
  BY DEF CountUp, kFaultThreshold

\* What ComputeRequiredState() can return for the mask of this cycle.
Requirable == {RequiredByMask, kMinimalRiskCondition}

\* The degradation matrix names a safe state.
LEMMA RequiredType == Requirable \subseteq SafeState
  BY DEF Requirable, RequiredByMask, ComputeRequiredState, SafeState, kFullOperation,
     kRadarCameraFallback, kLidarCameraFallback, kLidarRadarFallback,
     kDeadReckoningMode, kReducedDynamics, kMinimalRiskCondition, kEmergencyStop

\* ComputeRequiredState() goes on with the fault counts, or Arbitrate() concludes
\* with a state that the mask, or the counts, require.
Deciding == Decide \/ (\E d \in Domain : DecideCount(d)) \/ DecideByMask

LEMMA DecidingDoes ==
  ASSUME Deciding
  PROVE  /\ lpc \in {"compute", "counts"}
         /\ UNCHANGED <<domVars, maskVars, cur, wait, repVars, currentState, queue, m7State>>
         /\ todo' \subseteq todo \cup Mandatory
         /\ \/ lpc' = "counts" /\ UNCHANGED <<lag, faults, actives, lost, target>>
            \/ \E required \in Requirable : Conclude(required)
  <1>1. CASE Decide
    <2>1. CASE RequiredByMask # kMinimalRiskCondition /\ faultBitmask \cap Mandatory # {}
      BY <1>1, <2>1 DEF Decide
    <2>2. CASE ~(RequiredByMask # kMinimalRiskCondition /\ faultBitmask \cap Mandatory # {})
      <3>1. lpc = "compute" /\ Conclude(RequiredByMask) /\ todo' = todo
        BY <1>1, <2>2 DEF Decide
      <3> QED
        BY <3>1 DEF Conclude, Requirable
    <2> QED
      BY <2>1, <2>2
  <1>2. CASE \E d \in Domain : DecideCount(d)
    <2>1. PICK d \in Domain : DecideCount(d)
      BY <1>2
    <2>2. CASE faultCount[d] >= kFaultThreshold
      <3>1. lpc = "counts" /\ Conclude(kMinimalRiskCondition) /\ todo' = {}
        BY <2>1, <2>2 DEF DecideCount
      <3> QED
        BY <3>1 DEF Conclude, Requirable
    <2>3. CASE ~(faultCount[d] >= kFaultThreshold)
      BY <2>1, <2>3 DEF DecideCount
    <2> QED
      BY <2>2, <2>3
  <1>3. CASE DecideByMask
    <2>1. lpc = "counts" /\ Conclude(RequiredByMask) /\ todo' = todo
      BY <1>3 DEF DecideByMask
    <2> QED
      BY <2>1 DEF Conclude, Requirable
  <1> QED
    BY <1>1, <1>2, <1>3 DEF Deciding

\* The numbers the module computes with.
LEMMA Numbers == /\ Timeout \in Nat /\ Period \in Nat /\ MaxLag \in Nat /\ Period > 0
                 /\ MaxAge = Timeout + MaxLag + Period + 1
                 /\ kInvalid = 7 /\ NoDomain = 8
                 /\ Domain \subseteq 0 .. 7
                 /\ Sensor \subseteq Domain /\ NoDomain \notin Domain
  BY TimeAssumption, DomainAssumption
     DEF MaxAge, kInvalid, NoDomain, AllDomains, Sensor

\* Init() of the arbitrator leaves well-typed records.
LEMMA TypeInit == Init => MonTypeOK /\ StateTypeOK
  BY Numbers DEF Init, MonInit, MonTypeOK, StateTypeOK, Health, SafeState,
     kFullOperation, kEmergencyStop, kFaultThreshold

\* Reports keep the types: they name sensors only.
LEMMA ReportType ==
  ASSUME MonTypeOK, NEW r \in Reporter, Report(r)
  PROVE  MonTypeOK'
  <1> USE DEF maskVars, loopVars, domVars, GoTo, Leave
  <1>1. CASE \E d \in Domain, h \in Reportable : IngestFault(r, d, h)
    <2>1. PICK d \in Domain, h \in Reportable : IngestFault(r, d, h)
      BY <1>1
    <2>2. /\ d \in Sensor /\ h \in Health
          /\ health' = [health EXCEPT ![d] = h]
          /\ \/ rpc' = [rpc EXCEPT ![r] = "clear"]
             \/ rpc' = [rpc EXCEPT ![r] = "accumulate"]
          /\ rdom' = [rdom EXCEPT ![r] = d]
      BY <2>1, ReportAssumption DEF IngestFault
    <2> QED
      BY <2>1, <2>2 DEF IngestFault, MonTypeOK
  <1>2. CASE \E d \in Domain : RecordHeartbeat(r, d)
    <2>1. PICK d \in Domain : RecordHeartbeat(r, d)
      BY <1>2
    <2>2. age' \in [Domain -> 0 .. MaxAge]
      BY <2>1, Numbers DEF RecordHeartbeat, MonTypeOK
    <2> QED
      BY <2>1, <2>2 DEF RecordHeartbeat, MonTypeOK
  <1>3. CASE IngestClear(r)
    <2>1. faultCount' \in [Domain -> 0 .. kFaultThreshold]
      <3>1. /\ faultCount' = [faultCount EXCEPT ![rdom[r]] = 0]
            /\ faultCount \in [Domain -> 0 .. kFaultThreshold]
            /\ 0 \in 0 .. kFaultThreshold
        BY <1>3 DEF IngestClear, MonTypeOK, kFaultThreshold
      <3> QED
        BY <3>1
    <2> QED
      BY <1>3, <2>1 DEF IngestClear, MonTypeOK
  <1>4. CASE IngestRefresh(r)
    <2>1. age' \in [Domain -> 0 .. MaxAge]
      <3>1. /\ age' = [age EXCEPT ![rdom[r]] = 0]
            /\ age \in [Domain -> 0 .. MaxAge]
            /\ 0 \in 0 .. MaxAge
        BY <1>4, Numbers DEF IngestRefresh, MonTypeOK
      <3> QED
        BY <3>1
    <2> QED
      BY <1>4, <2>1 DEF IngestRefresh, MonTypeOK
  <1>5. CASE IngestAccumulate(r)
    BY <1>5, CountUpType DEF IngestAccumulate, MonTypeOK
  <1>6. CASE HeartbeatLook(r)
    BY <1>6 DEF HeartbeatLook, MonTypeOK
  <1>7. CASE HeartbeatRecover(r)
    BY <1>7 DEF HeartbeatRecover, MonTypeOK, Health
  <1> QED
    BY <1>1, <1>2, <1>3, <1>4, <1>5, <1>6, <1>7 DEF Report, ReportStep

\* The clock keeps the types.
LEMMA TickType ==
  ASSUME MonTypeOK, Tick
  PROVE  MonTypeOK'
  <1> USE DEF maskVars, repVars
  <1>1. age' \in [Domain -> 0 .. MaxAge]
    <2>1. ASSUME NEW d \in Domain
          PROVE  (IF age[d] < MaxAge THEN age[d] + 1 ELSE MaxAge) \in 0 .. MaxAge
      <3>1. age[d] \in 0 .. MaxAge /\ MaxAge \in Nat
        BY Numbers DEF MonTypeOK
      <3> QED
        BY <3>1
    <2> QED
      BY <2>1 DEF Tick
  <1>2. wait' \in 0 .. Period /\ lag' \in 0 .. MaxLag
    BY Numbers DEF Tick, MonTypeOK
  <1>3. lost' \subseteq Domain
    BY DEF Tick, MonTypeOK
  <1>4. UNCHANGED <<health, faultCount, maskVars, lpc, todo, cur, faults, actives, repVars>>
    BY DEF Tick
  <1> QED
    BY <1>1, <1>2, <1>3, <1>4 DEF MonTypeOK

\* The loops of ScanTimeouts() and UpdateBitmasks() keep the types.
LEMMA LoopType ==
  ASSUME MonTypeOK, LoopStep
  PROVE  MonTypeOK'
  <1> USE DEF domVars, maskVars, repVars
  <1>1. CASE ScanBegin
    BY <1>1, Numbers DEF ScanBegin, MonTypeOK
  <1>2. CASE \E d \in Domain : ScanDomain(d)
    BY <1>2 DEF ScanDomain, MonTypeOK
  <1>3. CASE \E d \in Domain : MaskDomain(d)
    BY <1>3 DEF MaskDomain, MonTypeOK
  <1>4. CASE ScanPromote
    BY <1>4 DEF ScanPromote, MonTypeOK, Health
  <1>5. CASE ScanCount
    BY <1>5, CountUpType DEF ScanCount, MonTypeOK
  <1>6. CASE MaskBegin
    BY <1>6 DEF MaskBegin, MonTypeOK
  <1>7. CASE MaskStore
    BY <1>7 DEF MaskStore, MonTypeOK
  <1> QED
    BY <1>1, <1>2, <1>3, <1>4, <1>5, <1>6, <1>7 DEF LoopStep

\* Every step keeps the types.
LEMMA TypeStep == MonTypeOK /\ StateTypeOK /\ [Next]_vars => MonTypeOK' /\ StateTypeOK'
  <1> SUFFICES ASSUME MonTypeOK, StateTypeOK, [Next]_vars
               PROVE  MonTypeOK' /\ StateTypeOK'
    OBVIOUS
  <1> USE DEF vars, monVars, domVars, maskVars, loopVars, repVars, StateTypeOK
  <1>1. CASE Tick /\ UNCHANGED <<currentState, target, queue, m7State>>
    BY <1>1, TickType
  <1>2. CASE (\E r \in Reporter : Report(r))
             /\ UNCHANGED <<currentState, target, queue, m7State>>
    BY <1>2, ReportType
  <1>3. CASE LoopStep /\ UNCHANGED <<currentState, target, queue, m7State>>
    BY <1>3, LoopType
  <1>4. CASE Deciding
    <2>1. /\ UNCHANGED <<domVars, maskVars, cur, wait, repVars, currentState>>
          /\ todo' \subseteq todo \cup Mandatory
          /\ target' \in {target} \cup Requirable
          /\ lpc' \in {"idle", "counts", "send"} /\ lag' \in {lag, 0}
          /\ faults' \in {faults, {}} /\ actives' \in {actives, {}} /\ lost' \in {lost, {}}
      BY <1>4, DecidingDoes DEF Conclude, EndCycle
    <2>2. todo' \subseteq Domain
      BY <2>1, MandatoryAssumption DEF MonTypeOK
    <2>3. MonTypeOK'
      BY <2>1, <2>2, Numbers DEF MonTypeOK
    <2> QED
      BY <2>1, <2>3, RequiredType
  <1>5. CASE SendCommand
    BY <1>5 DEF SendCommand, MonTypeOK
  <1>6. CASE Commit
    <2>1. kFullOperation \in SafeState
      BY DEF kFullOperation, SafeState, kEmergencyStop
    <2> QED
      BY <1>6, <2>1, Numbers DEF Commit, EndCycle, MonTypeOK
  <1>7. CASE M7Receive
    BY <1>7 DEF M7Receive, MonTypeOK
  <1>8. CASE UNCHANGED vars
    BY <1>8 DEF MonTypeOK
  <1> QED
    BY <1>1, <1>2, <1>3, <1>4, <1>5, <1>6, <1>7, <1>8
       DEF Next, Monitor, Arbitrate, Deciding

\* Records, masks and loop variables stay within their types however many
\* threads report, and no report reaches the entry kInvalid of domains_[].
THEOREM TypeCorrect == Spec => []MonTypeOK
  <1>1. Spec => [](MonTypeOK /\ StateTypeOK)
    BY TypeInit, TypeStep, PTL DEF Spec
  <1> QED
    BY <1>1, PTL
-----------------------------------------------------------------------------
(* The inductive invariant where reports come from the safety loop's thread. *)

Failed == {d \in Domain : health[d] = "kFailed"}

\* The domains whose heartbeat timed out grace ticks ago or earlier.
SilentFor(grace) == {d \in Domain : age[d] > Timeout + grace}

\* One report at a time, and none during a cycle.
ThreadInv ==
  \A r \in Reporter :
    IF rpc[r] = "idle" THEN rdom[r] = NoDomain
    ELSE /\ lpc = "idle" /\ rdom[r] \in Sensor
         /\ \A q \in Reporter : q # r => rpc[q] = "idle"

\* health and faultCount of d tell one story.
OneStory(d) == /\ health[d] = "kNominal" => faultCount[d] = 0
               /\ health[d] \in {"kDegraded", "kFailed"} => faultCount[d] > 0

\* Where a report, or the promotion of a domain, is between its two stores.
RecordInv ==
  /\ \A d \in Domain : Settled(d) => OneStory(d)
  /\ \A r \in Reporter :
       /\ rpc[r] \in {"clear", "refresh"} => health[rdom[r]] = "kNominal"
       /\ rpc[r] \in {"refresh", "recover"} => faultCount[rdom[r]] = 0
       /\ rpc[r] = "accumulate" => health[rdom[r]] # "kNominal"
       /\ rpc[r] = "look" => OneStory(rdom[r])
  /\ lpc = "count" => health[cur] = "kFailed"

\* The cycle and its local clock.
ClockInv == lag = IF lpc = "idle" THEN 0 ELSE wait

\* What the loops have done to the domains they have visited.
ScanInv ==
  /\ lpc \in {"promote", "count"} => cur \in todo
  /\ lpc = "promote" => cur \in SilentFor(lag)
  /\ lpc \in {"scan", "promote", "count"} => SilentFor(lag) \ todo \subseteq Failed
  /\ lpc = "mask" => SilentFor(lag) \subseteq Failed /\ faults = Failed \ todo
  /\ lpc \in {"compute", "counts"} => faultBitmask = Failed

\* The published mask is at least as new as the last cycle but one.
MaskInv == SilentFor(IF lpc \in {"scan", "promote", "count", "mask"}
                     THEN Period + lag ELSE wait) \subseteq faultBitmask

\* state limits the speed as the matrix says without the domains of S.
Limits(state, S) ==
  /\ kLidar \in S => MaxSpeedKph(state) <= 100
  /\ {kLidar, kRadar} \subseteq S => MaxSpeedKph(state) <= 20

\* The committed state is at least as new as the last cycle but one.
SpeedInv ==
  /\ Limits(currentState, SilentFor(IF lpc = "idle" THEN wait ELSE Period + lag))
  /\ lpc \in {"send", "commit"} => Limits(target, faultBitmask)

ArbitratorInv == /\ MonTypeOK /\ StateTypeOK
                 /\ ThreadInv /\ RecordInv
                 /\ ClockInv /\ ScanInv /\ MaskInv /\ SpeedInv

-----------------------------------------------------------------------------
(* Facts about silence and limits.                                         *)

\* The matrix restricts the speed for the loss of LiDAR, and of both.
LEMMA RequiredLimits == \A required \in Requirable : Limits(required, faultBitmask)
  BY DEF Limits, Requirable, RequiredByMask, ComputeRequiredState, MaxSpeedKph, kFullOperation,
     kRadarCameraFallback, kLidarCameraFallback, kLidarRadarFallback,
     kDeadReckoningMode, kReducedDynamics, kMinimalRiskCondition, kEmergencyStop

\* An emergency stop satisfies every limit.
LEMMA StopLimits == ASSUME NEW S PROVE Limits(kEmergencyStop, S)
  BY DEF Limits, MaxSpeedKph, kFullOperation, kRadarCameraFallback,
     kLidarCameraFallback, kLidarRadarFallback, kDeadReckoningMode,
     kReducedDynamics, kMinimalRiskCondition, kEmergencyStop

\* A state that limits for some lost domains limits for fewer.
LEMMA LimitsFewer ==
  ASSUME NEW state, NEW S, NEW T, T \subseteq S, Limits(state, S)
  PROVE  Limits(state, T)
  BY DEF Limits

\* A domain silent for longer is silent for less long.
LEMMA SilentLess ==
  ASSUME MonTypeOK, NEW g \in Nat, NEW h \in Nat, g <= h
  PROVE  SilentFor(h) \subseteq SilentFor(g)
  <1> SUFFICES ASSUME NEW d \in Domain, age[d] > Timeout + h
               PROVE  age[d] > Timeout + g
    BY DEF SilentFor
  <1>1. age[d] \in Nat /\ Timeout \in Nat
    BY Numbers DEF MonTypeOK
  <1> QED
    BY <1>1

\* Nothing is silent in the beginning.
LEMMA ArbitratorInit == Init => ArbitratorInv
  <1> SUFFICES ASSUME Init PROVE ArbitratorInv
    OBVIOUS
  <1>1. MonTypeOK /\ StateTypeOK
    BY TypeInit
  <1>2. SilentFor(0) = {} /\ wait = 0 /\ lag = 0 /\ lpc = "idle"
    BY Numbers DEF SilentFor, Init, MonInit
  <1>3. MaskInv /\ ClockInv /\ ScanInv
    BY <1>2 DEF MaskInv, ClockInv, ScanInv
  <1>4. SpeedInv
    BY <1>2 DEF SpeedInv, Limits
  <1>5. ThreadInv /\ RecordInv
    BY <1>2 DEF Init, MonInit, ThreadInv, RecordInv, OneStory
  <1> QED
    BY <1>1, <1>3, <1>4, <1>5 DEF ArbitratorInv

\* The clock: within a cycle wait and lag grow together with the ages.
LEMMA TickInv ==
  ASSUME ArbitratorInv, Tick, UNCHANGED <<currentState, target>>
  PROVE  ArbitratorInv'
  <1> USE DEF domVars, maskVars, loopVars, repVars
  <1>1. MonTypeOK /\ StateTypeOK /\ MonTypeOK' /\ StateTypeOK'
    <2>1. MonTypeOK'
      BY TickType DEF ArbitratorInv
    <2> QED
      BY <2>1 DEF ArbitratorInv, StateTypeOK
  <1>2. /\ UNCHANGED <<health, faultCount, faultBitmask, lpc, todo, cur, faults, rpc, rdom>>
        /\ wait' = wait + 1 /\ wait < Period
        /\ lag' = IF lpc = "idle" THEN lag ELSE lag + 1
    BY DEF Tick
  <1>3. ASSUME NEW g \in Nat
        PROVE  {d \in Domain : age'[d] > Timeout + g + 1} \subseteq SilentFor(g)
    <2> SUFFICES ASSUME NEW d \in Domain, age'[d] > Timeout + g + 1
                 PROVE  age[d] > Timeout + g
      BY DEF SilentFor
    <2>1. /\ age[d] \in Nat /\ Timeout \in Nat /\ age[d] <= MaxAge /\ MaxAge \in Nat
          /\ age'[d] = IF age[d] < MaxAge THEN age[d] + 1 ELSE MaxAge
      BY <1>1, Numbers DEF Tick, MonTypeOK
    <2> QED
      BY <2>1
  <1>4. lag \in 0 .. MaxLag /\ wait \in Nat /\ Period \in Nat
    BY <1>1, Numbers DEF MonTypeOK
  <1>5. SilentFor(wait)' \subseteq SilentFor(wait)
    BY <1>2, <1>3, <1>4, Numbers DEF SilentFor
  <1>6. lpc # "idle" => /\ SilentFor(lag)' \subseteq SilentFor(lag)
                        /\ SilentFor(Period + lag)' \subseteq SilentFor(Period + lag)
    <2> SUFFICES ASSUME lpc # "idle"
                 PROVE  /\ SilentFor(lag)' \subseteq SilentFor(lag)
                        /\ SilentFor(Period + lag)' \subseteq SilentFor(Period + lag)
      OBVIOUS
    <2>1. lag' = lag + 1 /\ lag \in Nat /\ Period + lag \in Nat
      BY <1>2, <1>4
    <2> QED
      BY <1>3, <2>1, Numbers DEF SilentFor
  <1>7. ThreadInv' /\ RecordInv'
    BY <1>2 DEF ArbitratorInv, ThreadInv, RecordInv, Settled, OneStory
  <1>8. ClockInv'
    BY <1>2 DEF ArbitratorInv, ClockInv
  <1>9. ScanInv'
    <2>1. Failed' = Failed
      BY <1>2 DEF Failed
    <2>2. lpc = "promote" => cur \in SilentFor(lag)'
      <3> SUFFICES ASSUME lpc = "promote" PROVE cur \in SilentFor(lag)'
        OBVIOUS
      <3>1. cur \in Domain /\ age[cur] > Timeout + lag
        BY DEF ArbitratorInv, ScanInv, SilentFor
      <3>2. age[cur] \in Nat /\ lag' = lag + 1 /\ lag' <= MaxLag
            /\ age'[cur] = IF age[cur] < MaxAge THEN age[cur] + 1 ELSE MaxAge
        BY <1>1, <1>2, <3>1 DEF Tick, MonTypeOK
      <3>3. age'[cur] > Timeout + lag'
        BY <1>4, <3>1, <3>2, Numbers
      <3> QED
        BY <1>2, <3>1, <3>3 DEF SilentFor
    <2> QED
      BY <1>2, <1>6, <2>1, <2>2 DEF ArbitratorInv, ScanInv
  <1>10. MaskInv'
    BY <1>2, <1>5, <1>6 DEF ArbitratorInv, MaskInv
  <1>11. SpeedInv'
    BY <1>2, <1>5, <1>6, LimitsFewer DEF ArbitratorInv, SpeedInv
  <1> QED
    BY <1>1, <1>7, <1>8, <1>9, <1>10, <1>11 DEF ArbitratorInv
\* A step of a report, made between two cycles: ages do not grow, and what the
\* loop knows does not depend on the records then.
LEMMA ReportQuiet ==
  ASSUME ArbitratorInv, NEW r \in Reporter, Report(r), SameThread,
         UNCHANGED <<currentState, target>>
  PROVE  /\ MonTypeOK' /\ StateTypeOK' /\ ThreadInv'
         /\ ClockInv' /\ ScanInv' /\ MaskInv' /\ SpeedInv'
         /\ lpc = "idle" /\ lpc' = "idle"
         /\ \A q \in Reporter : q # r => rpc[q] = "idle" /\ rpc'[q] = "idle"
                                        /\ rdom[q] = NoDomain /\ rdom'[q] = NoDomain
  <1> USE DEF domVars, maskVars, loopVars, GoTo, Leave
  <1>1. MonTypeOK /\ MonTypeOK' /\ StateTypeOK'
    BY ReportType DEF ArbitratorInv, StateTypeOK
  <1>2. UNCHANGED <<maskVars, loopVars, wait>>
    BY DEF Report, ReportStep, IngestFault, RecordHeartbeat, IngestClear, IngestRefresh,
       IngestAccumulate, HeartbeatLook, HeartbeatRecover
  <1>3. lpc = "idle" /\ \A q \in Reporter : q # r => rpc[q] = "idle"
    <2>1. CASE rpc[r] = "idle"
      <3>1. MayReport(r)
        BY <2>1 DEF Report, ReportStep, IngestFault, RecordHeartbeat, IngestClear,
           IngestRefresh, IngestAccumulate, HeartbeatLook, HeartbeatRecover
      <3> QED
        BY <3>1 DEF MayReport
    <2>2. CASE rpc[r] # "idle"
      BY <2>2 DEF ArbitratorInv, ThreadInv
    <2> QED
      BY <2>1, <2>2
  <1>4. PICK p, c : /\ rpc' = [rpc EXCEPT ![r] = p] /\ rdom' = [rdom EXCEPT ![r] = c]
                    /\ IF p = "idle" THEN c = NoDomain ELSE c \in Sensor
    <2>1. CASE \/ \E d \in Domain, h \in Reportable : IngestFault(r, d, h)
               \/ \E d \in Domain : RecordHeartbeat(r, d)
      BY <2>1 DEF IngestFault, RecordHeartbeat
    <2>2. CASE ReportStep(r)
      <3>1. rdom[r] \in Sensor /\ rdom = [rdom EXCEPT ![r] = rdom[r]]
        BY <1>1, <2>2 DEF ReportStep, IngestClear, IngestRefresh, IngestAccumulate,
           HeartbeatLook, HeartbeatRecover, ArbitratorInv, ThreadInv, MonTypeOK
      <3>2. \/ /\ rdom' = rdom
               /\ \/ rpc' = [rpc EXCEPT ![r] = "refresh"]
                  \/ rpc' = [rpc EXCEPT ![r] = "recover"]
            \/ /\ rdom' = [rdom EXCEPT ![r] = NoDomain]
               /\ rpc' = [rpc EXCEPT ![r] = "idle"]
        BY <2>2 DEF ReportStep, IngestClear, IngestRefresh, IngestAccumulate,
           HeartbeatLook, HeartbeatRecover
      <3> QED
        BY <3>1, <3>2
    <2> QED
      BY <2>1, <2>2 DEF Report
  <1>5. \A q \in Reporter : q # r => rpc'[q] = "idle" /\ rdom[q] = NoDomain
                                    /\ rdom'[q] = NoDomain
    BY <1>1, <1>3, <1>4 DEF MonTypeOK, ArbitratorInv, ThreadInv
  <1>6. ThreadInv'
    <2>1. IF rpc'[r] = "idle" THEN rdom'[r] = NoDomain ELSE rdom'[r] \in Sensor
      BY <1>1, <1>4 DEF MonTypeOK
    <2> QED
      BY <1>2, <1>3, <1>5, <2>1 DEF ThreadInv
  <1>7. SilentFor(wait)' \subseteq SilentFor(wait)
    <2>1. age' = age \/ \E d \in Sensor : age' = [age EXCEPT ![d] = 0]
      BY <1>1 DEF Report, ReportStep, IngestFault, RecordHeartbeat, IngestClear,
         IngestRefresh, IngestAccumulate, HeartbeatLook, HeartbeatRecover,
         ArbitratorInv, ThreadInv
    <2> SUFFICES ASSUME NEW d \in Domain, age'[d] > Timeout + wait
                 PROVE  age[d] > Timeout + wait
      BY <1>2 DEF SilentFor
    <2>2. age'[d] = age[d] \/ age'[d] = 0
      BY <1>1, <2>1 DEF MonTypeOK
    <2>3. Timeout \in Nat /\ wait \in Nat
      BY <1>1, Numbers DEF MonTypeOK
    <2> QED
      BY <2>2, <2>3
  <1>8. ClockInv' /\ ScanInv' /\ MaskInv'
    BY <1>2, <1>3, <1>7 DEF ArbitratorInv, ClockInv, ScanInv, MaskInv
  <1>9. SpeedInv'
    BY <1>2, <1>3, <1>7, LimitsFewer DEF ArbitratorInv, SpeedInv
  <1> QED
    BY <1>1, <1>2, <1>3, <1>5, <1>6, <1>8, <1>9

\* Each report leaves the pair of health and faultCount in one story: the
\* domain it names is not settled until its last store.
LEMMA ReportRecords ==
  ASSUME ArbitratorInv, NEW r \in Reporter, Report(r), SameThread,
         UNCHANGED <<currentState, target>>
  PROVE  RecordInv'
  <1> USE DEF domVars, GoTo, Leave
  <1>1. /\ MonTypeOK /\ MonTypeOK' /\ ThreadInv' /\ lpc = "idle" /\ lpc' = "idle"
        /\ \A q \in Reporter : q # r => rpc[q] = "idle" /\ rpc'[q] = "idle"
                                       /\ rdom[q] = NoDomain /\ rdom'[q] = NoDomain
    BY ReportQuiet DEF ArbitratorInv
  <1>2. NoDomain \notin Domain /\ Sensor \subseteq Domain
    BY Numbers
  <1>3. ASSUME NEW d \in Domain
        PROVE  /\ Settled(d) <=> d # rdom[r]
               /\ Settled(d)' <=> d # rdom'[r]
    BY <1>1, <1>2 DEF Settled
  <1>4. \A d \in Domain : d # rdom[r] => OneStory(d)
    BY <1>3 DEF ArbitratorInv, RecordInv
  <1> SUFFICES /\ \A d \in Domain : d # rdom'[r] => OneStory(d)'
               /\ rpc'[r] \in {"clear", "refresh"} => health'[rdom'[r]] = "kNominal"
               /\ rpc'[r] \in {"refresh", "recover"} => faultCount'[rdom'[r]] = 0
               /\ rpc'[r] = "accumulate" => health'[rdom'[r]] # "kNominal"
               /\ rpc'[r] = "look" => OneStory(rdom[r])'
    <2>1. \A d \in Domain : Settled(d)' => OneStory(d)'
      BY <1>3
    <2>2. \A q \in Reporter : q # r => rpc'[q] = "idle"
      BY <1>1
    <2> QED
      BY <1>1, <2>1, <2>2 DEF RecordInv
  <1>5. CASE \E d \in Domain, h \in Reportable : IngestFault(r, d, h)
    <2>1. PICK d \in Domain, h \in Reportable : IngestFault(r, d, h)
      BY <1>5
    <2>2. /\ d \in Sensor /\ health' = [health EXCEPT ![d] = h] /\ faultCount' = faultCount
          /\ rdom'[r] = d /\ rpc[r] = "idle"
          /\ rpc'[r] = IF h = "kNominal" THEN "clear" ELSE "accumulate"
      BY <1>1, <2>1 DEF IngestFault, MonTypeOK
    <2>3. health'[d] = h /\ \A e \in Domain : e # d => health'[e] = health[e]
      BY <1>1, <2>2 DEF MonTypeOK
    <2>4. rdom[r] = NoDomain
      BY <2>2 DEF ArbitratorInv, ThreadInv
    <2> QED
      BY <1>2, <1>4, <2>2, <2>3, <2>4 DEF OneStory
  <1>6. CASE \E d \in Domain : RecordHeartbeat(r, d)
    <2>1. PICK d \in Domain : RecordHeartbeat(r, d)
      BY <1>6
    <2>2. /\ d \in Sensor /\ UNCHANGED <<health, faultCount>>
          /\ rdom'[r] = d /\ rpc[r] = "idle" /\ rpc'[r] = "look"
      BY <1>1, <2>1 DEF RecordHeartbeat, MonTypeOK
    <2>3. rdom[r] = NoDomain
      BY <2>2 DEF ArbitratorInv, ThreadInv
    <2> QED
      BY <1>2, <1>4, <2>2, <2>3 DEF OneStory
  <1>7. CASE ReportStep(r)
    <2>1. /\ rdom[r] \in Sensor /\ rdom[r] \in Domain
          /\ rpc[r] \in {"clear", "refresh"} => health[rdom[r]] = "kNominal"
          /\ rpc[r] \in {"refresh", "recover"} => faultCount[rdom[r]] = 0
          /\ rpc[r] = "accumulate" => health[rdom[r]] # "kNominal"
          /\ rpc[r] = "look" => OneStory(rdom[r])
      BY <1>2, <1>7 DEF ReportStep, IngestClear, IngestRefresh, IngestAccumulate,
         HeartbeatLook, HeartbeatRecover, ArbitratorInv, ThreadInv, RecordInv
    <2>2. health \in [Domain -> Health] /\ faultCount \in [Domain -> 0 .. kFaultThreshold]
      BY <1>1 DEF MonTypeOK
    <2>3. CASE IngestClear(r)
      <3>1. /\ rpc[r] = "clear" /\ rpc'[r] = "refresh" /\ rdom' = rdom /\ health' = health
            /\ faultCount' = [faultCount EXCEPT ![rdom[r]] = 0]
        BY <1>1, <2>3 DEF IngestClear, MonTypeOK
      <3> QED
        BY <1>4, <2>1, <2>2, <3>1 DEF OneStory
    <2>4. CASE IngestRefresh(r)
      <3>1. /\ rpc[r] = "refresh" /\ rpc'[r] = "idle" /\ UNCHANGED <<health, faultCount>>
        BY <1>1, <2>4 DEF IngestRefresh, MonTypeOK
      <3> QED
        BY <1>4, <2>1, <3>1 DEF OneStory
    <2>5. CASE IngestAccumulate(r)
      <3>1. /\ rpc[r] = "accumulate" /\ rpc'[r] = "idle" /\ health' = health
            /\ faultCount' = [faultCount EXCEPT ![rdom[r]] = CountUp(faultCount[rdom[r]])]
        BY <1>1, <2>5 DEF IngestAccumulate, MonTypeOK
      <3>2. faultCount'[rdom[r]] > 0
        BY <2>1, <2>2, <3>1, CountUpType
      <3>3. \A d \in Domain : d # rdom[r] => faultCount'[d] = faultCount[d]
        BY <2>2, <3>1
      <3> QED
        BY <1>4, <2>1, <3>1, <3>2, <3>3 DEF OneStory
    <2>6. CASE HeartbeatLook(r)
      <3>1. /\ rpc[r] = "look" /\ UNCHANGED <<health, faultCount>>
            /\ \/ rpc'[r] = "recover" /\ rdom' = rdom /\ faultCount[rdom[r]] = 0
               \/ rpc'[r] = "idle"
        BY <1>1, <2>6 DEF HeartbeatLook, MonTypeOK
      <3> QED
        BY <1>4, <2>1, <3>1 DEF OneStory
    <2>7. CASE HeartbeatRecover(r)
      <3>1. /\ rpc[r] = "recover" /\ rpc'[r] = "idle" /\ faultCount' = faultCount
            /\ health' = [health EXCEPT ![rdom[r]] = "kNominal"]
        BY <1>1, <2>7 DEF HeartbeatRecover, MonTypeOK
      <3> QED
        BY <1>4, <2>1, <2>2, <3>1 DEF OneStory
    <2> QED
      BY <1>7, <2>3, <2>4, <2>5, <2>6, <2>7 DEF ReportStep
  <1> QED
    BY <1>5, <1>6, <1>7 DEF Report
\* During a cycle no report is under way: a record is settled unless the scan
\* is between its two stores.
LEMMA CycleAlone ==
  ASSUME ArbitratorInv, SameThread, LoopStep \/ Arbitrate
  PROVE  /\ ThreadInv'
         /\ \A r \in Reporter : rpc[r] = "idle" /\ rpc'[r] = "idle"
         /\ \A d \in Domain : lpc # "count" \/ cur # d => Settled(d)
  <1>1. rpc' = rpc /\ rdom' = rdom
    <2>1. CASE Deciding
      BY <2>1, DecidingDoes DEF repVars
    <2>2. CASE ~Deciding
      BY <2>2 DEF LoopStep, ScanBegin, ScanDomain, MaskDomain, ScanPromote, ScanCount,
         MaskBegin, MaskStore, Arbitrate, Deciding, SendCommand, Commit, repVars
    <2> QED
      BY <2>1, <2>2
  <1>2. \A r \in Reporter : rpc[r] = "idle"
    <2>1. CASE ScanBegin
      BY <2>1 DEF ScanBegin
    <2>2. CASE ~ScanBegin
      <3>1. lpc # "idle"
        <4>1. CASE Deciding
          BY <4>1, DecidingDoes
        <4>2. CASE ~Deciding
          BY <2>2, <4>2 DEF LoopStep, ScanDomain, MaskDomain, ScanPromote, ScanCount,
             MaskBegin, MaskStore, Arbitrate, Deciding, SendCommand, Commit
        <4> QED
          BY <4>1, <4>2
      <3> QED
        BY <3>1 DEF ArbitratorInv, ThreadInv
    <2> QED
      BY <2>1, <2>2
  <1>3. \A r \in Reporter : rdom[r] = NoDomain
    BY <1>2 DEF ArbitratorInv, ThreadInv
  <1>4. ThreadInv'
    BY <1>1, <1>2, <1>3 DEF ThreadInv
  <1>5. \A d \in Domain : lpc # "count" \/ cur # d => Settled(d)
    BY <1>1, <1>3, Numbers DEF Settled
  <1> QED
    BY <1>1, <1>2, <1>4, <1>5

\* A step that leaves health and faultCount alone, and is not the one between
\* the two stores of a promotion, keeps the records.
LEMMA SameRecords ==
  ASSUME ArbitratorInv, SameThread, LoopStep \/ Arbitrate,
         UNCHANGED <<health, faultCount>>, lpc # "count", lpc' # "count"
  PROVE  RecordInv'
  <1>1. \A d \in Domain : OneStory(d)
    BY CycleAlone DEF ArbitratorInv, RecordInv
  <1> QED
    BY <1>1, CycleAlone DEF RecordInv, OneStory

\* ScanTimeouts() begins: a new nowMs, every domain still to be visited.
LEMMA ScanBeginInv ==
  ASSUME ArbitratorInv, SameThread, ScanBegin, UNCHANGED <<currentState, target>>
  PROVE  ArbitratorInv'
  <1> USE DEF domVars, maskVars, repVars
  <1>1. MonTypeOK /\ MonTypeOK' /\ StateTypeOK' /\ ThreadInv'
    BY LoopType, CycleAlone DEF ArbitratorInv, StateTypeOK, LoopStep
  <1>2. /\ lpc = "idle" /\ lpc' = "scan" /\ todo' = Domain /\ lag' = 0 /\ wait' = 0
        /\ UNCHANGED <<health, age, faultCount, faultBitmask, currentState>>
    BY DEF ScanBegin
  <1>3. RecordInv'
    BY <1>2, SameRecords DEF LoopStep
  <1>4. SilentFor(Period + 0) \subseteq SilentFor(wait)
    BY <1>1, SilentLess, Numbers DEF MonTypeOK
  <1>5. SilentFor(Period + lag)' \subseteq SilentFor(wait)
    BY <1>2, <1>4 DEF SilentFor
  <1>6. ClockInv' /\ MaskInv'
    BY <1>2, <1>5 DEF ArbitratorInv, ClockInv, MaskInv
  <1>7. ScanInv'
    BY <1>2 DEF ScanInv, SilentFor
  <1>8. SpeedInv'
    BY <1>2, <1>5, LimitsFewer DEF ArbitratorInv, SpeedInv
  <1> QED
    BY <1>1, <1>3, <1>6, <1>7, <1>8 DEF ArbitratorInv

\* Every other step of the two loops keeps what mask and state owe to the
\* cycle before.
LEMMA CycleQuiet ==
  ASSUME ArbitratorInv, SameThread, UNCHANGED <<currentState, target>>,
         \/ \E d \in Domain : ScanDomain(d) \/ MaskDomain(d)
         \/ ScanPromote \/ ScanCount \/ MaskBegin
  PROVE  /\ MonTypeOK' /\ StateTypeOK' /\ ThreadInv' /\ ClockInv' /\ MaskInv' /\ SpeedInv'
         /\ UNCHANGED <<age, lag, faultBitmask>>
         /\ SilentFor(lag)' = SilentFor(lag)
  <1> USE DEF domVars, maskVars, repVars
  <1>1. MonTypeOK' /\ StateTypeOK' /\ ThreadInv'
    BY LoopType, CycleAlone DEF ArbitratorInv, StateTypeOK, LoopStep
  <1>2. /\ lpc \in {"scan", "promote", "count", "mask"}
        /\ lpc' \in {"scan", "promote", "count", "mask"}
        /\ UNCHANGED <<age, lag, wait, faultBitmask>>
    BY DEF ScanDomain, MaskDomain, ScanPromote, ScanCount, MaskBegin
  <1>3. SilentFor(lag)' = SilentFor(lag) /\ SilentFor(Period + lag)' = SilentFor(Period + lag)
    BY <1>2 DEF SilentFor
  <1>4. ClockInv' /\ MaskInv'
    BY <1>2, <1>3 DEF ArbitratorInv, ClockInv, MaskInv
  <1>5. SpeedInv'
    BY <1>2, <1>3 DEF ArbitratorInv, SpeedInv
  <1> QED
    BY <1>1, <1>2, <1>3, <1>4, <1>5

\* ScanTimeouts(): a domain leaves the loop as failed or as not timed out.
LEMMA ScanLoopInv ==
  ASSUME ArbitratorInv, SameThread, UNCHANGED <<currentState, target>>,
         (\E d \in Domain : ScanDomain(d)) \/ ScanPromote \/ ScanCount
  PROVE  ArbitratorInv'
  <1> USE DEF maskVars, domVars, repVars
  <1>1. /\ MonTypeOK' /\ StateTypeOK' /\ ThreadInv' /\ ClockInv' /\ MaskInv' /\ SpeedInv'
        /\ UNCHANGED <<age, lag, faultBitmask>>
        /\ SilentFor(lag)' = SilentFor(lag)
    BY CycleQuiet
  <1>2. MonTypeOK /\ ScanInv /\ RecordInv
    BY DEF ArbitratorInv
  <1>3. CASE \E d \in Domain : ScanDomain(d)
    <2>1. PICK d \in Domain : ScanDomain(d)
      BY <1>3
    <2>2. lpc = "scan" /\ d \in todo /\ UNCHANGED <<health, faultCount>>
          /\ lpc' \in {"scan", "promote"}
      BY <2>1 DEF ScanDomain, First
    <2>3. Expired(d) <=> d \in SilentFor(lag)
      <3>1. age[d] \in Nat /\ lag \in Nat /\ Timeout \in Nat
        BY <1>2, Numbers DEF MonTypeOK
      <3> QED
        BY <3>1 DEF Expired, SilentFor
    <2>4. RecordInv'
      BY <1>3, <2>2, SameRecords DEF LoopStep
    <2>5. ScanInv'
      <3>1. Failed' = Failed
        BY <2>2 DEF Failed
      <3>2. CASE Expired(d)
        <4>1. lpc' = "promote" /\ cur' = d /\ todo' = todo
          BY <2>1, <3>2 DEF ScanDomain
        <4> QED
          BY <1>1, <1>2, <2>2, <2>3, <3>1, <3>2, <4>1 DEF ScanInv
      <3>3. CASE ~Expired(d)
        <4>1. lpc' = "scan" /\ todo' = todo \ {d}
          BY <2>1, <2>2, <3>3 DEF ScanDomain
        <4> QED
          BY <1>1, <1>2, <2>2, <2>3, <3>1, <3>3, <4>1 DEF ScanInv
      <3> QED
        BY <3>2, <3>3
    <2> QED
      BY <1>1, <2>4, <2>5 DEF ArbitratorInv
  <1>4. CASE ScanPromote
    <2>1. /\ lpc = "promote" /\ cur \in todo /\ cur \in Domain /\ cur' = cur
          /\ faultCount' = faultCount /\ health' = [health EXCEPT ![cur] = "kFailed"]
          /\ IF health[cur] # "kFailed" THEN lpc' = "count" /\ todo' = todo
             ELSE lpc' = "scan" /\ todo' = todo \ {cur}
      BY <1>2, <1>4 DEF ScanPromote, ScanInv, MonTypeOK
    <2>2. health'[cur] = "kFailed" /\ \A d \in Domain : d # cur => health'[d] = health[d]
      BY <1>2, <2>1 DEF MonTypeOK
    <2>3. Failed' = Failed \cup {cur}
      BY <2>1, <2>2 DEF Failed
    <2>4. ScanInv'
      BY <1>1, <1>2, <2>1, <2>3 DEF ScanInv
    <2>5. /\ \A d \in Domain : lpc # "count" \/ cur # d => Settled(d)
          /\ \A d \in Domain : OneStory(d)
      <3>1. LoopStep
        BY <1>4 DEF LoopStep
      <3>2. \A d \in Domain : lpc # "count" \/ cur # d => Settled(d)
        BY <3>1, CycleAlone
      <3> QED
        BY <1>2, <2>1, <3>2 DEF RecordInv
    <2>6. \A d \in Domain : Settled(d)' => OneStory(d)'
      <3> SUFFICES ASSUME NEW d \in Domain, Settled(d)' PROVE OneStory(d)'
        OBVIOUS
      <3>1. ~(lpc' = "count" /\ cur = d)
        BY <2>1 DEF Settled
      <3>2. health'[d] = health[d]
        BY <2>1, <2>2, <3>1
      <3> QED
        BY <2>1, <2>5, <3>2 DEF OneStory
    <2>7. RecordInv'
      BY <1>4, <2>1, <2>2, <2>6, CycleAlone DEF RecordInv, LoopStep
    <2> QED
      BY <1>1, <2>4, <2>7 DEF ArbitratorInv
  <1>5. CASE ScanCount
    <2>1. /\ lpc = "count" /\ cur \in Domain /\ health[cur] = "kFailed" /\ cur' = cur
          /\ lpc' = "scan" /\ todo' = todo \ {cur} /\ health' = health
          /\ faultCount' = [faultCount EXCEPT ![cur] = CountUp(faultCount[cur])]
      BY <1>2, <1>5 DEF ScanCount, ScanInv, RecordInv, MonTypeOK
    <2>2. faultCount'[cur] > 0 /\ \A d \in Domain : d # cur => faultCount'[d] = faultCount[d]
      BY <1>2, <2>1, CountUpType DEF MonTypeOK
    <2>3. ScanInv'
      <3>1. Failed' = Failed /\ cur \in Failed
        BY <2>1 DEF Failed
      <3> QED
        BY <1>1, <1>2, <2>1, <3>1 DEF ScanInv
    <2>4. \A d \in Domain : d # cur => OneStory(d)
      BY <1>2, <1>5, <2>1, CycleAlone DEF RecordInv, LoopStep
    <2>5. \A d \in Domain : OneStory(d)'
      BY <2>1, <2>2, <2>4 DEF OneStory
    <2>6. RecordInv'
      BY <1>5, <2>1, <2>5, CycleAlone DEF RecordInv, LoopStep
    <2> QED
      BY <1>1, <2>3, <2>6 DEF ArbitratorInv
  <1> QED
    BY <1>3, <1>4, <1>5

\* UpdateBitmasks(): the local mask holds the failed domains visited so far.
LEMMA MaskLoopInv ==
  ASSUME ArbitratorInv, SameThread, UNCHANGED <<currentState, target>>,
         MaskBegin \/ \E d \in Domain : MaskDomain(d)
  PROVE  ArbitratorInv'
  <1> USE DEF maskVars, domVars, repVars
  <1>1. /\ MonTypeOK' /\ StateTypeOK' /\ ThreadInv' /\ ClockInv' /\ MaskInv' /\ SpeedInv'
        /\ SilentFor(lag)' = SilentFor(lag)
    BY CycleQuiet
  <1>2. /\ UNCHANGED <<health, faultCount>> /\ lpc' = "mask"
        /\ lpc \in {"scan", "mask"} /\ MonTypeOK /\ ScanInv
    BY DEF MaskBegin, MaskDomain, ArbitratorInv
  <1>3. RecordInv'
    BY <1>2, SameRecords DEF LoopStep
  <1>4. Failed' = Failed /\ Failed \subseteq Domain
    BY <1>2 DEF Failed
  <1>5. ScanInv'
    <2>1. CASE MaskBegin
      BY <1>1, <1>2, <1>4, <2>1 DEF MaskBegin, ScanInv
    <2>2. CASE \E d \in Domain : MaskDomain(d)
      <3>1. PICK d \in Domain : MaskDomain(d)
        BY <2>2
      <3>2. /\ lpc = "mask" /\ d \in todo /\ todo' = todo \ {d}
            /\ faults' = IF d \in Failed THEN faults \cup {d} ELSE faults
        BY <3>1 DEF MaskDomain, First, Failed
      <3>3. faults' = Failed \ todo'
        BY <1>2, <3>2 DEF ScanInv
      <3> QED
        BY <1>1, <1>2, <1>4, <3>2, <3>3 DEF ScanInv
    <2> QED
      BY <2>1, <2>2
  <1> QED
    BY <1>1, <1>3, <1>5 DEF ArbitratorInv

\* The mask is published: it is exact, and it holds every domain that had timed
\* out when the cycle began.
LEMMA MaskStoreInv ==
  ASSUME ArbitratorInv, SameThread, UNCHANGED <<currentState, target>>, MaskStore
  PROVE  ArbitratorInv'
  <1> USE DEF domVars, repVars
  <1>1. MonTypeOK' /\ StateTypeOK' /\ ThreadInv'
    BY LoopType, CycleAlone DEF ArbitratorInv, StateTypeOK, LoopStep
  <1>2. /\ lpc = "mask" /\ lpc' = "compute" /\ todo = {} /\ faultBitmask' = faults
        /\ UNCHANGED <<health, age, faultCount, lag, wait, cur, todo>>
    BY DEF MaskStore
  <1>3. faults = Failed /\ SilentFor(lag) \subseteq Failed /\ lag = wait
    BY <1>2 DEF ArbitratorInv, ScanInv, ClockInv
  <1>4. Failed' = Failed /\ SilentFor(wait)' = SilentFor(wait)
        /\ SilentFor(Period + lag)' = SilentFor(Period + lag)
    BY <1>2 DEF Failed, SilentFor
  <1>5. RecordInv'
    BY <1>2, SameRecords DEF LoopStep
  <1>6. ClockInv' /\ ScanInv' /\ MaskInv'
    BY <1>2, <1>3, <1>4 DEF ArbitratorInv, ClockInv, ScanInv, MaskInv
  <1>7. SpeedInv'
    BY <1>2, <1>4 DEF ArbitratorInv, SpeedInv
  <1> QED
    BY <1>1, <1>5, <1>6, <1>7 DEF ArbitratorInv

\* Arbitrate() decides, sends and commits: the committed state limits the speed
\* as the mask of this cycle demands, whether or not the command was sent.
LEMMA ArbitrateInv ==
  ASSUME ArbitratorInv, SameThread, Arbitrate
  PROVE  ArbitratorInv'
  <1> USE DEF domVars, maskVars, repVars
  <1>1. MonTypeOK /\ StateTypeOK /\ MonTypeOK' /\ StateTypeOK' /\ ThreadInv'
    BY TypeStep, CycleAlone DEF ArbitratorInv, Next
  <1>2. /\ lpc \in {"compute", "counts", "send", "commit"}
        /\ lpc' \in {"counts", "send", "commit", "idle"}
        /\ lpc' = "counts" => lpc \in {"compute", "counts"}
        /\ UNCHANGED <<health, age, faultCount, faultBitmask, wait, cur>>
        /\ lag' = IF lpc' = "idle" THEN 0 ELSE lag
    <2>1. CASE Deciding
      BY <2>1, DecidingDoes DEF Conclude, EndCycle
    <2>2. CASE SendCommand \/ Commit
      BY <2>2 DEF SendCommand, Commit, EndCycle
    <2> QED
      BY <2>1, <2>2 DEF Arbitrate, Deciding
  <1>3. SilentFor(wait)' = SilentFor(wait)
        /\ (lag' = lag => SilentFor(Period + lag)' = SilentFor(Period + lag))
    BY <1>2 DEF SilentFor
  <1>4. SilentFor(wait) \subseteq faultBitmask
    BY <1>2 DEF ArbitratorInv, MaskInv
  <1>5. RecordInv'
    BY <1>2, SameRecords
  <1>6. ClockInv' /\ ScanInv' /\ MaskInv'
    <2>1. Failed' = Failed
      BY <1>2 DEF Failed
    <2> QED
      BY <1>2, <1>3, <1>4, <2>1 DEF ArbitratorInv, ClockInv, ScanInv, MaskInv
  <1>7. SpeedInv'
    <2>1. CASE Deciding /\ lpc' = "idle"
      <3>1. PICK required \in Requirable : Conclude(required)
        BY <2>1, DecidingDoes
      <3>2. currentState' = currentState
            /\ (required = currentState \/ currentState = kEmergencyStop)
        BY <2>1, <3>1 DEF Conclude, EndCycle
      <3>3. Limits(currentState, faultBitmask)
        BY <3>2, RequiredLimits, StopLimits
      <3> QED
        BY <1>3, <1>4, <2>1, <3>2, <3>3, LimitsFewer DEF SpeedInv
    <2>2. CASE Deciding /\ lpc' = "send"
      <3>1. PICK required \in Requirable : Conclude(required)
        BY <2>2, DecidingDoes
      <3>2. currentState' = currentState /\ target' = required /\ lpc \in {"compute", "counts"}
        BY <2>2, <3>1, DecidingDoes DEF Conclude, EndCycle
      <3> QED
        BY <1>2, <1>3, <2>2, <3>2, RequiredLimits DEF ArbitratorInv, SpeedInv
    <2>5. CASE Deciding /\ lpc' = "counts"
      <3>1. currentState' = currentState /\ lpc \in {"compute", "counts"}
        BY <2>5, DecidingDoes
      <3> QED
        BY <1>2, <1>3, <2>5, <3>1 DEF ArbitratorInv, SpeedInv
    <2>3. CASE SendCommand
      BY <1>2, <1>3, <2>3 DEF SendCommand, ArbitratorInv, SpeedInv
    <2>4. CASE Commit
      <3>1. lpc = "commit" /\ lpc' = "idle" /\ currentState' = target
        BY <2>4 DEF Commit, EndCycle
      <3>2. Limits(target, faultBitmask)
        BY <3>1 DEF ArbitratorInv, SpeedInv
      <3> QED
        BY <1>3, <1>4, <3>1, <3>2, LimitsFewer DEF SpeedInv
    <2> QED
      <3>1. Deciding => lpc' \in {"idle", "send", "counts"}
        BY DecidingDoes DEF Conclude, EndCycle
      <3> QED
        BY <2>1, <2>2, <2>3, <2>4, <2>5, <3>1 DEF Arbitrate, Deciding
  <1> QED
    BY <1>1, <1>5, <1>6, <1>7 DEF ArbitratorInv

\* A step that changes none of the variables the invariant speaks of: the M7
\* takes a command.
LEMMA OtherInv ==
  ASSUME ArbitratorInv, UNCHANGED <<monVars, currentState, target>>
  PROVE  ArbitratorInv'
  <1> USE DEF monVars, domVars, maskVars, loopVars, repVars
  <1>1. MonTypeOK' /\ StateTypeOK'
    BY DEF ArbitratorInv, MonTypeOK, StateTypeOK
  <1>2. /\ Failed' = Failed /\ SilentFor(lag)' = SilentFor(lag)
        /\ SilentFor(wait)' = SilentFor(wait)
        /\ SilentFor(Period + lag)' = SilentFor(Period + lag)
    BY DEF Failed, SilentFor
  <1>3. ThreadInv' /\ RecordInv'
    BY DEF ArbitratorInv, ThreadInv, RecordInv, Settled, OneStory
  <1>4. ClockInv' /\ ScanInv' /\ MaskInv' /\ SpeedInv'
    BY <1>2 DEF ArbitratorInv, ClockInv, ScanInv, MaskInv, SpeedInv
  <1> QED
    BY <1>1, <1>3, <1>4 DEF ArbitratorInv

\* Every step keeps the invariant.
LEMMA ArbitratorStep ==
  ASSUME SameThread
  PROVE  ArbitratorInv /\ [Next]_vars => ArbitratorInv'
  <1> SUFFICES ASSUME ArbitratorInv, [Next]_vars PROVE ArbitratorInv'
    OBVIOUS
  <1>1. CASE Monitor /\ UNCHANGED <<currentState, target, queue, m7State>>
    <2>1. UNCHANGED <<currentState, target>>
      BY <1>1
    <2>2. CASE Tick
      BY <2>1, <2>2, TickInv
    <2>3. CASE \E r \in Reporter : Report(r)
      <3>1. PICK r \in Reporter : Report(r)
        BY <2>3
      <3>2. RecordInv'
        BY <2>1, <3>1, ReportRecords
      <3> QED
        BY <2>1, <3>1, <3>2, ReportQuiet DEF ArbitratorInv
    <2>4. CASE LoopStep
      BY <2>1, <2>4, ScanBeginInv, ScanLoopInv, MaskLoopInv, MaskStoreInv DEF LoopStep
    <2> QED
      BY <1>1, <2>2, <2>3, <2>4 DEF Monitor
  <1>2. CASE Arbitrate
    BY <1>2, ArbitrateInv
  <1>3. CASE M7Receive \/ UNCHANGED vars
    BY <1>3, OtherInv DEF M7Receive, vars
  <1> QED
    BY <1>1, <1>2, <1>3 DEF Next

-----------------------------------------------------------------------------
(* What holds where reports come from the safety loop's thread.            *)

\* The invariant holds for every set of domains and all time constants.
THEOREM ArbitratorCorrect ==
  ASSUME SameThread
  PROVE  Spec => []ArbitratorInv
  <1> QED
    BY ArbitratorInit, ArbitratorStep, PTL DEF Spec

\* A nominal domain has no counted fault, a degraded or failed one has: the
\* pair of atomics RecordHeartbeat() decides by agrees.
THEOREM RecordsAgree ==
  ASSUME SameThread
  PROVE  Spec => []HealthMatchesCount
  <1>1. ArbitratorInv => HealthMatchesCount
    BY DEF ArbitratorInv, RecordInv, HealthMatchesCount, OneStory
  <1> QED
    BY <1>1, ArbitratorCorrect, PTL

\* The matrix decides on the domains that are failed at that moment.
THEOREM MaskCurrent ==
  ASSUME SameThread
  PROVE  Spec => []MaskIsCurrent
  <1>1. ArbitratorInv => MaskIsCurrent
    BY DEF ArbitratorInv, ScanInv, MaskIsCurrent, Failed
  <1> QED
    BY <1>1, ArbitratorCorrect, PTL

\* Whatever the invariant bounds, wait and the local clock are no longer than a
\* period and a cycle.
LEMMA LongSilence ==
  ASSUME ArbitratorInv
  PROVE  SilentFor(Period + MaxLag)
           \subseteq SilentFor(wait) \cap SilentFor(Period + lag)
  <1>1. MonTypeOK /\ wait \in 0 .. Period /\ lag \in 0 .. MaxLag
    BY DEF ArbitratorInv, MonTypeOK
  <1>2. SilentFor(Period + MaxLag) \subseteq SilentFor(wait)
    BY <1>1, SilentLess, Numbers
  <1>3. SilentFor(Period + MaxLag) \subseteq SilentFor(Period + lag)
    BY <1>1, SilentLess, Numbers
  <1> QED
    BY <1>2, <1>3

\* A silent domain is in the published mask at the latest a period and a cycle
\* after its heartbeat timed out, whatever was reported about it.
THEOREM SilenceNoticed ==
  ASSUME SameThread
  PROVE  Spec => []SilenceDetected
  <1>1. ArbitratorInv => SilenceDetected
    <2> SUFFICES ASSUME ArbitratorInv, NEW d \in Domain, age[d] > Timeout + Period + MaxLag
                 PROVE  d \in faultBitmask
      BY DEF SilenceDetected
    <2>1. d \in SilentFor(Period + MaxLag)
      BY Numbers DEF SilentFor
    <2> QED
      BY <2>1, LongSilence DEF ArbitratorInv, MaskInv
  <1> QED
    BY <1>1, ArbitratorCorrect, PTL

\* From silence to restriction in bounded time, if LiDAR and Radar are
\* monitored: 100 kph or less without LiDAR, 20 kph or less without both.
THEOREM SpeedLimited ==
  ASSUME SameThread, {kLidar, kRadar} \subseteq Domain
  PROVE  Spec => []SilenceLimitsSpeed
  <1>1. ArbitratorInv => SilenceLimitsSpeed
    <2> SUFFICES ASSUME ArbitratorInv PROVE SilenceLimitsSpeed
      OBVIOUS
    <2>1. Limits(currentState, SilentFor(Period + MaxLag))
      BY LongSilence, LimitsFewer DEF ArbitratorInv, SpeedInv
    <2>2. \A d \in {kLidar, kRadar} : LongSilent(d) => d \in SilentFor(Period + MaxLag)
      BY Numbers DEF LongSilent, SilentFor
    <2> QED
      BY <2>1, <2>2 DEF Limits, SilenceLimitsSpeed
  <1> QED
    BY <1>1, ArbitratorCorrect, PTL

-----------------------------------------------------------------------------
(* Who is in the fault mask, however many threads report.                  *)

\* lost has every domain that is silent or failed during the cycle, so it has
\* the one the scan is failing, those UpdateBitmasks() has collected, and those
\* of the published mask.
LostInv ==
  /\ lpc # "idle" =>
       \A d \in Domain : age[d] > Timeout \/ health[d] = "kFailed" => d \in lost
  /\ lpc \in {"promote", "count"} => cur \in lost
  /\ lpc = "mask" => faults \subseteq lost
  /\ lpc \in {"compute", "counts", "send", "commit"} => faultBitmask \subseteq lost

\* A report makes a domain younger, or fails it and puts it in lost.
LEMMA ReportLost ==
  ASSUME MonTypeOK, LostInv, NEW r \in Reporter, Report(r)
  PROVE  LostInv'
  <1> USE DEF domVars, maskVars, loopVars
  <1>1. UNCHANGED <<maskVars, loopVars>> /\ lost \subseteq lost'
    BY DEF Report, ReportStep, IngestFault, RecordHeartbeat, IngestClear, IngestRefresh,
       IngestAccumulate, HeartbeatLook, HeartbeatRecover
  <1>2. ASSUME NEW d \in Domain, lpc # "idle", health'[d] = "kFailed"
        PROVE  d \in lost'
    <2>1. health[d] = "kFailed" \/ d \in lost'
      BY <1>2 DEF MonTypeOK, Report, ReportStep, IngestFault, RecordHeartbeat, IngestClear,
         IngestRefresh, IngestAccumulate, HeartbeatLook, HeartbeatRecover
    <2> QED
      BY <1>1, <1>2, <2>1 DEF LostInv
  <1>3. ASSUME NEW d \in Domain, lpc # "idle", age'[d] > Timeout
        PROVE  d \in lost'
    <2>1. age' = age \/ \E c \in Domain \cup {NoDomain} : age' = [age EXCEPT ![c] = 0]
      BY DEF MonTypeOK, Sensor, Report, ReportStep, IngestFault, RecordHeartbeat, IngestClear,
         IngestRefresh, IngestAccumulate, HeartbeatLook, HeartbeatRecover
    <2>2. age'[d] = age[d] \/ age'[d] = 0
      BY <2>1 DEF MonTypeOK
    <2>3. ~(0 > Timeout)
      BY Numbers
    <2> QED
      BY <1>1, <1>3, <2>2, <2>3 DEF LostInv
  <1> QED
    BY <1>1, <1>2, <1>3 DEF LostInv

\* The clock: who falls silent during a cycle is put in lost.
LEMMA TickLost ==
  ASSUME LostInv, Tick
  PROVE  LostInv'
  BY DEF LostInv, Tick, maskVars

\* The scan fails only domains that were silent when it looked, and the mask
\* holds only domains that were failed when it looked.
LEMMA LoopLost ==
  ASSUME MonTypeOK, LostInv, LoopStep
  PROVE  LostInv'
  <1> USE DEF domVars, maskVars
  <1>1. CASE ScanBegin
    BY <1>1 DEF ScanBegin, LostInv
  <1>2. CASE \E d \in Domain : ScanDomain(d)
    <2>1. PICK d \in Domain : ScanDomain(d)
      BY <1>2
    <2>2. Expired(d) => age[d] > Timeout
      <3>1. age[d] \in Nat /\ lag \in Nat /\ Timeout \in Nat
        BY Numbers DEF MonTypeOK
      <3> QED
        BY <3>1 DEF Expired
    <2>3. lpc = "scan" /\ (Expired(d) => d \in lost)
      BY <2>1, <2>2 DEF ScanDomain, LostInv
    <2> QED
      BY <2>1, <2>3 DEF ScanDomain, LostInv
  <1>3. CASE \E d \in Domain : MaskDomain(d)
    BY <1>3 DEF MaskDomain, LostInv
  <1>4. CASE ScanPromote
    <2>1. /\ lpc = "promote" /\ cur \in lost /\ cur' = cur /\ UNCHANGED <<age, lost>>
          /\ lpc' \in {"scan", "count"}
      BY <1>4 DEF ScanPromote, LostInv
    <2>2. \A d \in Domain : d = cur \/ health'[d] = health[d]
      BY <1>4 DEF ScanPromote, MonTypeOK
    <2>3. \A d \in Domain : age[d] > Timeout \/ health[d] = "kFailed" => d \in lost
      BY <2>1 DEF LostInv
    <2> QED
      BY <2>1, <2>2, <2>3 DEF LostInv
  <1>5. CASE ScanCount
    BY <1>5 DEF ScanCount, LostInv
  <1>6. CASE MaskBegin
    BY <1>6 DEF MaskBegin, LostInv
  <1>7. CASE MaskStore
    BY <1>7 DEF MaskStore, LostInv
  <1> QED
    BY <1>1, <1>2, <1>3, <1>4, <1>5, <1>6, <1>7 DEF LoopStep

\* The rest of Arbitrate() touches neither the mask nor the records.
LEMMA ArbitrateLost ==
  ASSUME LostInv, Arbitrate
  PROVE  LostInv'
  <1> USE DEF domVars, maskVars
  <1>1. CASE Deciding
    <2>1. /\ lpc \in {"compute", "counts"} /\ UNCHANGED <<health, age, faultBitmask>>
          /\ lpc' = "idle" \/ (lpc' \in {"counts", "send"} /\ lost' = lost)
      BY <1>1, DecidingDoes DEF Conclude, EndCycle
    <2> QED
      BY <2>1 DEF LostInv
  <1>2. CASE SendCommand
    BY <1>2 DEF SendCommand, LostInv
  <1>3. CASE Commit
    BY <1>3 DEF Commit, EndCycle, LostInv
  <1> QED
    BY <1>1, <1>2, <1>3 DEF Arbitrate, Deciding

\* A domain that is alive throughout a cycle is not in the mask the cycle decides
\* on: heartbeats, reports, the scan and the clock may interleave as they like,
\* and there may be any number of reporting threads.
THEOREM MaskAlwaysJustified == Spec => []MaskJustified
  <1>1. Init => LostInv
    BY DEF Init, MonInit, LostInv
  <1>2. MonTypeOK /\ LostInv /\ [Next]_vars => LostInv'
    <2> SUFFICES ASSUME MonTypeOK, LostInv, [Next]_vars PROVE LostInv'
      OBVIOUS
    <2>1. CASE Monitor
      BY <2>1, TickLost, ReportLost, LoopLost DEF Monitor
    <2>2. CASE Arbitrate
      BY <2>2, ArbitrateLost
    <2>3. CASE M7Receive \/ UNCHANGED vars
      BY <2>3 DEF M7Receive, vars, monVars, domVars, maskVars, loopVars, LostInv
    <2> QED
      BY <2>1, <2>2, <2>3 DEF Next
  <1>3. LostInv => MaskJustified
    BY DEF LostInv, MaskJustified
  <1> QED
    BY <1>1, <1>2, <1>3, TypeCorrect, PTL DEF Spec

-----------------------------------------------------------------------------
(* The states that are commanded, however many threads report.             *)

\* The states the matrix calls for when no domain is mandatory, and what the
\* specification of commanded states speaks of.
CalledState == {ComputeRequiredState(f, {}, <<>>) : f \in SUBSET AllDomains}
InTransition == lpc \in {"send", "commit"}
Phase == IF InTransition THEN lpc ELSE "idle"
Destination == IF InTransition THEN target ELSE currentState

Control == INSTANCE CommandedState WITH
             Called <- CalledState, Initial <- kFullOperation, Latched <- kEmergencyStop,
             phase <- Phase, current <- currentState, target <- Destination,
             enforced <- m7State

\* Without mandatory domains the matrix asks whether LiDAR and Radar are both in
\* the mask, then for one domain after the other.
LEMMA CalledAre ==
  CalledState = {kFullOperation, kRadarCameraFallback, kLidarCameraFallback,
                 kLidarRadarFallback, kDeadReckoningMode, kReducedDynamics,
                 kMinimalRiskCondition}
  <1>1. ASSUME NEW f
        PROVE  ComputeRequiredState(f, {}, <<>>) =
                 IF kLidar \in f /\ kRadar \in f THEN kMinimalRiskCondition ELSE
                 IF kLidar \in f  THEN kRadarCameraFallback ELSE
                 IF kRadar \in f  THEN kLidarCameraFallback ELSE
                 IF kCamera \in f THEN kLidarRadarFallback ELSE
                 IF kGnss \in f /\ kImu \notin f THEN kDeadReckoningMode ELSE
                 IF kImu \in f    THEN kReducedDynamics
                                  ELSE kFullOperation
    BY DEF ComputeRequiredState, MandatoryLoss
  <1>2. \A f \in {{}, {kLidar}, {kRadar}, {kCamera}, {kGnss}, {kImu}, {kLidar, kRadar}} :
          f \in SUBSET AllDomains
    BY DEF AllDomains, kInvalid, kLidar, kRadar, kCamera, kGnss, kImu
  <1>3. /\ ComputeRequiredState({}, {}, <<>>) = kFullOperation
        /\ ComputeRequiredState({kLidar}, {}, <<>>) = kRadarCameraFallback
        /\ ComputeRequiredState({kRadar}, {}, <<>>) = kLidarCameraFallback
        /\ ComputeRequiredState({kCamera}, {}, <<>>) = kLidarRadarFallback
        /\ ComputeRequiredState({kGnss}, {}, <<>>) = kDeadReckoningMode
        /\ ComputeRequiredState({kImu}, {}, <<>>) = kReducedDynamics
        /\ ComputeRequiredState({kLidar, kRadar}, {}, <<>>) = kMinimalRiskCondition
    BY <1>1 DEF kLidar, kRadar, kCamera, kGnss, kImu
  <1>4. ASSUME NEW f \in SUBSET AllDomains
        PROVE  ComputeRequiredState(f, {}, <<>>) \in
                 {kFullOperation, kRadarCameraFallback, kLidarCameraFallback,
                  kLidarRadarFallback, kDeadReckoningMode, kReducedDynamics,
                  kMinimalRiskCondition}
    BY <1>1
  <1> QED
    BY <1>2, <1>3, <1>4 DEF CalledState

\* The rule for mandatory domains adds no state: what it yields for some mask,
\* mandatory mask and counts is what another mask yields without it.
THEOREM MandatoryAddsNothing ==
  ASSUME NEW f, NEW mandatory, NEW count
  PROVE  ComputeRequiredState(f, mandatory, count) \in CalledState
  BY CalledAre DEF ComputeRequiredState

\* Steps that leave state, target, queue and M7 alone are no steps of the
\* commanded state unless they begin or end a transition.
LEMMA ControlStutters ==
  ASSUME UNCHANGED <<currentState, target, queue, m7State>>, Phase' = Phase
  PROVE  UNCHANGED Control!vars
  <1>1. InTransition' <=> InTransition
    BY DEF Phase, InTransition
  <1> QED
    BY <1>1 DEF Control!vars, Destination

LEMMA ControlInit == Init => Control!Init
  BY DEF Init, MonInit, Control!Init, Phase, Destination, InTransition

LEMMA ControlStep == [Next]_vars => [Control!Next]_Control!vars
  <1> SUFFICES ASSUME [Next]_vars
               PROVE  Control!Next \/ UNCHANGED Control!vars
    OBVIOUS
  <1>1. CASE Monitor /\ UNCHANGED <<currentState, target, queue, m7State>>
    <2>1. CASE Tick \/ \E r \in Reporter : Report(r)
      <3>1. lpc' = lpc
        BY <2>1 DEF Tick, Report, ReportStep, IngestFault, IngestClear, IngestRefresh,
           IngestAccumulate, RecordHeartbeat, HeartbeatLook, HeartbeatRecover, loopVars
      <3> QED
        BY <1>1, <3>1, ControlStutters DEF Phase, InTransition
    <2>2. CASE LoopStep
      <3>1. ~InTransition /\ ~InTransition'
        BY <2>2 DEF LoopStep, ScanBegin, ScanDomain, MaskDomain, ScanPromote, ScanCount,
           MaskBegin, MaskStore, InTransition
      <3> QED
        BY <1>1, <3>1, ControlStutters DEF Phase
    <2> QED
      BY <1>1, <2>1, <2>2 DEF Monitor
  <1>2. CASE Deciding
    <2>1. /\ UNCHANGED <<currentState, queue, m7State>> /\ lpc \in {"compute", "counts"}
          /\ ~InTransition /\ Phase = "idle" /\ Destination = currentState
      BY <1>2, DecidingDoes DEF InTransition, Phase, Destination
    <2>2. CASE lpc' = "counts" /\ target' = target
      BY <2>1, <2>2, ControlStutters DEF Phase, InTransition
    <2>3. CASE \E required \in Requirable : Conclude(required)
      <3>1. PICK required \in Requirable : Conclude(required)
        BY <2>3
      <3>2. CASE required = currentState \/ currentState = kEmergencyStop
        <4>1. lpc' = "idle" /\ target' = target
          BY <3>1, <3>2 DEF Conclude, EndCycle
        <4> QED
          BY <2>1, <4>1, ControlStutters DEF Phase, InTransition
      <3>3. CASE required # currentState /\ currentState # kEmergencyStop
        <4>1. lpc' = "send" /\ target' = required
          BY <3>1, <3>3 DEF Conclude
        <4>2. Phase' = "send" /\ Destination' = required
          BY <4>1 DEF Phase, Destination, InTransition
        <4>3. required \in CalledState
          BY MandatoryAddsNothing, CalledAre DEF Requirable, RequiredByMask
        <4>4. Control!Require(required)
          BY <2>1, <3>3, <4>2 DEF Control!Require
        <4> QED
          BY <4>3, <4>4 DEF Control!Next
      <3> QED
        BY <3>2, <3>3
    <2> QED
      BY <1>2, <2>2, <2>3, DecidingDoes
  <1>3. CASE SendCommand
    <2>1. Phase = "send" /\ Phase' = "commit" /\ Destination = target /\ Destination' = target
      BY <1>3 DEF SendCommand, Phase, Destination, InTransition
    <2>2. Control!Offer
      BY <1>3, <2>1 DEF SendCommand, Control!Offer
    <2> QED
      BY <2>2 DEF Control!Next
  <1>4. CASE Commit
    <2>1. Phase = "commit" /\ Phase' = "idle" /\ Destination = target
          /\ Destination' = currentState' /\ currentState' = target
      BY <1>4 DEF Commit, EndCycle, Phase, Destination, InTransition
    <2>2. Control!Commit
      BY <1>4, <2>1 DEF Commit, Control!Commit
    <2> QED
      BY <2>2 DEF Control!Next
  <1>5. CASE M7Receive
    <2>1. Phase' = Phase /\ Destination' = Destination
      BY <1>5 DEF M7Receive, monVars, loopVars, Phase, Destination, InTransition
    <2>2. Control!Enforce
      BY <1>5, <2>1 DEF M7Receive, Control!Enforce
    <2> QED
      BY <2>2 DEF Control!Next
  <1>6. CASE UNCHANGED vars
    BY <1>6, ControlStutters DEF vars, monVars, loopVars, Phase, InTransition
  <1> QED
    BY <1>1, <1>2, <1>3, <1>4, <1>5, <1>6 DEF Next, Arbitrate, Deciding

\* The loop behind the monitor, with any number of reporting threads, does with
\* the committed state what CommandedState says.
THEOREM ArbitratorImplementsControl == Spec => Control!Spec
  BY ControlInit, ControlStep, PTL DEF Spec, Control!Spec

\* A commanded state stays one the matrix calls for.
LEMMA CalledStep ==
  ASSUME Control!OnlyCalled, [Control!Next]_Control!vars
  PROVE  Control!OnlyCalled'
  <1> USE DEF Control!OnlyCalled
  <1>1. CASE \E s \in CalledState : Control!Require(s)
    BY <1>1 DEF Control!Require
  <1>2. CASE Control!Offer
    <2>1. Destination \in CalledState \cup {kFullOperation}
      OBVIOUS
    <2>2. Append(queue, Destination) \in Seq(CalledState \cup {kFullOperation})
      BY <2>1
    <2> QED
      BY <1>2, <2>2 DEF Control!Offer
  <1>3. CASE Control!Commit
    BY <1>3 DEF Control!Commit
  <1>4. CASE Control!Enforce
    <2>1. Head(queue) \in CalledState \cup {kFullOperation}
          /\ Tail(queue) \in Seq(CalledState \cup {kFullOperation})
      BY <1>4 DEF Control!Enforce
    <2> QED
      BY <1>4, <2>1 DEF Control!Enforce
  <1>5. CASE UNCHANGED Control!vars
    BY <1>5 DEF Control!vars
  <1> QED
    BY <1>1, <1>2, <1>3, <1>4, <1>5 DEF Control!Next

\* No report, fault mask, mandatory mask or failed send ever leads to the
\* emergency stop: the arbitrator does not command it, the M7 does not get to
\* enforce it, and the latch of Arbitrate() is never needed.
THEOREM StopNeverCommanded ==
  Spec => [](currentState # kEmergencyStop /\ m7State # kEmergencyStop)
  <1>1. Control!Init => Control!OnlyCalled
    BY DEF Control!Init, Control!OnlyCalled
  <1>2. Control!Spec => []Control!OnlyCalled
    BY <1>1, CalledStep, PTL DEF Control!Spec
  <1>3. kEmergencyStop \notin CalledState \cup {kFullOperation}
    BY CalledAre DEF kFullOperation, kRadarCameraFallback, kLidarCameraFallback,
       kLidarRadarFallback, kDeadReckoningMode, kReducedDynamics, kMinimalRiskCondition,
       kEmergencyStop
  <1>4. Control!OnlyCalled => currentState # kEmergencyStop /\ m7State # kEmergencyStop
    BY <1>3 DEF Control!OnlyCalled
  <1> QED
    BY <1>2, <1>4, ArbitratorImplementsControl, PTL
=============================================================================
